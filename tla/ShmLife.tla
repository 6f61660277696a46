------------------------------ MODULE ShmLife ------------------------------
(***************************************************************************)
(* The life cycle of a shared memory of src/c/dao.c: its owner creates it, *)
(* publishes, closes it or dies, and creates it again over the old file,   *)
(* while clients open it, read it in order and close it at any time.       *)
(* Nothing tells a client how far a creation has come, or that a memory it *)
(* has mapped is being created anew: O_TRUNC keeps the inode.              *)
(*                                                                         *)
(* The ring is abstracted to its head and the number of frames in it,      *)
(* which determine all its counters (HistoryWindow of ShmFifo); a commit   *)
(* and a daoShmGetNextSegment are one step each.  Every creation uses the  *)
(* same geometry.  A named semaphore is the number of its incarnation: two *)
(* processes share it if they hold the same number.  The log semaphore is  *)
(* left out.                                                               *)
(***************************************************************************)
EXTENDS Integers, FiniteSets

CONSTANTS N,          \* fifo_size
          Clients,    \* processes that open the memory
          NBsem,      \* semaphores of a memory: 10
          MaxLives,   \* bound: creations
          MaxFrames   \* bound: frames in one life

ASSUME NAssumption == N \in Nat \ {0}
ASSUME NBsemAssumption == NBsem \in Nat \ {0}
ASSUME BoundsAssumption == MaxLives \in Nat /\ MaxFrames \in Nat

VARIABLES
    file,          \* "absent", "empty" (truncated) or "full"
    md,            \* md[0]: fifo_size, atype, size, nelement, sem
    head, frames,  \* md[0].fifo_last_written, and the counter at the head
    semName,       \* the named semaphores: incarnation, or NoSem
    born,          \* incarnations so far
    cpc, unopened, \* the owner: where it is, semaphores it has yet to open
    semptr,        \* the owner's semaphores
    lives,         \* creations so far
    pc, image,     \* clients: where they are, and their IMAGE struct
    ready,         \* history: the last creation was finished
    how            \* history, of a client's last opening: "quiet" if the memory
                   \* was ready, "racing" if not, "torn" if it was truncated
                   \* meanwhile, "late" if that was after the client's check of
                   \* the sizes and before its read of fifo_size

memory == <<file, md, head, frames, ready>>
names == <<semName, born>>
creator == <<cpc, unopened, semptr, lives>>
client == <<pc, image, how>>
vars == <<memory, names, creator, client>>

Slots == 0 .. N-1
Sems == 0 .. NBsem-1

\* The names of a memory's semaphores, and one that an older program left.
Names == 0 .. NBsem

NoSem == 0
NoHandles == [s \in Names |-> NoSem]
Zeroed == [fifo_size |-> 0, atype |-> 0, size |-> 0, nelement |-> 0, sem |-> 0]

\* array and kw are the header fields that the pointers are computed from; room
\* is the length of the array semptr.
NoImage == [array |-> 0, depth |-> 0, kw |-> 0, semptr |-> NoHandles, room |-> 0,
            tailIdx |-> 0, tailCnt |-> 0]

\* The counter of slot i.
Behind(i) == IF i <= head THEN head - i ELSE head - i + N
cnt0(i) == IF Behind(i) <= frames THEN frames - Behind(i) ELSE 0

Init ==
    /\ file = "absent" /\ md = Zeroed /\ head = 0 /\ frames = 0 /\ ready = FALSE
    /\ semName \in {NoHandles, [NoHandles EXCEPT ![NBsem] = 1]}
    /\ born = 1
    /\ cpc = "none" /\ unopened = {} /\ semptr = NoHandles /\ lives = 0
    /\ pc = [c \in Clients |-> "closed"]
    /\ image = [c \in Clients |-> NoImage]
    /\ how = [c \in Clients |-> "quiet"]

-----------------------------------------------------------------------------
(***************************************************************************)
(* daoShmImageCreate_FIFO, in the order of its effects on what others see. *)
(***************************************************************************)
Step(from, to) == cpc = from /\ cpc' = to

Opening == {"map", "type", "size", "layout", "sems", "tail"}

\* What a truncation makes of the opening of c.
Truncated(c) ==
    IF pc[c] = "layout" THEN "late"
    ELSE IF pc[c] \in Opening /\ how[c] # "late" THEN "torn" ELSE how[c]

\* The name is parsed, the log semaphore made, the size computed; then
\* open(O_CREAT | O_TRUNC): the file is empty, for those that map it as well.
Truncate ==
    /\ Step("none", "stretch")
    /\ lives < MaxLives
    /\ lives' = lives + 1
    /\ file' = "empty"
    /\ md' = Zeroed /\ head' = 0 /\ frames' = 0
    /\ ready' = FALSE
    /\ how' = [c \in Clients |-> Truncated(c)]
    /\ UNCHANGED <<names, unopened, semptr, pc, image>>

\* lseek and a write of the last byte give the file its size, all zero.
Stretch ==
    /\ Step("stretch", "map")
    /\ file' = "full"
    /\ UNCHANGED <<md, head, frames, ready, names, unopened, semptr, lives, client>>

Header(from, to, m) ==
    /\ Step(from, to)
    /\ md' = m
    /\ UNCHANGED <<file, head, frames, ready, names, unopened, semptr, lives, client>>

\* Mutant: fifo_size is stored only at the end.
MapLateDepth == Header("map", "type", md)

\* The creator maps the file and stores fifo_size first of all.
Map == Header("map", "type", [md EXCEPT !.fifo_size = N, !.sem = 0])

StoreType == Header("type", "size", [md EXCEPT !.atype = 1])

StoreSize == Header("size", "count", [md EXCEPT !.size = 1])

\* The data are zeroed, then the counters (zero already) and nelement stored.
StoreCounters == Header("count", "sems", [md EXCEPT !.nelement = 1])

\* Mutant: the files of all semaphores are removed.
StaleNamesAll == Names

\* Mutant: no file is removed.
StaleNamesNone == {}

\* The semaphore files that a new memory removes: those beyond its own.
StaleNames == {s \in Names : s >= NBsem}

\* daoImageCreateSem: removes stale files and enters the number of semaphores.
CreateSem ==
    /\ Step("sems", "open")
    /\ semName' = [s \in Names |-> IF s \in StaleNames THEN NoSem ELSE semName[s]]
    /\ md' = [md EXCEPT !.sem = NBsem]
    /\ unopened' = Sems
    /\ semptr' = NoHandles
    /\ UNCHANGED <<file, head, frames, ready, born, lives, client>>

\* A semaphore of that name is used as it is, else one is created.
OpenSem(s) ==
    /\ cpc = "open"
    /\ s \in unopened
    /\ \A t \in unopened : s <= t
    /\ unopened' = unopened \ {s}
    /\ semName' = IF semName[s] = NoSem THEN [semName EXCEPT ![s] = born + 1] ELSE semName
    /\ born' = IF semName[s] = NoSem THEN born + 1 ELSE born
    /\ semptr' = [semptr EXCEPT ![s] = semName'[s]]
    /\ UNCHANGED <<memory, cpc, lives, client>>

\* The head goes to the last slot; then the creator's own tail and the keywords.
SetHead ==
    /\ Step("open", "live")
    /\ unopened = {}
    /\ md' = [md EXCEPT !.fifo_size = N]
    /\ head' = N - 1
    /\ ready' = TRUE
    /\ UNCHANGED <<file, frames, names, unopened, semptr, lives, client>>

\* The owner commits a frame.
Publish ==
    /\ cpc = "live"
    /\ frames < MaxFrames
    /\ head' = (head + 1) % N
    /\ frames' = frames + 1
    /\ UNCHANGED <<file, md, ready, names, creator, client>>

\* daoShmCloseShm: semaphores and mapping are given back, the files stay.
CloseOwner ==
    /\ Step("live", "none")
    /\ semptr' = NoHandles
    /\ UNCHANGED <<memory, names, unopened, lives, client>>

\* The owner dies in the middle of a creation, or one of its system calls fails
\* and the code calls exit.  Dying later leaves what CloseOwner leaves.
Die ==
    /\ cpc \notin {"none", "live"}
    /\ cpc' = "none"
    /\ unopened' = {}
    /\ semptr' = NoHandles
    /\ UNCHANGED <<memory, names, lives, client>>

CreateStep ==
    \/ Stretch \/ Map \/ StoreType \/ StoreSize \/ StoreCounters
    \/ CreateSem \/ (\E s \in Sems : OpenSem(s)) \/ SetHead

-----------------------------------------------------------------------------
(***************************************************************************)
(* daoShmShm2Img, access by access.                                        *)
(***************************************************************************)
ClientFrame == UNCHANGED <<memory, names, creator>>

Access(c, from, to, i) ==
    /\ pc[c] = from
    /\ file = "full"
    /\ pc' = [pc EXCEPT ![c] = to]
    /\ image' = [image EXCEPT ![c] = i]
    /\ UNCHANGED how
    /\ ClientFrame

\* Without the file the call returns DAO_ERROR and changes nothing.
OpenFile(c) ==
    /\ pc[c] = "closed"
    /\ file # "absent"
    /\ pc' = [pc EXCEPT ![c] = "map"]
    /\ image' = [image EXCEPT ![c] = NoImage]
    /\ how' = [how EXCEPT ![c] = IF ready THEN "quiet" ELSE "racing"]
    /\ ClientFrame

\* fstat and mmap.
MapFile(c) == Access(c, "map", "type", image[c])

ReadType(c) == Access(c, "type", "size", [image[c] EXCEPT !.array = md.atype])

\* An axis of size 0 ends the process; fifo_size is read after the sizes.
CheckSize(c) == md.size # 0 /\ Access(c, "size", "layout", image[c])

\* The data start after fifo_size metadata, the keywords nelement later.
ReadLayout(c) ==
    Access(c, "layout", "sems",
           [image[c] EXCEPT !.depth = md.fifo_size, !.kw = md.nelement])

\* The names that exist, counted from 0 up to the first that does not.
Detected == {s \in Names : \A t \in 0 .. s : semName[t] # NoSem}

\* semptr gets room for md.sem semaphores, and all that are detected are opened.
OpenSemaphores(c) ==
    Access(c, "sems", "tail",
           [image[c] EXCEPT
               !.room = md.sem,
               !.semptr = [s \in Names |-> IF s \in Detected THEN semName[s] ELSE NoSem]])

WithTail(c, i, n) == [image[c] EXCEPT !.tailIdx = i, !.tailCnt = n]

ResetTail(c) == Access(c, "tail", "open", WithTail(c, head, cnt0(head)))

\* The client's process ends: mmap of an empty file or an axis of size 0 make
\* daoShmShm2Img call exit, an access to a mapping of a truncated file is an error,
\* and so is the division by a fifo_size of 0 in daoShmGetNextSegment.
Exit(c) ==
    /\ \/ pc[c] # "closed" /\ file = "empty"
       \/ pc[c] = "size" /\ md.size = 0
       \/ pc[c] = "open" /\ md.fifo_size = 0
    /\ pc' = [pc EXCEPT ![c] = "closed"]
    /\ image' = [image EXCEPT ![c] = NoImage]
    /\ UNCHANGED how
    /\ ClientFrame

\* daoShmCloseShm.
Close(c) ==
    /\ pc[c] = "open"
    /\ file = "full"
    /\ pc' = [pc EXCEPT ![c] = "closed"]
    /\ image' = [image EXCEPT ![c] = NoImage]
    /\ UNCHANGED how
    /\ ClientFrame

Succ(i) == (i + 1) % md.fifo_size

\* Mutant: there is new data only if the head's counter is beyond the tail's.
NotReadyBelow(c) == cnt0(head) <= image[c].tailCnt

NotReady(c) == image[c].tailIdx = head /\ image[c].tailCnt = cnt0(head)

InSequence(c) == cnt0(Succ(image[c].tailIdx)) = image[c].tailCnt + 1

\* daoShmGetNextSegment; DAO_NOTREADY changes nothing.
GetNextSuccess(c) ==
    /\ md.fifo_size # 0
    /\ ~NotReady(c) /\ InSequence(c)
    /\ Access(c, "open", "open", WithTail(c, Succ(image[c].tailIdx), image[c].tailCnt + 1))

GetNextOverwrite(c) ==
    /\ md.fifo_size # 0
    /\ ~NotReady(c) /\ ~InSequence(c)
    /\ Access(c, "open", "open", WithTail(c, head, cnt0(head)))

GetNext(c) == GetNextSuccess(c) \/ GetNextOverwrite(c)

OpenStep(c) ==
    \/ MapFile(c) \/ ReadType(c) \/ CheckSize(c) \/ ReadLayout(c)
    \/ OpenSemaphores(c) \/ ResetTail(c)

Next ==
    \/ Truncate \/ CreateStep \/ Publish \/ CloseOwner \/ Die
    \/ \E c \in Clients : OpenFile(c) \/ OpenStep(c) \/ GetNext(c) \/ Exit(c) \/ Close(c)

\* A creation and an opening that have begun go on, and a client that has opened
\* the memory keeps asking for the next frame.
Fairness ==
    /\ WF_vars(CreateStep)
    /\ \A c \in Clients : WF_vars(OpenStep(c)) /\ WF_vars(GetNext(c))

Spec == Init /\ [][Next]_vars

FairSpec == Spec /\ Fairness
-----------------------------------------------------------------------------
(***************************************************************************)
(* Properties.                                                             *)
(***************************************************************************)

\* A client that opened a memory whose creation had returned, and that was not
\* created anew under it, has all of it: pointers from a finished header, and a
\* semaphore in every place of an array of the right length, whatever earlier
\* creations had died and whatever semaphores they had left.
QuietOpenIsComplete ==
    \A c \in Clients :
        pc[c] = "open" /\ how[c] = "quiet" =>
            /\ image[c].array = 1 /\ image[c].kw = 1 /\ image[c].depth = N
            /\ image[c].room = NBsem
            /\ \A s \in Names : image[c].semptr[s] # NoSem <=> s \in Sems

\* A client that opens a memory while it is being created either ends or has the
\* right depth: fifo_size is stored before the sizes that a client checks before
\* it reads fifo_size.  The two accesses are not one, and the only way round the
\* check is an owner that creates the memory anew between them: the client then
\* reads the fifo_size of the new file, 0 until it is stored.
RacingOpenSeesDepth ==
    \A c \in Clients :
        pc[c] \in {"sems", "tail", "open"} =>
            \/ image[c].depth = N
            \/ image[c].depth = 0 /\ how[c] = "late"

\* What the owner posts is what its clients wait for, also after the owner has
\* died and created the memory again under clients that stayed.
OwnerReachesClients ==
    cpc = "live" =>
        \A c \in Clients, s \in Sems :
            pc[c] = "open" /\ image[c].semptr[s] # NoSem
                => image[c].semptr[s] = semptr[s]

\* A client that keeps calling daoShmGetNextSegment catches up with the owner
\* again and again, also when the counters have started from 0 under it.
ReaderCatchesUp ==
    \A c \in Clients :
        []<>(pc[c] = "open" /\ ready
                => image[c].tailIdx = head /\ image[c].tailCnt = frames)
=============================================================================
