--------------------------- MODULE ShmLifeProofs ---------------------------
(***************************************************************************)
(* ShmLife is right for any depth, any number of clients, of semaphores    *)
(* and of creations: what a client may rely on after it has opened a       *)
(* memory, whatever the owner did before, and that the semaphores an owner *)
(* posts are the ones its clients wait on.                                 *)
(***************************************************************************)
EXTENDS ShmLife, TLAPS

MdType == [fifo_size : Nat, atype : Nat, size : Nat, nelement : Nat, sem : Nat]

Handles == [Names -> Nat]

ImageType == [array : Nat, depth : Nat, kw : Nat, semptr : Handles, room : Nat,
              tailIdx : Int, tailCnt : Int]

\* What can have become of a client's last opening.
Openings == {"quiet", "racing", "torn", "late"}

\* The types.
LifeTypes ==
    /\ file \in {"absent", "empty", "full"}
    /\ md \in MdType /\ head \in Int /\ frames \in Int
    /\ semName \in Handles /\ born \in Nat
    /\ cpc \in {"none", "stretch", "map", "type", "size", "count", "sems", "open", "live"}
    /\ unopened \subseteq Sems /\ semptr \in Handles
    /\ pc \in [Clients -> Opening \cup {"closed", "open"}]
    /\ image \in [Clients -> ImageType]
    /\ how \in [Clients -> Openings]

\* How far a creation has come; the sizes are never there without the depth.
CreatorInv ==
    /\ cpc \in {"type", "size", "count", "sems", "open", "live"} => md.fifo_size = N
    /\ cpc \in {"size", "count", "sems", "open"} => md.atype = 1
    /\ cpc \in {"count", "sems", "open"} => md.size = 1
    /\ cpc \in {"sems", "open"} => md.nelement = 1
    /\ cpc = "open" => md.sem = NBsem /\ semName[NBsem] = NoSem
    /\ cpc \notin {"none", "stretch"} => file = "full"
    /\ md.size # 0 => md.fifo_size = N
    /\ md.fifo_size \in {0, N}

\* A named semaphore of a place in Sems, once made, is never replaced: every
\* process that has one there has the same one.
NamesInv ==
    /\ \A s \in Sems : semptr[s] # NoSem => semptr[s] = semName[s]
    /\ cpc = "open" => \A s \in Sems \ unopened : semptr[s] # NoSem
    /\ cpc = "live" => \A s \in Sems : semptr[s] # NoSem
    /\ \A c \in Clients, s \in Sems :
          image[c].semptr[s] # NoSem => image[c].semptr[s] = semName[s]

\* A memory whose creation has returned is complete until it is truncated.
ReadyInv ==
    ready =>
        /\ cpc \in {"none", "live"}
        /\ file = "full"
        /\ md = [fifo_size |-> N, atype |-> 1, size |-> 1, nelement |-> 1, sem |-> NBsem]
        /\ \A s \in Sems : semName[s] # NoSem
        /\ semName[NBsem] = NoSem

\* The depth that an opening has read.
DepthOK(depth, opening) == depth = N \/ (depth = 0 /\ opening = "late")

\* What a client has read so far.
ClientInv ==
    \A c \in Clients :
        /\ how[c] = "quiet" /\ pc[c] \in Opening => ready
        /\ how[c] = "quiet" /\ pc[c] \in {"size", "layout", "sems", "tail", "open"}
              => image[c].array = 1
        /\ how[c] = "quiet" /\ pc[c] \in {"sems", "tail", "open"} => image[c].kw = 1
        /\ how[c] = "quiet" /\ pc[c] \in {"tail", "open"} =>
              /\ image[c].room = NBsem
              /\ \A s \in Names : image[c].semptr[s] # NoSem <=> s \in Sems
        /\ how[c] # "late" /\ pc[c] = "layout" => md.fifo_size = N
        /\ pc[c] \in {"sems", "tail", "open"} => DepthOK(image[c].depth, how[c])

LifeInv == LifeTypes /\ CreatorInv /\ NamesInv /\ ReadyInv /\ ClientInv

\* What the invariant says of one client.
ClientOK(c) ==
    /\ image[c] \in ImageType
    /\ \A s \in Sems : image[c].semptr[s] # NoSem => image[c].semptr[s] = semName[s]
    /\ how[c] = "quiet" /\ pc[c] \in Opening => ready
    /\ how[c] = "quiet" /\ pc[c] \in {"size", "layout", "sems", "tail", "open"}
          => image[c].array = 1
    /\ how[c] = "quiet" /\ pc[c] \in {"sems", "tail", "open"} => image[c].kw = 1
    /\ how[c] = "quiet" /\ pc[c] \in {"tail", "open"} =>
          /\ image[c].room = NBsem
          /\ \A s \in Names : image[c].semptr[s] # NoSem <=> s \in Sems
    /\ how[c] # "late" /\ pc[c] = "layout" => md.fifo_size = N
    /\ pc[c] \in {"sems", "tail", "open"} => DepthOK(image[c].depth, how[c])

-----------------------------------------------------------------------------
\* The semaphores of a memory are names, and one more name is not.
LEMMA SemsLemma ==
    /\ Sems \subseteq Names
    /\ \A s \in Names : s \in Sems <=> s # NBsem
    /\ NBsem \in Names /\ NBsem \notin Sems
    /\ \A s \in Names : s \in StaleNames <=> s = NBsem
BY NBsemAssumption DEF Sems, Names, StaleNames

\* Before the first creation.
LEMMA InitLife == Init => LifeInv
<1> SUFFICES ASSUME Init
             PROVE  LifeInv
  OBVIOUS
<1>1. NoHandles \in Handles /\ semName \in Handles /\ \A s \in Names : NoHandles[s] = NoSem
  BY DEF Init, NoHandles, Handles, NoSem
<1>2. NoImage \in ImageType /\ NoImage.semptr = NoHandles
  BY <1>1 DEF NoImage, ImageType
<1>3. Zeroed \in MdType /\ Zeroed.size = 0 /\ Zeroed.fifo_size = 0
  BY DEF Zeroed, MdType
<1>4. LifeTypes
  <2>1. /\ file \in {"absent", "empty", "full"} /\ head \in Int /\ frames \in Int
        /\ born \in Nat /\ unopened \subseteq Sems
        /\ cpc \in {"none", "stretch", "map", "type", "size", "count", "sems", "open", "live"}
    BY DEF Init
  <2>2. /\ pc \in [Clients -> Opening \cup {"closed", "open"}]
        /\ how \in [Clients -> Openings]
    BY DEF Init, Openings
  <2>3. md \in MdType /\ semptr \in Handles /\ image \in [Clients -> ImageType]
    BY <1>1, <1>2, <1>3 DEF Init
  <2>4. QED
    BY <1>1, <2>1, <2>2, <2>3 DEF LifeTypes
<1>5. CreatorInv /\ ReadyInv
  BY <1>3 DEF Init, CreatorInv, ReadyInv
<1>6. NamesInv
  BY <1>1, <1>2, SemsLemma DEF Init, NamesInv
<1>7. ClientInv
  BY DEF Init, ClientInv, Opening
<1>8. QED
  BY <1>4, <1>5, <1>6, <1>7 DEF LifeInv

\* Truncation takes everything back but the semaphores, and marks those who are
\* in the middle of opening.
LEMMA TruncateKeeps == LifeInv /\ Truncate => LifeInv'
<1> SUFFICES ASSUME LifeInv, Truncate
             PROVE  LifeInv'
  OBVIOUS
<1>1. Zeroed \in MdType /\ Zeroed.size = 0 /\ Zeroed.fifo_size = 0
  BY DEF Zeroed, MdType
<1>2. /\ cpc = "none" /\ cpc' = "stretch" /\ file' = "empty"
      /\ md' = Zeroed /\ head' = 0 /\ frames' = 0 /\ ready' = FALSE
      /\ how' = [c \in Clients |-> Truncated(c)]
      /\ UNCHANGED <<semName, born, unopened, semptr, pc, image>>
  BY DEF Truncate, Step, names
<1>3. LifeTypes'
  <2>1. \A c \in Clients : Truncated(c) \in Openings
    BY DEF LifeInv, LifeTypes, Truncated, Openings
  <2>2. QED
    BY <1>1, <1>2, <2>1 DEF LifeInv, LifeTypes
<1>4. CreatorInv' /\ ReadyInv' /\ NamesInv'
  BY <1>1, <1>2 DEF LifeInv, CreatorInv, ReadyInv, NamesInv
<1>5. ClientInv'
  <2> SUFFICES ASSUME NEW c \in Clients
               PROVE  ClientOK(c)'
    BY DEF ClientInv, ClientOK
  <2>1. /\ how'[c] = Truncated(c) /\ pc' = pc /\ image' = image /\ semName' = semName
        /\ ClientOK(c)
    BY <1>2 DEF LifeInv, LifeTypes, NamesInv, ClientInv, ClientOK
  <2>2. CASE pc[c] \in Opening
    <3>1. how'[c] # "quiet" /\ (pc[c] = "layout" \/ how[c] = "late" => how'[c] = "late")
      BY <2>1, <2>2 DEF Truncated, Opening
    <3>2. QED
      BY <2>1, <2>2, <3>1 DEF ClientOK, DepthOK, Opening
  <2>3. CASE pc[c] \notin Opening
    <3>1. how'[c] = how[c]
      BY <2>1, <2>3 DEF Truncated, Opening
    <3>2. QED
      BY <2>1, <2>3, <3>1 DEF ClientOK, Opening
  <2>4. QED
    BY <2>2, <2>3
<1>6. QED
  BY <1>3, <1>4, <1>5 DEF LifeInv

\* The steps of a creation that only touch the file's size and the header: the
\* memory is not ready, so nobody counts on what they change.
LEMMA HeaderKeeps == LifeInv /\ (Stretch \/ Map \/ StoreType \/ StoreSize \/ StoreCounters) => LifeInv'
<1> SUFFICES ASSUME LifeInv, Stretch \/ Map \/ StoreType \/ StoreSize \/ StoreCounters
             PROVE  LifeInv'
  OBVIOUS
<1>1. /\ UNCHANGED <<head, frames, ready, semName, born, unopened, semptr, pc, image, how>>
      /\ cpc \in {"stretch", "map", "type", "size", "count"}
      /\ cpc' \in {"map", "type", "size", "count", "sems"}
  BY DEF Stretch, Map, StoreType, StoreSize, StoreCounters, Header, Step, names, client
<1>2. md \in MdType /\ N \in Nat /\ N > 0
  BY NAssumption DEF LifeInv, LifeTypes
<1>3. CreatorInv' /\ md' \in MdType /\ file' = "full"
  <2>1. CASE Stretch
    BY <1>2, <2>1 DEF Stretch, Step, LifeInv, CreatorInv
  <2>2. CASE Map
    <3>1. /\ md' = [md EXCEPT !.fifo_size = N, !.sem = 0]
          /\ cpc = "map" /\ cpc' = "type" /\ file' = file
      BY <2>2 DEF Map, Header, Step
    <3>2. md' \in MdType /\ md'.fifo_size = N
      BY <1>2, <3>1 DEF MdType
    <3>3. QED
      BY <3>1, <3>2 DEF LifeInv, CreatorInv
  <2>3. CASE StoreType
    <3>1. /\ md' = [md EXCEPT !.atype = 1]
          /\ cpc = "type" /\ cpc' = "size" /\ file' = file
      BY <2>3 DEF StoreType, Header, Step
    <3>2. md' \in MdType /\ md'.fifo_size = md.fifo_size /\ md'.atype = 1
      BY <1>2, <3>1 DEF MdType
    <3>3. QED
      BY <3>1, <3>2 DEF LifeInv, CreatorInv
  <2>4. CASE StoreSize
    <3>1. /\ md' = [md EXCEPT !.size = 1]
          /\ cpc = "size" /\ cpc' = "count" /\ file' = file
      BY <2>4 DEF StoreSize, Header, Step
    <3>2. md' \in MdType /\ md'.fifo_size = md.fifo_size /\ md'.atype = md.atype /\ md'.size = 1
      BY <1>2, <3>1 DEF MdType
    <3>3. QED
      BY <3>1, <3>2 DEF LifeInv, CreatorInv
  <2>5. CASE StoreCounters
    <3>1. /\ md' = [md EXCEPT !.nelement = 1]
          /\ cpc = "count" /\ cpc' = "sems" /\ file' = file
      BY <2>5 DEF StoreCounters, Header, Step
    <3>2. /\ md' \in MdType /\ md'.nelement = 1
          /\ md'.fifo_size = md.fifo_size /\ md'.atype = md.atype /\ md'.size = md.size
      BY <1>2, <3>1 DEF MdType
    <3>3. QED
      BY <3>1, <3>2 DEF LifeInv, CreatorInv
  <2>6. QED
    BY <2>1, <2>2, <2>3, <2>4, <2>5
<1>4. LifeTypes'
  BY <1>1, <1>3 DEF LifeInv, LifeTypes
<1>5. ~ready /\ ReadyInv'
  BY <1>1 DEF LifeInv, ReadyInv
<1>6. NamesInv'
  BY <1>1 DEF LifeInv, NamesInv
<1>7. ClientInv'
  <2>1. md.fifo_size = N => md'.fifo_size = N
    BY <1>2 DEF Stretch, Map, StoreType, StoreSize, StoreCounters, Header, MdType
  <2>2. QED
    BY <1>1, <1>5, <2>1 DEF LifeInv, ClientInv
<1>8. QED
  BY <1>3, <1>4, <1>5, <1>6, <1>7 DEF LifeInv

\* The step that removes stale names leaves the memory's own alone.
LEMMA CreateSemKeeps == LifeInv /\ CreateSem => LifeInv'
<1> SUFFICES ASSUME LifeInv, CreateSem
             PROVE  LifeInv'
  OBVIOUS
<1>1. /\ cpc = "sems" /\ cpc' = "open" /\ md' = [md EXCEPT !.sem = NBsem]
      /\ semName' = [s \in Names |-> IF s \in StaleNames THEN NoSem ELSE semName[s]]
      /\ unopened' = Sems /\ semptr' = NoHandles
      /\ UNCHANGED <<file, head, frames, ready, born, pc, image, how>>
  BY DEF CreateSem, Step, client
<1>2. /\ md \in MdType /\ semName \in Handles /\ NBsem \in Nat
      /\ NoHandles \in Handles /\ \A s \in Names : NoHandles[s] = NoSem
  BY NBsemAssumption DEF LifeInv, LifeTypes, NoHandles, Handles, NoSem
<1>3. /\ md' \in MdType /\ md'.sem = NBsem /\ md'.fifo_size = md.fifo_size
      /\ md'.atype = md.atype /\ md'.size = md.size /\ md'.nelement = md.nelement
  BY <1>1, <1>2 DEF MdType
<1>4. /\ semName' \in Handles
      /\ \A s \in Sems : s \in Names /\ semName'[s] = semName[s]
      /\ semName'[NBsem] = NoSem
  BY <1>1, <1>2, SemsLemma DEF Handles, NoSem
<1>5. LifeTypes'
  BY <1>1, <1>2, <1>3, <1>4 DEF LifeInv, LifeTypes
<1>6. CreatorInv'
  BY <1>1, <1>3, <1>4 DEF LifeInv, CreatorInv
<1>7. ~ready /\ ReadyInv'
  BY <1>1 DEF LifeInv, ReadyInv
<1>8. NamesInv'
  BY <1>1, <1>2, <1>4 DEF LifeInv, NamesInv
<1>9. ClientInv'
  BY <1>1, <1>3, <1>7 DEF LifeInv, ClientInv
<1>10. QED
  BY <1>5, <1>6, <1>7, <1>8, <1>9 DEF LifeInv

\* A semaphore is opened, or made if there is none of that name.
LEMMA OpenSemKeeps ==
    ASSUME LifeInv, NEW s \in Sems, OpenSem(s)
    PROVE  LifeInv'
<1>1. /\ cpc = "open" /\ s \in unopened /\ unopened' = unopened \ {s}
      /\ semName' = IF semName[s] = NoSem THEN [semName EXCEPT ![s] = born + 1] ELSE semName
      /\ born' = IF semName[s] = NoSem THEN born + 1 ELSE born
      /\ semptr' = [semptr EXCEPT ![s] = semName'[s]]
      /\ UNCHANGED <<file, md, head, frames, ready, cpc, pc, image, how>>
  BY DEF OpenSem, memory, client
<1>2. /\ semName \in Handles /\ semptr \in Handles /\ born \in Nat
      /\ s \in Names /\ unopened \subseteq Sems /\ s # NBsem /\ NBsem \in Names
  BY SemsLemma DEF LifeInv, LifeTypes
<1>3. /\ semName' \in Handles /\ semptr' \in Handles /\ born' \in Nat
      /\ semName'[s] # NoSem /\ semptr'[s] = semName'[s]
      /\ semName[s] # NoSem => semName'[s] = semName[s]
      /\ \A t \in Names : t # s => semName'[t] = semName[t] /\ semptr'[t] = semptr[t]
  BY <1>1, <1>2 DEF Handles, NoSem
<1>4. LifeTypes'
  BY <1>1, <1>2, <1>3 DEF LifeInv, LifeTypes
<1>5. CreatorInv'
  BY <1>1, <1>2, <1>3 DEF LifeInv, CreatorInv
<1>6. ~ready /\ ReadyInv'
  BY <1>1 DEF LifeInv, ReadyInv
<1>7. NamesInv'
  <2>1. ASSUME NEW t \in Sems
        PROVE  /\ semptr'[t] # NoSem => semptr'[t] = semName'[t]
               /\ t \notin unopened' => semptr'[t] # NoSem
               /\ \A c \in Clients : image[c].semptr[t] # NoSem
                                        => image[c].semptr[t] = semName'[t]
    <3>1. t \in Names
      BY SemsLemma
    <3>2. CASE t = s
      BY <1>3, <3>2 DEF LifeInv, NamesInv
    <3>3. CASE t # s
      BY <1>1, <1>3, <3>1, <3>3 DEF LifeInv, NamesInv
    <3>4. QED
      BY <3>2, <3>3
  <2>2. QED
    BY <1>1, <2>1 DEF NamesInv
<1>8. ClientInv'
  BY <1>1, <1>6 DEF LifeInv, ClientInv
<1>9. QED
  BY <1>4, <1>5, <1>6, <1>7, <1>8 DEF LifeInv

\* A creation returns, with everything in place.
LEMMA SetHeadKeeps == LifeInv /\ SetHead => LifeInv'
<1> SUFFICES ASSUME LifeInv, SetHead
             PROVE  LifeInv'
  OBVIOUS
<1>1. /\ cpc = "open" /\ cpc' = "live" /\ unopened = {}
      /\ md' = [md EXCEPT !.fifo_size = N] /\ head' = N - 1 /\ ready' = TRUE
      /\ UNCHANGED <<file, frames, semName, born, unopened, semptr, pc, image, how>>
  BY DEF SetHead, Step, names, client
<1>2. md \in MdType /\ N \in Nat
  BY NAssumption DEF LifeInv, LifeTypes
<1>3. /\ md.fifo_size = N /\ md.atype = 1 /\ md.size = 1 /\ md.nelement = 1 /\ md.sem = NBsem
      /\ file = "full" /\ semName[NBsem] = NoSem
  BY <1>1 DEF LifeInv, CreatorInv
<1>4. md' = md
  BY <1>1, <1>2, <1>3 DEF MdType
<1>5. md = [fifo_size |-> N, atype |-> 1, size |-> 1, nelement |-> 1, sem |-> NBsem]
  BY <1>2, <1>3 DEF MdType
<1>6. \A s \in Sems : semptr[s] # NoSem /\ semName[s] # NoSem
  BY <1>1 DEF LifeInv, NamesInv
<1>7. LifeTypes'
  BY <1>1, <1>2, <1>4 DEF LifeInv, LifeTypes
<1>8. CreatorInv' /\ ReadyInv'
  BY <1>1, <1>3, <1>4, <1>5, <1>6 DEF CreatorInv, ReadyInv
<1>9. NamesInv'
  BY <1>1, <1>6 DEF LifeInv, NamesInv
<1>10. ClientInv'
  BY <1>1, <1>4 DEF LifeInv, ClientInv
<1>11. QED
  BY <1>7, <1>8, <1>9, <1>10 DEF LifeInv

\* The owner publishes, closes the memory or dies: what it leaves stays usable.
LEMMA OwnerKeeps == LifeInv /\ (Publish \/ CloseOwner \/ Die) => LifeInv'
<1> SUFFICES ASSUME LifeInv, Publish \/ CloseOwner \/ Die
             PROVE  LifeInv'
  OBVIOUS
<1>1. /\ UNCHANGED <<file, md, ready, semName, born, pc, image, how>>
      /\ NoHandles \in Handles /\ \A s \in Names : NoHandles[s] = NoSem
  BY DEF Publish, CloseOwner, Die, memory, names, creator, client, NoHandles, Handles, NoSem
<1>2. CASE Publish
  <2>1. /\ UNCHANGED <<cpc, unopened, semptr>>
        /\ head' = (head + 1) % N /\ frames' = frames + 1
    BY <1>2 DEF Publish, creator
  <2>2. head \in Int /\ frames \in Int /\ N \in Nat /\ N > 0
    BY NAssumption DEF LifeInv, LifeTypes
  <2>3. head' \in Int /\ frames' \in Int
    BY <2>1, <2>2
  <2>4. QED
    BY <1>1, <2>1, <2>3
       DEF LifeInv, LifeTypes, CreatorInv, NamesInv, ReadyInv, ClientInv
<1>3. CASE CloseOwner \/ Die
  <2>1. /\ cpc' = "none" /\ semptr' = NoHandles /\ UNCHANGED <<head, frames>>
        /\ unopened' \subseteq unopened
    BY <1>3 DEF CloseOwner, Die, Step, memory
  <2>2. \A s \in Sems : semptr'[s] = NoSem
    BY <1>1, <2>1, SemsLemma
  <2>3. QED
    BY <1>1, <2>1, <2>2
       DEF LifeInv, LifeTypes, CreatorInv, NamesInv, ReadyInv, ClientInv
<1>4. QED
  BY <1>2, <1>3

\* A step of one client keeps the invariant if it does so for that client: the
\* rest only speaks of other clients and of the memory, which c does not change.
LEMMA OneClient ==
    ASSUME LifeInv, NEW c \in Clients, UNCHANGED <<memory, names, creator>>,
           NEW to \in Opening \cup {"closed", "open"}, pc' = [pc EXCEPT ![c] = to],
           NEW i, image' = [image EXCEPT ![c] = i],
           NEW h \in Openings, how' = [how EXCEPT ![c] = h],
           ClientOK(c)'
    PROVE  LifeInv'
<1>1. UNCHANGED <<file, md, head, frames, ready, semName, born, cpc, unopened, semptr>>
  BY DEF memory, names, creator
<1>2. /\ pc'[c] = to /\ image'[c] = i /\ how'[c] = h
      /\ \A d \in Clients \ {c} : pc'[d] = pc[d] /\ image'[d] = image[d] /\ how'[d] = how[d]
      /\ pc' \in [Clients -> Opening \cup {"closed", "open"}]
      /\ how' \in [Clients -> Openings]
  BY DEF LifeInv, LifeTypes
<1>3. image' \in [Clients -> ImageType]
  <2>1. i \in ImageType
    BY <1>2 DEF ClientOK
  <2>2. QED
    BY <2>1 DEF LifeInv, LifeTypes
<1>4. LifeTypes'
  BY <1>1, <1>2, <1>3 DEF LifeInv, LifeTypes
<1>5. CreatorInv' /\ ReadyInv'
  BY <1>1 DEF LifeInv, CreatorInv, ReadyInv
<1>6. NamesInv'
  <2>1. ASSUME NEW d \in Clients, NEW s \in Sems, image'[d].semptr[s] # NoSem
        PROVE  image'[d].semptr[s] = semName'[s]
    <3>1. CASE d = c
      BY <2>1, <3>1 DEF ClientOK
    <3>2. CASE d # c
      BY <1>1, <1>2, <2>1, <3>2 DEF LifeInv, NamesInv
    <3>3. QED
      BY <3>1, <3>2
  <2>2. QED
    BY <1>1, <2>1 DEF LifeInv, NamesInv
<1>7. ClientInv'
  <2> SUFFICES ASSUME NEW d \in Clients
               PROVE  /\ (how[d] = "quiet" /\ pc[d] \in Opening => ready)'
                      /\ (how[d] = "quiet" /\ pc[d] \in {"size", "layout", "sems", "tail", "open"}
                            => image[d].array = 1)'
                      /\ (how[d] = "quiet" /\ pc[d] \in {"sems", "tail", "open"} => image[d].kw = 1)'
                      /\ (how[d] = "quiet" /\ pc[d] \in {"tail", "open"} =>
                            /\ image[d].room = NBsem
                            /\ \A s \in Names : image[d].semptr[s] # NoSem <=> s \in Sems)'
                      /\ (how[d] # "late" /\ pc[d] = "layout" => md.fifo_size = N)'
                      /\ (pc[d] \in {"sems", "tail", "open"} => DepthOK(image[d].depth, how[d]))'
    BY DEF ClientInv
  <2>1. CASE d = c
    BY <2>1 DEF ClientOK
  <2>2. CASE d # c
    BY <1>1, <1>2, <2>2 DEF LifeInv, ClientInv
  <2>3. QED
    BY <2>1, <2>2
<1>8. QED
  BY <1>4, <1>5, <1>6, <1>7 DEF LifeInv

\* A struct of which nothing is known.
LEMMA NoImageLemma ==
    NoImage \in ImageType /\ \A s \in Names : NoImage.semptr[s] = NoSem
BY DEF NoImage, NoHandles, ImageType, Handles, NoSem

\* A client that starts to open the memory, closes it, or ends.
LEMMA EndsKeep ==
    ASSUME LifeInv, NEW c \in Clients, OpenFile(c) \/ Close(c) \/ Exit(c)
    PROVE  LifeInv'
<1>1. /\ UNCHANGED <<memory, names, creator>> /\ image' = [image EXCEPT ![c] = NoImage]
      /\ image'[c] = NoImage
  BY DEF OpenFile, Close, Exit, ClientFrame, LifeInv, LifeTypes
<1>2. NoImage \in ImageType /\ \A s \in Sems : image'[c].semptr[s] = NoSem
  BY <1>1, NoImageLemma, SemsLemma
<1>3. CASE OpenFile(c)
  <2>1. PICK h \in Openings : how' = [how EXCEPT ![c] = h] /\ (h = "quiet" => ready)
    BY <1>3 DEF OpenFile, Openings
  <2>2. pc' = [pc EXCEPT ![c] = "map"] /\ ready' = ready /\ "map" \in Opening
    BY <1>1, <1>3 DEF OpenFile, memory, Opening
  <2>3. pc'[c] = "map" /\ how'[c] = h
    BY <2>1, <2>2 DEF LifeInv, LifeTypes
  <2>4. ClientOK(c)'
    BY <1>1, <1>2, <2>1, <2>2, <2>3 DEF ClientOK
  <2>5. QED
    BY <1>1, <2>1, <2>2, <2>4, OneClient
<1>4. CASE Close(c) \/ Exit(c)
  <2>1. pc' = [pc EXCEPT ![c] = "closed"] /\ how' = how
    BY <1>4 DEF Close, Exit
  <2>2. how' = [how EXCEPT ![c] = how[c]] /\ how[c] \in Openings
        /\ pc'[c] = "closed"
    BY <2>1 DEF LifeInv, LifeTypes
  <2>3. ClientOK(c)'
    BY <1>1, <1>2, <2>2 DEF ClientOK, Opening
  <2>4. QED
    BY <1>1, <2>1, <2>2, <2>3, OneClient
<1>5. QED
  BY <1>3, <1>4

\* An access that moves the client to another place and fills its struct.
LEMMA AccessKeeps ==
    ASSUME LifeInv, NEW c \in Clients, NEW from,
           NEW to \in Opening \cup {"closed", "open"}, NEW i, Access(c, from, to, i),
           i \in ImageType,
           \A s \in Sems : i.semptr[s] # NoSem => i.semptr[s] = semName[s],
           how[c] = "quiet" =>
              /\ to \in Opening => ready
              /\ to \in {"size", "layout", "sems", "tail", "open"} => i.array = 1
              /\ to \in {"sems", "tail", "open"} => i.kw = 1
              /\ to \in {"tail", "open"} =>
                    i.room = NBsem /\ \A s \in Names : i.semptr[s] # NoSem <=> s \in Sems,
           how[c] # "late" /\ to = "layout" => md.fifo_size = N,
           to \in {"sems", "tail", "open"} => DepthOK(i.depth, how[c])
    PROVE  LifeInv'
<1>1. /\ UNCHANGED <<memory, names, creator, how>>
      /\ pc' = [pc EXCEPT ![c] = to] /\ image' = [image EXCEPT ![c] = i]
  BY DEF Access, ClientFrame
<1>2. /\ pc'[c] = to /\ image'[c] = i /\ how[c] \in Openings
      /\ how' = [how EXCEPT ![c] = how[c]] /\ how'[c] = how[c]
      /\ ready' = ready /\ md' = md /\ semName' = semName
  BY <1>1 DEF LifeInv, LifeTypes, memory, names
<1>3. ClientOK(c)'
  BY <1>2 DEF ClientOK
<1>4. QED
  BY <1>1, <1>2, <1>3, OneClient

\* The names a client detects are the memory's own if the memory is complete.
LEMMA DetectedLemma ==
    ASSUME LifeInv
    PROVE  /\ \A s \in Detected : s \in Names /\ semName[s] # NoSem
           /\ ready => Detected = Sems
<1>1. \A s \in Detected : s \in Names /\ semName[s] # NoSem
  BY DEF Detected, Names
<1>2. ASSUME ready
      PROVE  Detected = Sems
  <2>1. (\A s \in Sems : semName[s] # NoSem) /\ semName[NBsem] = NoSem
    BY <1>2 DEF LifeInv, ReadyInv
  <2>2. ASSUME NEW s \in Sems
        PROVE  s \in Detected
    <3>1. s \in Names /\ \A t \in 0 .. s : t \in Sems
      BY NBsemAssumption DEF Sems, Names
    <3>2. QED
      BY <2>1, <3>1 DEF Detected
  <2>3. ASSUME NEW s \in Detected
        PROVE  s \in Sems
    BY <1>1, <2>1, SemsLemma
  <2>4. QED
    BY <2>2, <2>3
<1>3. QED
  BY <1>1, <1>2

\* The steps of an opening.
LEMMA OpenStepKeeps ==
    ASSUME LifeInv, NEW c \in Clients, OpenStep(c)
    PROVE  LifeInv'
<1>1. /\ image[c] \in ImageType /\ how[c] \in Openings
      /\ md \in MdType /\ semName \in Handles /\ head \in Int /\ frames \in Int /\ N \in Nat
  BY NAssumption DEF LifeInv, LifeTypes
<1>2. \A s \in Sems : image[c].semptr[s] # NoSem => image[c].semptr[s] = semName[s]
  BY DEF LifeInv, NamesInv
<1>3. /\ how[c] = "quiet" /\ pc[c] \in Opening => ready
      /\ how[c] = "quiet" /\ pc[c] \in {"size", "layout", "sems", "tail", "open"}
            => image[c].array = 1
      /\ how[c] = "quiet" /\ pc[c] \in {"sems", "tail", "open"} => image[c].kw = 1
      /\ how[c] = "quiet" /\ pc[c] \in {"tail", "open"} =>
            /\ image[c].room = NBsem
            /\ \A s \in Names : image[c].semptr[s] # NoSem <=> s \in Sems
      /\ how[c] # "late" /\ pc[c] = "layout" => md.fifo_size = N
      /\ pc[c] \in {"sems", "tail", "open"} => DepthOK(image[c].depth, how[c])
  BY DEF LifeInv, ClientInv
<1>4. ready => md.fifo_size = N /\ md.atype = 1 /\ md.nelement = 1 /\ md.sem = NBsem
  BY DEF LifeInv, ReadyInv
<1>5. CASE MapFile(c)
  <2>1. pc[c] = "map" /\ Access(c, "map", "type", image[c])
    BY <1>5 DEF MapFile, Access
  <2>2. QED
    BY <1>1, <1>2, <1>3, <2>1, AccessKeeps DEF Opening
<1>6. CASE ReadType(c)
  <2> DEFINE i == [image[c] EXCEPT !.array = md.atype]
  <2>1. i \in ImageType /\ i.semptr = image[c].semptr /\ i.array = md.atype
    BY <1>1 DEF ImageType, MdType
  <2>2. pc[c] = "type" /\ Access(c, "type", "size", i)
    BY <1>6 DEF ReadType, Access
  <2> HIDE DEF i
  <2>3. QED
    BY <1>1, <1>2, <1>3, <1>4, <2>1, <2>2, AccessKeeps DEF Opening
<1>7. CASE CheckSize(c)
  <2>1. pc[c] = "size" /\ Access(c, "size", "layout", image[c]) /\ md.size # 0
    BY <1>7 DEF CheckSize, Access
  <2>2. md.fifo_size = N
    BY <2>1 DEF LifeInv, CreatorInv
  <2>3. QED
    BY <1>1, <1>2, <1>3, <2>1, <2>2, AccessKeeps DEF Opening
<1>8. CASE ReadLayout(c)
  <2> DEFINE i == [image[c] EXCEPT !.depth = md.fifo_size, !.kw = md.nelement]
  <2>1. /\ i \in ImageType /\ i.semptr = image[c].semptr /\ i.array = image[c].array
        /\ i.depth = md.fifo_size /\ i.kw = md.nelement
    BY <1>1 DEF ImageType, MdType
  <2>2. pc[c] = "layout" /\ Access(c, "layout", "sems", i)
    BY <1>8 DEF ReadLayout, Access
  <2> HIDE DEF i
  <2>3. DepthOK(i.depth, how[c])
    BY <1>3, <2>1, <2>2 DEF LifeInv, CreatorInv, DepthOK
  <2>4. QED
    BY <1>1, <1>2, <1>3, <1>4, <2>1, <2>2, <2>3, AccessKeeps DEF Opening
<1>9. CASE OpenSemaphores(c)
  <2> DEFINE ptrs == [s \in Names |-> IF s \in Detected THEN semName[s] ELSE NoSem]
             i == [image[c] EXCEPT !.room = md.sem, !.semptr = ptrs]
  <2>1. ptrs \in Handles /\ \A s \in Names : ptrs[s] # NoSem <=> s \in Detected
    BY <1>1, DetectedLemma DEF Handles, NoSem
  <2>2. \A s \in Names : ptrs[s] # NoSem => ptrs[s] = semName[s]
    OBVIOUS
  <2> HIDE DEF ptrs
  <2>3. /\ i \in ImageType /\ i.semptr = ptrs /\ i.array = image[c].array
        /\ i.kw = image[c].kw /\ i.depth = image[c].depth /\ i.room = md.sem
    BY <1>1, <2>1 DEF ImageType, MdType
  <2>4. pc[c] = "sems" /\ Access(c, "sems", "tail", i)
    BY <1>9 DEF OpenSemaphores, Access, ptrs
  <2> HIDE DEF i
  <2>5. \A s \in Sems : i.semptr[s] # NoSem => i.semptr[s] = semName[s]
    BY <2>2, <2>3, SemsLemma
  <2>6. ready => \A s \in Names : i.semptr[s] # NoSem <=> s \in Sems
    BY <2>1, <2>3, DetectedLemma
  <2>7. QED
    BY <1>1, <1>3, <1>4, <2>3, <2>4, <2>5, <2>6, AccessKeeps DEF Opening
<1>10. CASE ResetTail(c)
  <2> DEFINE i == WithTail(c, head, cnt0(head))
  <2>1. cnt0(head) \in Int
    BY <1>1 DEF cnt0, Behind
  <2>2. /\ i \in ImageType /\ i.semptr = image[c].semptr /\ i.array = image[c].array
        /\ i.kw = image[c].kw /\ i.depth = image[c].depth /\ i.room = image[c].room
    BY <1>1, <2>1 DEF WithTail, ImageType
  <2>3. pc[c] = "tail" /\ Access(c, "tail", "open", i)
    BY <1>10 DEF ResetTail, Access
  <2> HIDE DEF i
  <2>4. QED
    BY <1>1, <1>2, <1>3, <2>2, <2>3, AccessKeeps DEF Opening
<1>11. QED
  BY <1>5, <1>6, <1>7, <1>8, <1>9, <1>10 DEF OpenStep

\* daoShmGetNextSegment only moves the tail.
LEMMA GetNextKeeps ==
    ASSUME LifeInv, NEW c \in Clients, GetNext(c)
    PROVE  LifeInv'
<1>1. /\ image[c] \in ImageType /\ how[c] \in Openings
      /\ md \in MdType /\ md.fifo_size \in Nat /\ head \in Int /\ frames \in Int /\ N \in Nat
      /\ image[c].tailIdx \in Int /\ image[c].tailCnt \in Int
  BY NAssumption DEF LifeInv, LifeTypes, ImageType, MdType
<1>2. PICK j \in Int, n \in Int : Access(c, "open", "open", WithTail(c, j, n))
  <2>1. CASE GetNextSuccess(c)
    <3>1. image[c].tailIdx + 1 \in Int /\ md.fifo_size \in Nat \ {0}
      BY <1>1, <2>1 DEF GetNextSuccess
    <3>2. Succ(image[c].tailIdx) \in Int /\ image[c].tailCnt + 1 \in Int
      BY <1>1, <3>1 DEF Succ
    <3>3. QED
      BY <2>1, <3>2 DEF GetNextSuccess
  <2>2. CASE GetNextOverwrite(c)
    <3>1. cnt0(head) \in Int
      BY <1>1 DEF cnt0, Behind
    <3>2. QED
      BY <1>1, <2>2, <3>1 DEF GetNextOverwrite
  <2>3. QED
    BY <2>1, <2>2 DEF GetNext
<1> DEFINE i == WithTail(c, j, n)
<1>3. /\ i \in ImageType /\ i.semptr = image[c].semptr /\ i.array = image[c].array
      /\ i.kw = image[c].kw /\ i.depth = image[c].depth /\ i.room = image[c].room
  BY <1>1 DEF WithTail, ImageType
<1>4. pc[c] = "open" /\ Access(c, "open", "open", i)
  BY <1>2 DEF Access
<1> HIDE DEF i
<1>5. \A s \in Sems : image[c].semptr[s] # NoSem => image[c].semptr[s] = semName[s]
  BY DEF LifeInv, NamesInv
<1>6. /\ how[c] = "quiet" =>
            /\ image[c].array = 1 /\ image[c].kw = 1 /\ image[c].room = NBsem
            /\ \A s \in Names : image[c].semptr[s] # NoSem <=> s \in Sems
      /\ DepthOK(image[c].depth, how[c])
  BY <1>4 DEF LifeInv, ClientInv
<1>7. QED
  BY <1>3, <1>4, <1>5, <1>6, AccessKeeps DEF Opening

\* Every step keeps the invariant.
LEMMA NextLife == LifeInv /\ [Next]_vars => LifeInv'
<1> SUFFICES ASSUME LifeInv, [Next]_vars
             PROVE  LifeInv'
  OBVIOUS
<1>1. CASE UNCHANGED vars
  BY <1>1 DEF vars, memory, names, creator, client, LifeInv, LifeTypes, CreatorInv,
     NamesInv, ReadyInv, ClientInv
<1>2. CASE CreateStep
  BY <1>2, HeaderKeeps, CreateSemKeeps, OpenSemKeeps, SetHeadKeeps DEF CreateStep
<1>3. QED
  BY <1>1, <1>2, TruncateKeeps, OwnerKeeps, EndsKeep, OpenStepKeeps, GetNextKeeps DEF Next

\* The inductive invariant holds in every reachable state.
THEOREM LifeCorrect == Spec => []LifeInv
<1>1. QED
  BY InitLife, NextLife, PTL DEF Spec

\* A client that opened a finished memory has all of it, for any number of
\* semaphores and whatever was left by creations that died.
THEOREM QuietOpens == Spec => []QuietOpenIsComplete
<1>1. LifeInv => QuietOpenIsComplete
  BY DEF LifeInv, ClientInv, DepthOK, QuietOpenIsComplete
<1>2. QED
  BY <1>1, LifeCorrect, PTL

\* A client that opens a memory while it is created has the right depth, unless
\* the owner creates it anew after the client's check of the sizes and before
\* its read of fifo_size: then the depth may be 0.
THEOREM RacingOpens == Spec => []RacingOpenSeesDepth
<1>1. LifeInv => RacingOpenSeesDepth
  BY DEF LifeInv, ClientInv, DepthOK, RacingOpenSeesDepth
<1>2. QED
  BY <1>1, LifeCorrect, PTL

\* Owner and clients hold the same semaphores, across the owner's deaths.
THEOREM OwnersReach == Spec => []OwnerReachesClients
<1>1. LifeInv => OwnerReachesClients
  BY DEF LifeInv, NamesInv, OwnerReachesClients
<1>2. QED
  BY <1>1, LifeCorrect, PTL
=============================================================================
