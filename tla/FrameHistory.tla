---------------------------- MODULE FrameHistory ----------------------------
(***************************************************************************)
(* What a FIFO shared memory of depth Depth promises to its readers, with  *)
(* slots, flags and indices abstracted away: frames are published one at a *)
(* time and numbered 1, 2, 3, ...; the frames that can be read back whole  *)
(* are the last Depth ones, except that the oldest of them may be given up *)
(* before its successor a lap later is published.                          *)
(***************************************************************************)
EXTENDS Integers

CONSTANT Depth          \* fifo_size, at least 1

VARIABLES newest,       \* number of the newest published frame, 0 if none
          retained      \* the numbers of the frames that are readable whole

vars == <<newest, retained>>

\* The frame whose storage the next frame will take over.
Oldest == newest + 1 - Depth

Init == newest = 0 /\ retained = {}

\* The storage of the oldest frame is reused: its contents are gone.
Recycle ==
    /\ Oldest \in retained
    /\ retained' = retained \ {Oldest}
    /\ UNCHANGED newest

\* The next frame becomes visible, whole, and its storage is not shared.
Publish ==
    /\ Oldest \notin retained
    /\ newest' = newest + 1
    /\ retained' = retained \cup {newest + 1}

Next == Recycle \/ Publish

Spec == Init /\ [][Next]_vars
=============================================================================
