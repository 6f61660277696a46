------------------------------- MODULE Logger -------------------------------
(***************************************************************************)
(* The logger of include/daoLog.hpp with its queue,                        *)
(* include/daoThreadSafeQueue.hpp: any number of threads log, one thread   *)
(* takes the messages from the queue and writes them to the destination,   *)
(* and the owner destroys the logger, possibly while others still log.     *)
(*                                                                         *)
(* Every operation of the queue holds its lock, so it is one action; the   *)
(* size() that the log thread looks at and the pop() that follows are two. *)
(***************************************************************************)
EXTENDS Integers, Sequences, FiniteSets

CONSTANTS Producers,     \* the threads that log
          Levels,        \* the severities, as numbers
          INFO,          \* the level that a new logger has
          MaxAttempts,   \* messages that log_thread writes once told to end: 10
          MaxMessages    \* bound: calls that each producer makes

ASSUME LevelsAssumption == Levels \subseteq Nat /\ INFO \in Levels
ASSUME MaxAttemptsAssumption == MaxAttempts \in Nat \ {0}
ASSUME MaxMessagesAssumption == MaxMessages \in Nat

VARIABLES
    m_alive, m_level, m_dst, m_queue,
    m_file,            \* the log file could be opened
    ppc, calls,        \* producers: where they are, calls made
    lpc, hand, attempt,\* log thread: where it is, logItem, drained so far
    opc,               \* owner: "owner", "joining" in the destructor, "closed"
    output,            \* what has reached the destination
    pushed,            \* history: everything that was pushed
    owed, handled0     \* history, at the start of the destructor: messages
                       \* pushed, and messages taken out of the queue

producer == <<ppc, calls>>
logThread == <<lpc, hand, attempt, output>>
owner == <<opc, owed, handled0>>
config == <<m_dst, m_file>>
vars == <<m_alive, m_level, config, m_queue, producer, logThread, owner, pushed>>

Destinations == {"NONE", "SCREEN", "FILE", "NETWORK"}

\* What NetworkLog::SendLog puts on the wire, whatever the message.
NetworkText == "This is a Message;"

\* The message itself reaches the screen, or a file that could be opened.
Readable == m_dst = "SCREEN" \/ m_file

Message(p) == [from |-> p, num |-> calls[p]]

Init ==
    /\ m_alive = TRUE
    /\ m_level = INFO
    /\ m_dst \in Destinations
    /\ m_file \in {open \in BOOLEAN : open => m_dst = "FILE"}
    /\ m_queue = <<>>
    /\ ppc = [p \in Producers |-> "idle"]
    /\ calls = [p \in Producers |-> 0]
    /\ lpc = "alive" /\ hand = <<>> /\ attempt = 0
    /\ opc = "owner" /\ owed = 0 /\ handled0 = 0
    /\ output = <<>>
    /\ pushed = <<>>

-----------------------------------------------------------------------------
(***************************************************************************)
(* The producers: Trace, Debug, Info, Warning, Error and Critical differ   *)
(* only in the level, which they compare with m_level before the push.     *)
(***************************************************************************)
Call(p, next) ==
    /\ ppc[p] = "idle"
    /\ opc # "closed"
    /\ calls[p] < MaxMessages
    /\ ppc' = [ppc EXCEPT ![p] = next]
    /\ calls' = [calls EXCEPT ![p] = @ + 1]
    /\ UNCHANGED <<m_alive, m_level, config, m_queue, logThread, owner, pushed>>

Filtered(p) == (\E l \in Levels : l < m_level) /\ Call(p, "idle")

Accepted(p) == (\E l \in Levels : l >= m_level) /\ Call(p, "log")

\* log(): formats the message and pushes it.
Log(p) ==
    /\ ppc[p] = "log"
    /\ opc # "closed"
    /\ m_queue' = Append(m_queue, Message(p))
    /\ pushed' = Append(pushed, Message(p))
    /\ ppc' = [ppc EXCEPT ![p] = "idle"]
    /\ UNCHANGED <<m_alive, m_level, config, calls, logThread, owner>>

SetLevel(l) ==
    /\ opc # "closed"
    /\ m_level' = l
    /\ UNCHANGED <<m_alive, config, m_queue, producer, logThread, owner, pushed>>

-----------------------------------------------------------------------------
(***************************************************************************)
(* log_thread.                                                             *)
(***************************************************************************)
ThreadFrame == UNCHANGED <<m_alive, m_level, config, producer, owner, pushed>>

Look(from, to) ==
    /\ lpc = from
    /\ lpc' = to
    /\ UNCHANGED <<hand, attempt, output, m_queue>>
    /\ ThreadFrame

TestAlive == Look("alive", IF m_alive THEN "size" ELSE "drainSize")

\* Mutant: a single message is not worth waking for.
SizeTwo == Look("size", IF Len(m_queue) > 1 THEN "pop" ELSE "alive")

\* An empty queue: sleeps for m_timeout_ms and looks again.
Size == Look("size", IF Len(m_queue) > 0 THEN "pop" ELSE "alive")

\* Mutant: the message is copied and stays in the queue.
PopKeeps(from, to) ==
    /\ lpc = from
    /\ lpc' = to
    /\ hand' = <<Head(m_queue)>>
    /\ UNCHANGED <<m_queue, attempt, output>>
    /\ ThreadFrame

Pop(from, to) ==
    /\ lpc = from
    /\ lpc' = to
    /\ hand' = <<Head(m_queue)>>
    /\ m_queue' = Tail(m_queue)
    /\ UNCHANGED <<attempt, output>>
    /\ ThreadFrame

\* dump_screen and dump_file write the message, dump_network sends a fixed
\* text; a file that could not be opened and no destination mean no output.
Dump ==
    /\ hand' = <<>>
    /\ output' = CASE Readable -> output \o hand
                   [] m_dst = "NETWORK" -> Append(output, NetworkText)
                   [] OTHER -> output
    /\ UNCHANGED m_queue
    /\ ThreadFrame

PopItem == Pop("pop", "dump")

DumpItem == lpc = "dump" /\ lpc' = "alive" /\ Dump /\ UNCHANGED attempt

\* Mutant: waits for a message rather than leave.
DrainSizeWaits == Look("drainSize", IF Len(m_queue) > 0 THEN "drainPop" ELSE "drainSize")

\* After the loop: at most MaxAttempts messages, or until the queue is empty.
DrainSize == Look("drainSize", IF Len(m_queue) > 0 THEN "drainPop" ELSE "done")

DrainPop == Pop("drainPop", "drainDump")

\* Mutant: the attempt is counted twice.
DrainDumpTwice ==
    /\ lpc = "drainDump"
    /\ attempt' = attempt + 2
    /\ lpc' = IF attempt' >= MaxAttempts THEN "done" ELSE "drainSize"
    /\ Dump

\* Mutant: drains until the queue is empty.
DrainDumpForever ==
    /\ lpc = "drainDump"
    /\ attempt' = attempt + 1
    /\ lpc' = "drainSize"
    /\ Dump

DrainDump ==
    /\ lpc = "drainDump"
    /\ attempt' = attempt + 1
    /\ lpc' = IF attempt' >= MaxAttempts THEN "done" ELSE "drainSize"
    /\ Dump

LogThreadStep ==
    TestAlive \/ Size \/ PopItem \/ DumpItem \/ DrainSize \/ DrainPop \/ DrainDump

-----------------------------------------------------------------------------
(***************************************************************************)
(* The destructor: m_alive = false, join, close the file or the socket.    *)
(***************************************************************************)
Handled == Len(pushed) - Len(m_queue)

Destroy ==
    /\ opc = "owner"
    /\ opc' = "joining"
    /\ m_alive' = FALSE
    /\ owed' = Len(pushed)
    /\ handled0' = Handled
    /\ UNCHANGED <<m_level, config, m_queue, producer, logThread, pushed>>

Joined ==
    /\ opc = "joining"
    /\ lpc = "done"
    /\ opc' = "closed"
    /\ UNCHANGED <<m_alive, m_level, config, m_queue, producer, logThread, pushed,
                   owed, handled0>>

ProducerStep(p) == Filtered(p) \/ Accepted(p) \/ Log(p)

Next ==
    \/ \E p \in Producers : ProducerStep(p)
    \/ \E l \in Levels : SetLevel(l)
    \/ LogThreadStep
    \/ Destroy
    \/ Joined

\* The log thread keeps running and a destructor that has begun goes on.
Fairness == WF_vars(LogThreadStep) /\ WF_vars(Joined)

Spec == Init /\ [][Next]_vars

FairSpec == Spec /\ Fairness
-----------------------------------------------------------------------------
(***************************************************************************)
(* Properties.                                                             *)
(***************************************************************************)

\* On screen and in an open file the messages appear once each, in the order in
\* which they were pushed; what has not appeared is in the queue or in the
\* hand of the log thread ("queues log messages as they are issued").
LogIsFaithful ==
    Readable => output \o hand \o m_queue = pushed

\* A logger that is closed has written what was queued when the destructor
\* began, or at least MaxAttempts of it: nothing else is lost, whatever else
\* is logged meanwhile.
LossIsBounded ==
    opc = "closed" => Handled >= owed \/ Handled >= handled0 + MaxAttempts

\* Producers that go on logging cannot hold the destructor up: after m_alive is
\* cleared the log thread takes at most one message in its loop and
\* MaxAttempts after it.
CloseIsBounded ==
    opc # "owner" => Handled <= handled0 + MaxAttempts + 1

\* A message in the queue is taken, unless the logger is destroyed.
QueuedIsHandled ==
    \A k \in 1 .. MaxMessages * Cardinality(Producers) :
        Len(pushed) >= k ~> Handled >= k \/ ~m_alive

\* The destructor returns.
CloseReturns == opc = "joining" ~> opc = "closed"
=============================================================================
