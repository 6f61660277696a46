---------------------------- MODULE LoggerProofs ----------------------------
(***************************************************************************)
(* Logger is right for any number of producers, of calls and of attempts:  *)
(* what reaches the destination is what was pushed, in order, and the      *)
(* destructor is bounded in what it waits for and in what it gives up.     *)
(***************************************************************************)
EXTENDS Logger, SequenceTheorems, TLAPS

\* What can be in the queue, in the hand of the log thread or in the output.
Text == [from : Producers, num : Nat] \cup {NetworkText}

InLoop == {"alive", "size", "pop", "dump"}
InDrain == {"drainSize", "drainPop", "drainDump", "done"}

\* The types. The log thread has a message in hand exactly between a pop and
\* the write, and it is about to pop only from a queue that has something: no
\* other thread takes from the queue after size() was looked at.
TypeInv ==
    /\ m_alive \in BOOLEAN
    /\ m_queue \in Seq(Text) /\ pushed \in Seq(Text) /\ output \in Seq(Text)
    /\ hand \in Seq(Text)
    /\ m_file => m_dst = "FILE"
    /\ calls \in [Producers -> Nat]
    /\ lpc \in InLoop \cup InDrain
    /\ opc \in {"owner", "joining", "closed"}
    /\ attempt \in Nat /\ owed \in Nat /\ handled0 \in Nat
    /\ lpc \in {"dump", "drainDump"} <=> hand # <<>>
    /\ lpc \in {"pop", "drainPop"} => m_queue # <<>>

\* The log thread leaves its loop only when it is told to, and the attempts are
\* counted after that.
EndInv ==
    /\ opc = "owner" <=> m_alive
    /\ lpc \in InDrain => ~m_alive
    /\ lpc \in InLoop => attempt = 0
    /\ lpc # "done" => attempt < MaxAttempts
    /\ attempt <= MaxAttempts
    /\ opc = "closed" => lpc = "done"

\* Messages taken since the destructor began, at each place of the log thread.
MostHandled ==
    CASE lpc \in {"size", "pop"} -> handled0
      [] lpc \in {"alive", "dump"} -> handled0 + 1
      [] lpc \in {"drainSize", "drainPop", "done"} -> handled0 + 1 + attempt
      [] OTHER -> handled0 + 2 + attempt

LeastHandled == IF lpc = "drainDump" THEN handled0 + attempt + 1 ELSE handled0 + attempt

\* The count of the messages taken is between the two; a drain that ends early
\* has seen the queue empty.
CountInv ==
    /\ Len(m_queue) <= Len(pushed)
    /\ ~m_alive =>
          /\ owed <= Len(pushed)
          /\ LeastHandled <= Handled /\ Handled <= MostHandled
          /\ lpc = "done" => attempt = MaxAttempts \/ Handled >= owed

LoggerInv == TypeInv /\ EndInv /\ CountInv /\ LogIsFaithful

-----------------------------------------------------------------------------
\* What a producer pushes is a message.
LEMMA MessageIsText ==
    ASSUME TypeInv, NEW p \in Producers
    PROVE  Message(p) \in Text
BY DEF TypeInv, Message, Text

\* A message that is taken from the queue moves to the hand of the log thread.
LEMMA PopMoves ==
    ASSUME NEW q \in Seq(Text), q # <<>>
    PROVE  /\ <<Head(q)>> \in Seq(Text) /\ Tail(q) \in Seq(Text)
           /\ Len(Tail(q)) = Len(q) - 1
           /\ <<Head(q)>> \o Tail(q) = q
<1>1. Head(q) \in Text /\ Tail(q) \in Seq(Text) /\ Len(Tail(q)) = Len(q) - 1
      /\ \A i \in 1 .. Len(Tail(q)) : Tail(q)[i] = q[i + 1]
  BY HeadTailProperties
<1>2. <<Head(q)>> \in Seq(Text) /\ Len(<<Head(q)>>) = 1 /\ <<Head(q)>>[1] = Head(q)
  BY <1>1
<1> DEFINE s == <<Head(q)>> \o Tail(q)
<1>3. /\ s \in Seq(Text)
      /\ Len(s) = 1 + Len(Tail(q))
      /\ \A i \in 1 .. 1 + Len(Tail(q)) :
            s[i] = IF i <= 1 THEN <<Head(q)>>[i] ELSE Tail(q)[i - 1]
  BY <1>1, <1>2, ConcatProperties
<1>4. Len(q) \in Nat /\ Len(s) = Len(q)
  BY <1>1, <1>3
<1>5. ASSUME NEW i \in 1 .. Len(s)
      PROVE  s[i] = q[i]
  <2>1. CASE i = 1
    BY <1>2, <1>3, <1>4, <2>1
  <2>2. CASE i # 1
    <3>1. i - 1 \in 1 .. Len(Tail(q)) /\ i \in 1 .. 1 + Len(Tail(q)) /\ ~(i <= 1)
      BY <1>1, <1>4, <2>2
    <3>2. QED
      BY <1>1, <1>3, <3>1
  <2>3. QED
    BY <2>1, <2>2
<1>6. s = q
  BY <1>3, <1>4, <1>5, SeqEqual
<1>7. QED
  BY <1>1, <1>2, <1>6

\* A new logger.
LEMMA InitLogger == Init => LoggerInv
<1> SUFFICES ASSUME Init
             PROVE  LoggerInv
  OBVIOUS
<1>1. <<>> \in Seq(Text) /\ Len(<<>>) = 0 /\ <<>> \o <<>> = <<>>
  BY EmptySeq, ConcatEmptySeq
<1>2. TypeInv
  BY <1>1 DEF Init, TypeInv, InLoop
<1>3. EndInv
  BY MaxAttemptsAssumption DEF Init, EndInv, InLoop, InDrain
<1>4. CountInv /\ LogIsFaithful
  BY <1>1 DEF Init, CountInv, LogIsFaithful
<1>5. QED
  BY <1>2, <1>3, <1>4 DEF LoggerInv

\* A producer only adds to the queue, at its end.
LEMMA ProducerKeeps ==
    ASSUME LoggerInv, NEW p \in Producers, ProducerStep(p)
    PROVE  LoggerInv'
<1> USE DEF LoggerInv
<1>1. CASE Filtered(p) \/ Accepted(p)
  <2>1. UNCHANGED <<m_alive, m_level, config, m_queue, logThread, owner, pushed>>
        /\ calls' = [calls EXCEPT ![p] = @ + 1]
    BY <1>1 DEF Filtered, Accepted, Call
  <2>2. TypeInv'
    BY <2>1 DEF TypeInv, logThread, owner, config
  <2>3. QED
    BY <2>1, <2>2 DEF EndInv, CountInv, LogIsFaithful, Readable, Handled, MostHandled,
       LeastHandled, logThread, owner, config
<1>2. CASE Log(p)
  <2>1. /\ m_queue' = Append(m_queue, Message(p))
        /\ pushed' = Append(pushed, Message(p))
        /\ UNCHANGED <<m_alive, m_level, config, calls, logThread, owner>>
    BY <1>2 DEF Log
  <2>2. Message(p) \in Text /\ m_queue \in Seq(Text) /\ pushed \in Seq(Text)
        /\ output \in Seq(Text) /\ hand \in Seq(Text) /\ <<Message(p)>> \in Seq(Text)
    BY MessageIsText DEF TypeInv
  <2>3. /\ m_queue' \in Seq(Text) /\ m_queue' # <<>> /\ Len(m_queue') = Len(m_queue) + 1
        /\ pushed' \in Seq(Text) /\ Len(pushed') = Len(pushed) + 1
        /\ Len(m_queue) \in Nat /\ Len(pushed) \in Nat
    BY <2>1, <2>2, AppendProperties
  <2>4. TypeInv'
    BY <2>1, <2>3 DEF TypeInv, logThread, owner, config
  <2>5. EndInv'
    BY <2>1 DEF EndInv, logThread, owner
  <2>6. Handled' = Handled /\ Handled \in Int
    BY <2>3 DEF Handled
  <2>7. CountInv'
    <3>1. MostHandled' = MostHandled /\ LeastHandled' = LeastHandled
      BY <2>1 DEF MostHandled, LeastHandled, logThread, owner
    <3>2. owed \in Nat
      BY DEF TypeInv
    <3>3. QED
      BY <2>1, <2>3, <2>6, <3>1, <3>2 DEF CountInv, logThread, owner
  <2>8. LogIsFaithful'
    <3>1. output \o hand \in Seq(Text)
      BY <2>2, ConcatProperties
    <3>2. (output \o hand) \o (m_queue \o <<Message(p)>>)
             = ((output \o hand) \o m_queue) \o <<Message(p)>>
      BY <2>2, <3>1, ConcatAssociative
    <3>3. m_queue' = m_queue \o <<Message(p)>> /\ pushed' = pushed \o <<Message(p)>>
      BY <2>1, <2>2, AppendIsConcat
    <3>4. UNCHANGED <<output, hand>> /\ (Readable' <=> Readable)
      BY <2>1 DEF logThread, config, Readable
    <3>5. QED
      BY <3>2, <3>3, <3>4 DEF LogIsFaithful
  <2>9. QED
    BY <2>4, <2>5, <2>7, <2>8
<1>3. QED
  BY <1>1, <1>2 DEF ProducerStep

\* A change of the level, the destructor's start and its end.
LEMMA OwnerKeeps ==
    ASSUME LoggerInv, (\E l \in Levels : SetLevel(l)) \/ Destroy \/ Joined
    PROVE  LoggerInv'
<1> USE DEF LoggerInv
<1>1. CASE \E l \in Levels : SetLevel(l)
  BY <1>1 DEF SetLevel, TypeInv, EndInv, CountInv, LogIsFaithful, Readable, Handled,
     MostHandled, LeastHandled, logThread, owner, config, producer
<1>2. /\ m_queue \in Seq(Text) /\ pushed \in Seq(Text)
      /\ Len(m_queue) \in Nat /\ Len(pushed) \in Nat /\ Handled \in Nat
      /\ attempt \in Nat /\ handled0 \in Nat /\ owed \in Nat
  <2>1. m_queue \in Seq(Text) /\ pushed \in Seq(Text) /\ attempt \in Nat
        /\ handled0 \in Nat /\ owed \in Nat /\ Len(m_queue) <= Len(pushed)
    BY DEF TypeInv, CountInv
  <2>2. QED
    BY <2>1, LenProperties DEF Handled
<1>3. CASE Destroy
  <2>1. /\ opc = "owner" /\ opc' = "joining" /\ m_alive' = FALSE
        /\ owed' = Len(pushed) /\ handled0' = Handled
        /\ UNCHANGED <<config, m_queue, producer, logThread, pushed>>
    BY <1>3 DEF Destroy
  <2>2. lpc \in InLoop /\ attempt = 0
    BY <2>1 DEF EndInv, TypeInv
  <2>3. TypeInv' /\ EndInv'
    BY <1>2, <2>1, <2>2 DEF TypeInv, EndInv, InLoop, InDrain, logThread, producer, config
  <2>4. CountInv'
    BY <1>2, <2>1, <2>2
       DEF CountInv, MostHandled, LeastHandled, Handled, InLoop, logThread
  <2>5. LogIsFaithful'
    BY <2>1 DEF LogIsFaithful, Readable, logThread, config
  <2>6. QED
    BY <2>3, <2>4, <2>5
<1>4. CASE Joined
  <2>1. /\ opc = "joining" /\ lpc = "done" /\ opc' = "closed"
        /\ UNCHANGED <<m_alive, config, m_queue, producer, logThread, pushed, owed, handled0>>
    BY <1>4 DEF Joined
  <2>2. TypeInv' /\ EndInv'
    BY <2>1 DEF TypeInv, EndInv, InLoop, InDrain, logThread, producer, config
  <2>3. CountInv' /\ LogIsFaithful'
    BY <2>1 DEF CountInv, LogIsFaithful, Readable, Handled, MostHandled, LeastHandled,
       logThread, config
  <2>4. QED
    BY <2>2, <2>3
<1>5. QED
  BY <1>1, <1>3, <1>4

\* The log thread takes a message.
LEMMA PopKeepsInv ==
    ASSUME LoggerInv, NEW from, NEW to,
           \/ from = "pop" /\ to = "dump"
           \/ from = "drainPop" /\ to = "drainDump",
           Pop(from, to)
    PROVE  LoggerInv'
<1> USE DEF LoggerInv
<1>1. /\ lpc = from /\ lpc' = to
      /\ hand' = <<Head(m_queue)>> /\ m_queue' = Tail(m_queue)
      /\ UNCHANGED <<attempt, output>>
      /\ UNCHANGED <<m_alive, m_level, config, producer, owner, pushed>>
  BY DEF Pop, ThreadFrame
<1>2. \/ from = "pop" /\ to = "dump"
      \/ from = "drainPop" /\ to = "drainDump"
  OBVIOUS
<1>3. /\ m_queue \in Seq(Text) /\ m_queue # <<>> /\ hand = <<>>
      /\ output \in Seq(Text) /\ pushed \in Seq(Text)
      /\ attempt \in Nat /\ handled0 \in Nat /\ owed \in Nat
  BY <1>1, <1>2 DEF TypeInv
<1>4. /\ hand' \in Seq(Text) /\ m_queue' \in Seq(Text)
      /\ Len(m_queue') = Len(m_queue) - 1 /\ hand' \o m_queue' = m_queue
      /\ hand' # <<>> /\ Len(m_queue) \in Nat /\ Len(pushed) \in Nat
  BY <1>1, <1>3, PopMoves
<1>5. TypeInv' /\ EndInv'
  BY <1>1, <1>2, <1>4 DEF TypeInv, EndInv, InLoop, InDrain, producer, owner, config
<1>6. CountInv'
  <2>1. Handled' = Handled + 1 /\ Handled \in Int
    BY <1>1, <1>4 DEF Handled
  <2>2. /\ MostHandled' = MostHandled + 1
        /\ LeastHandled <= LeastHandled' /\ LeastHandled' <= LeastHandled + 1
        /\ MostHandled \in Int /\ LeastHandled \in Int /\ LeastHandled' \in Int
    <3>1. UNCHANGED <<handled0, attempt>>
      BY <1>1 DEF owner
    <3>2. CASE from = "pop" /\ to = "dump"
      <4>1. MostHandled = handled0 /\ MostHandled' = handled0 + 1
        BY <1>1, <3>1, <3>2 DEF MostHandled
      <4>2. LeastHandled = handled0 + attempt /\ LeastHandled' = handled0 + attempt
        BY <1>1, <3>1, <3>2 DEF LeastHandled
      <4>3. QED
        BY <1>3, <4>1, <4>2
    <3>3. CASE from = "drainPop" /\ to = "drainDump"
      <4>1. MostHandled = handled0 + 1 + attempt /\ MostHandled' = handled0 + 2 + attempt
        BY <1>1, <3>1, <3>3 DEF MostHandled
      <4>2. LeastHandled = handled0 + attempt /\ LeastHandled' = handled0 + attempt + 1
        BY <1>1, <3>1, <3>3 DEF LeastHandled
      <4>3. QED
        BY <1>3, <4>1, <4>2
    <3>4. QED
      BY <1>2, <3>2, <3>3
  <2>3. /\ Len(m_queue) <= Len(pushed)
        /\ ~m_alive => owed <= Len(pushed) /\ LeastHandled <= Handled /\ Handled <= MostHandled
    BY DEF CountInv
  <2>4. Len(m_queue') <= Len(pushed') /\ pushed' = pushed /\ owed' = owed
        /\ m_alive' = m_alive /\ lpc' # "done"
    BY <1>1, <1>2, <1>4, <2>3 DEF owner
  <2>5. QED
    BY <2>1, <2>2, <2>3, <2>4 DEF CountInv
<1>7. LogIsFaithful'
  <2>1. output \o hand = output
    BY <1>3, ConcatEmptySeq
  <2>2. (output \o hand') \o m_queue' = output \o m_queue
    <3>1. ASSUME NEW s \in Seq(Text), NEW t \in Seq(Text), NEW u \in Seq(Text)
          PROVE  (s \o t) \o u = s \o (t \o u)
      BY ConcatAssociative
    <3>2. QED
      BY <1>3, <1>4, <3>1
  <2>3. QED
    BY <1>1, <2>1, <2>2 DEF LogIsFaithful, Readable, config
<1>8. QED
  BY <1>5, <1>6, <1>7

\* The log thread looks at m_alive or at the size of the queue.
LEMMA LookKeeps ==
    ASSUME LoggerInv, TestAlive \/ Size \/ DrainSize
    PROVE  LoggerInv'
<1> USE DEF LoggerInv
<1>1. /\ UNCHANGED <<hand, attempt, output, m_queue>>
      /\ UNCHANGED <<m_alive, m_level, config, producer, owner, pushed>>
  BY DEF TestAlive, Size, DrainSize, Look, ThreadFrame
<1>2. /\ m_queue \in Seq(Text) /\ pushed \in Seq(Text)
      /\ Len(m_queue) \in Nat /\ Len(pushed) \in Nat
      /\ Len(m_queue) > 0 <=> m_queue # <<>>
      /\ attempt \in Nat /\ handled0 \in Nat /\ owed \in Nat /\ m_alive \in BOOLEAN
      /\ MaxAttempts \in Nat /\ MaxAttempts > 0
  <2>1. m_queue \in Seq(Text) /\ pushed \in Seq(Text) /\ attempt \in Nat
        /\ handled0 \in Nat /\ owed \in Nat /\ m_alive \in BOOLEAN
    BY DEF TypeInv
  <2>2. QED
    BY <2>1, LenProperties, EmptySeq, MaxAttemptsAssumption
<1>3. Handled' = Handled /\ Handled = Len(pushed) - Len(m_queue) /\ Handled \in Int
  BY <1>1, <1>2 DEF Handled
<1>4. LogIsFaithful'
  BY <1>1 DEF LogIsFaithful, Readable, config
<1>5. UNCHANGED <<calls, opc, owed, handled0, m_file, m_dst>>
  BY <1>1 DEF producer, owner, config
<1>6. CASE TestAlive
  <2>1. lpc = "alive" /\ lpc' = IF m_alive THEN "size" ELSE "drainSize"
    BY <1>6 DEF TestAlive, Look
  <2>2. TypeInv' /\ EndInv'
    BY <1>1, <1>2, <1>5, <2>1 DEF TypeInv, EndInv, InLoop, InDrain
  <2>3. CountInv'
    <3>1. CASE m_alive
      BY <1>1, <3>1 DEF CountInv
    <3>2. CASE ~m_alive
      <4>1. attempt = 0
        BY <2>1 DEF EndInv, InLoop
      <4>2. MostHandled = handled0 + 1 /\ LeastHandled = handled0 + attempt
        BY <2>1 DEF MostHandled, LeastHandled
      <4>3. MostHandled' = handled0 + 1 + attempt /\ LeastHandled' = handled0 + attempt
        BY <1>1, <1>5, <2>1, <3>2 DEF MostHandled, LeastHandled
      <4>4. QED
        BY <1>1, <1>2, <1>3, <1>5, <2>1, <3>2, <4>1, <4>2, <4>3 DEF CountInv
    <3>3. QED
      BY <1>2, <3>1, <3>2
  <2>4. QED
    BY <1>4, <2>2, <2>3
<1>7. CASE Size
  <2>1. lpc = "size" /\ lpc' = IF Len(m_queue) > 0 THEN "pop" ELSE "alive"
    BY <1>7 DEF Size, Look
  <2>2. TypeInv' /\ EndInv'
    BY <1>1, <1>2, <1>5, <2>1 DEF TypeInv, EndInv, InLoop, InDrain
  <2>3. CountInv'
    <3>1. MostHandled = handled0 /\ MostHandled' \in {handled0, handled0 + 1}
      BY <1>5, <2>1 DEF MostHandled
    <3>2. LeastHandled' = LeastHandled /\ lpc' # "done"
      BY <1>1, <1>5, <2>1 DEF LeastHandled
    <3>3. Handled <= MostHandled => Handled <= MostHandled'
      BY <1>2, <1>3, <3>1
    <3>4. QED
      BY <1>1, <1>3, <1>5, <3>2, <3>3 DEF CountInv
  <2>4. QED
    BY <1>4, <2>2, <2>3
<1>8. CASE DrainSize
  <2>1. lpc = "drainSize" /\ lpc' = IF Len(m_queue) > 0 THEN "drainPop" ELSE "done"
    BY <1>8 DEF DrainSize, Look
  <2>2. TypeInv' /\ EndInv'
    BY <1>1, <1>2, <1>5, <2>1 DEF TypeInv, EndInv, InLoop, InDrain
  <2>3. CountInv'
    <3>1. MostHandled' = MostHandled /\ LeastHandled' = LeastHandled
      BY <1>1, <1>5, <2>1 DEF MostHandled, LeastHandled
    <3>2. lpc' = "done" => Handled = Len(pushed)
      BY <1>2, <1>3, <2>1
    <3>3. owed <= Len(pushed)
      BY <2>1 DEF CountInv, EndInv, InDrain
    <3>4. QED
      BY <1>1, <1>2, <1>3, <1>5, <3>1, <3>2, <3>3 DEF CountInv
  <2>4. QED
    BY <1>4, <2>2, <2>3
<1>9. QED
  BY <1>6, <1>7, <1>8

\* The log thread writes the message in its hand.
LEMMA DumpKeeps ==
    ASSUME LoggerInv, DumpItem \/ DrainDump
    PROVE  LoggerInv'
<1> USE DEF LoggerInv
<1>1. /\ hand' = <<>>
      /\ output' = CASE Readable -> output \o hand
                     [] m_dst = "NETWORK" -> Append(output, NetworkText)
                     [] OTHER -> output
      /\ UNCHANGED <<m_queue, m_alive, m_level, config, producer, owner, pushed>>
  BY DEF DumpItem, DrainDump, Dump, ThreadFrame
<1>2. /\ m_queue \in Seq(Text) /\ pushed \in Seq(Text) /\ output \in Seq(Text)
      /\ hand \in Seq(Text) /\ NetworkText \in Text
      /\ Len(m_queue) \in Nat /\ Len(pushed) \in Nat
      /\ attempt \in Nat /\ handled0 \in Nat /\ owed \in Nat
      /\ MaxAttempts \in Nat /\ MaxAttempts > 0
  <2>1. m_queue \in Seq(Text) /\ pushed \in Seq(Text) /\ output \in Seq(Text)
        /\ hand \in Seq(Text) /\ attempt \in Nat /\ handled0 \in Nat /\ owed \in Nat
    BY DEF TypeInv
  <2>2. QED
    BY <2>1, LenProperties, MaxAttemptsAssumption DEF Text
<1>3. output' \in Seq(Text) /\ hand' \in Seq(Text)
  <2>1. output \o hand \in Seq(Text) /\ Append(output, NetworkText) \in Seq(Text)
    BY <1>2, ConcatProperties, AppendProperties
  <2>2. QED
    BY <1>1, <1>2, <2>1, EmptySeq
<1>4. LogIsFaithful'
  <2>1. SUFFICES ASSUME Readable
                 PROVE  (output' \o hand') \o m_queue' = pushed'
    BY <1>1 DEF LogIsFaithful, Readable, config
  <2>2. output' = output \o hand
    <3>1. m_dst # "NETWORK"
      BY <2>1 DEF TypeInv, Readable
    <3>2. QED
      BY <1>1, <2>1, <3>1
  <2>3. output' \o hand' = output \o hand
    BY <1>1, <1>3, <2>2, ConcatEmptySeq
  <2>4. (output \o hand) \o m_queue = pushed
    BY <2>1 DEF LogIsFaithful
  <2>5. QED
    BY <1>1, <2>3, <2>4
<1>5. Handled' = Handled /\ Handled \in Int /\ UNCHANGED <<calls, opc, owed, handled0, m_file, m_dst>>
  BY <1>1, <1>2 DEF Handled, producer, owner, config
<1>6. CASE DumpItem
  <2>1. lpc = "dump" /\ lpc' = "alive" /\ UNCHANGED attempt
    BY <1>6 DEF DumpItem
  <2>2. TypeInv' /\ EndInv'
    BY <1>1, <1>3, <1>5, <2>1 DEF TypeInv, EndInv, InLoop, InDrain
  <2>3. MostHandled' = MostHandled /\ LeastHandled' = LeastHandled
    BY <1>5, <2>1 DEF MostHandled, LeastHandled
  <2>4. CountInv'
    BY <1>1, <1>5, <2>1, <2>3 DEF CountInv
  <2>5. QED
    BY <1>4, <2>2, <2>4
<1>7. CASE DrainDump
  <2>1. /\ lpc = "drainDump" /\ attempt' = attempt + 1
        /\ lpc' = IF attempt' >= MaxAttempts THEN "done" ELSE "drainSize"
    BY <1>7 DEF DrainDump
  <2>2. attempt < MaxAttempts /\ ~m_alive
    BY <2>1 DEF EndInv, InDrain
  <2>3. TypeInv'
    BY <1>1, <1>2, <1>3, <1>5, <2>1 DEF TypeInv, InLoop, InDrain
  <2>4. EndInv' /\ (lpc' = "done" => attempt' = MaxAttempts)
    BY <1>1, <1>2, <1>5, <2>1, <2>2 DEF EndInv, InLoop, InDrain
  <2>5. CountInv'
    <3>1. MostHandled = handled0 + 2 + attempt /\ LeastHandled = handled0 + attempt + 1
      BY <2>1 DEF MostHandled, LeastHandled
    <3>2. MostHandled' = handled0 + 1 + (attempt + 1) /\ LeastHandled' = handled0 + (attempt + 1)
      BY <1>5, <2>1 DEF MostHandled, LeastHandled
    <3>3. MostHandled' = MostHandled /\ LeastHandled' = LeastHandled
      BY <1>2, <3>1, <3>2
    <3>4. QED
      BY <1>1, <1>5, <2>4, <3>3 DEF CountInv
  <2>6. QED
    BY <1>4, <2>3, <2>4, <2>5
<1>8. QED
  BY <1>6, <1>7

\* Every step keeps the invariant.
LEMMA NextLogger == LoggerInv /\ [Next]_vars => LoggerInv'
<1> SUFFICES ASSUME LoggerInv, [Next]_vars
             PROVE  LoggerInv'
  OBVIOUS
<1>1. CASE \E p \in Producers : ProducerStep(p)
  BY <1>1, ProducerKeeps
<1>2. CASE (\E l \in Levels : SetLevel(l)) \/ Destroy \/ Joined
  BY <1>2, OwnerKeeps
<1>3. CASE LogThreadStep
  BY <1>3, LookKeeps, PopKeepsInv, DumpKeeps DEF LogThreadStep, PopItem, DrainPop
<1>4. CASE UNCHANGED vars
  BY <1>4 DEF vars, producer, logThread, owner, config, LoggerInv, TypeInv, EndInv, CountInv,
     MostHandled, LeastHandled, Handled, LogIsFaithful, Readable
<1>5. QED
  BY <1>1, <1>2, <1>3, <1>4 DEF Next

\* The inductive invariant holds in every reachable state; with it, that the log
\* thread never pops from an empty queue, although it looks at the size and pops
\* under two separate locks.
THEOREM LoggerCorrect == Spec => []LoggerInv
<1>1. QED
  BY InitLogger, NextLogger, PTL DEF Spec

\* On screen and in an open file the log is what was pushed, once each and in
\* order, for any number of producers.
THEOREM LogFaithful == Spec => []LogIsFaithful
<1>1. LoggerInv => LogIsFaithful
  BY DEF LoggerInv
<1>2. QED
  BY <1>1, LoggerCorrect, PTL

\* A closed logger has written what it owed, or MaxAttempts messages since the
\* destructor began.
THEOREM LossBounded == Spec => []LossIsBounded
<1>1. LoggerInv => LossIsBounded
  <2> SUFFICES ASSUME LoggerInv, opc = "closed"
               PROVE  Handled >= owed \/ Handled >= handled0 + MaxAttempts
    BY DEF LossIsBounded
  <2>1. lpc = "done" /\ ~m_alive
    BY DEF LoggerInv, EndInv, InDrain
  <2>2. LeastHandled = handled0 + attempt
    BY <2>1 DEF LeastHandled
  <2>3. /\ attempt = MaxAttempts \/ Handled >= owed
        /\ handled0 + attempt <= Handled
    BY <2>1, <2>2 DEF LoggerInv, CountInv
  <2>4. Handled \in Int /\ handled0 \in Int /\ attempt \in Int
    BY LenProperties DEF LoggerInv, TypeInv, Handled
  <2>5. QED
    BY <2>3, <2>4
<1>2. QED
  BY <1>1, LoggerCorrect, PTL

\* The destructor waits for at most MaxAttempts + 1 messages, however many are
\* pushed meanwhile.
THEOREM CloseBounded == Spec => []CloseIsBounded
<1>1. LoggerInv => CloseIsBounded
  <2> SUFFICES ASSUME LoggerInv, opc # "owner"
               PROVE  Handled <= handled0 + MaxAttempts + 1
    BY DEF CloseIsBounded
  <2>1. ~m_alive /\ attempt <= MaxAttempts /\ (lpc = "drainDump" => attempt < MaxAttempts)
        /\ Handled <= MostHandled
    BY DEF LoggerInv, EndInv, CountInv
  <2>2. Handled \in Int /\ handled0 \in Int /\ attempt \in Nat /\ MaxAttempts \in Nat
        /\ MaxAttempts > 0
    BY LenProperties, MaxAttemptsAssumption DEF LoggerInv, TypeInv, Handled
  <2>3. CASE lpc = "drainDump"
    <3>1. MostHandled = handled0 + 2 + attempt
      BY <2>3 DEF MostHandled
    <3>2. QED
      BY <2>1, <2>2, <2>3, <3>1
  <2>4. CASE lpc # "drainDump"
    <3>1. MostHandled \in {handled0, handled0 + 1, handled0 + 1 + attempt}
      BY <2>4 DEF LoggerInv, TypeInv, InLoop, InDrain, MostHandled
    <3>2. QED
      BY <2>1, <2>2, <3>1
  <2>5. QED
    BY <2>3, <2>4
<1>2. QED
  BY <1>1, LoggerCorrect, PTL
=============================================================================
