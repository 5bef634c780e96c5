-------------------------- MODULE RIOSessionProofs -------------------------
(***************************************************************************)
(* Proofs about RIOSession, for every number of workers and senders, every *)
(* size of the slices, and every set of message and frame lengths: at most *)
(* one receive and one send is outstanding, the accepted bytes leave in    *)
(* order, the pending total is exact and bounded, and a receive loop never *)
(* stops on its own.                                                       *)
(***************************************************************************)
EXTENDS RIOSession, FiniteSetTheorems, TLAPS

USE DEF recvVars, sendVars, kernel, setup, flags, locks

-----------------------------------------------------------------------------
(* The inductive strengthening. *)

AcceptLabels == {"create", "init", "add", "start", "done", "arm", "post"}
SendLabels   == {"check", "limit", "drop", "enqueue", "flush", "copy"}
WorkLabels   == {"idle", "next", "frames", "arm", "post"} \cup SendLabels
Packets      == [first : Nat, last : Nat, Offset : Nat]

FlagType ==
    /\ m_bIsDisconnected \in BOOLEAN /\ m_bReceiveLoopStarted \in BOOLEAN
    /\ m_bSendInProgress \in BOOLEAN /\ m_RQ \in BOOLEAN
    /\ inMap \in BOOLEAN /\ reset \in BOOLEAN /\ refused \subseteq {"recv", "send"}

DataType ==
    /\ recvCap \in {0, RecvSlice} /\ sendCap \in {0, SendSlice}
    /\ recvSize \in Int /\ frame \in Frames
    /\ sendBuf \in Seq(Nat) /\ wire \in Seq(Nat)
    /\ m_PendingSendQueue \in Seq(Packets) /\ m_PendingTotalBytes \in Int
    /\ accepted \in Nat /\ received \in Nat
    /\ recvOut \in Seq(Int) /\ sendOut \in Seq(Int) /\ cq \in Seq(Results)

ThreadType ==
    /\ m_RecvMutex \subseteq Workers /\ m_SendQueueMutex \subseteq Threads
    /\ pc \in [Threads -> AcceptLabels \cup WorkLabels] /\ size \in [Threads -> Nat]
    /\ batch \in [Threads -> Seq(Results)]

RioType == FlagType /\ DataType /\ ThreadType

(* Where a thread may be, and what it owns there. *)
OwnOK(t) ==
    /\ t = Acceptor => pc[t] \in AcceptLabels
    /\ t \in Senders => pc[t] \in {"idle"} \cup SendLabels
    /\ t \in Workers =>
          /\ pc[t] \in WorkLabels
          /\ t \in m_RecvMutex => pc[t] \notin {"idle", "next"}
          /\ pc[t] \in {"frames", "arm", "post", "check", "limit", "enqueue"}
                => t \in m_RecvMutex
          /\ pc[t] = "idle" => batch[t] = <<>>
    /\ t \in m_SendQueueMutex <=> pc[t] = "copy"
    /\ pc[t] \in {"check", "limit", "enqueue"} => size[t] \in MsgSizes

ThreadInv ==
    /\ \A t \in Threads : OwnOK(t)
    /\ \A t, u \in m_RecvMutex : t = u
    /\ \A t, u \in m_SendQueueMutex : t = u

(* Before its slices are allocated the session is untouched. *)
CreateInv ==
    pc[Acceptor] = "create" =>
        /\ inMap = FALSE /\ m_bReceiveLoopStarted = FALSE
        /\ recvOut = <<>> /\ sendOut = <<>> /\ cq = <<>>
        /\ recvSize = 0 /\ sendBuf = <<>> /\ m_PendingSendQueue = <<>>
        /\ \A t \in Workers \cup Senders : pc[t] = "idle"

(* The results of op that wait to be applied: in the completion queue, or  *)
(* in what a worker dequeued.  There is at most one.                       *)
In(c, op) == \E i \in DOMAIN c : c[i].op = op
OneIn(c, op) == \A i, j \in DOMAIN c : c[i].op = op /\ c[j].op = op => i = j

Waits(op, r) ==
    /\ r.op = op
    /\ \/ \E i \in DOMAIN cq : cq[i] = r
       \/ \E t \in Workers : \E i \in DOMAIN batch[t] : batch[t][i] = r

Unique(op) ==
    /\ OneIn(cq, op)
    /\ \A t \in Workers : OneIn(batch[t], op) /\ ~(In(cq, op) /\ In(batch[t], op))
    /\ \A t, u \in Workers : In(batch[t], op) /\ In(batch[u], op) => t = u

(* One receive at a time: in the kernel, completed, with the worker that   *)
(* holds m_RecvMutex, or with the acceptor that posts the first one.  What *)
(* was posted still fits, because nobody else moves the receive ring.      *)
Arming == pc[Acceptor] \in {"arm", "post"}
RecvBusy == recvOut # <<>> \/ Waiting("recv")

RecvInv ==
    /\ Unique("recv")
    /\ Len(recvOut) <= 1 /\ (recvOut # <<>> => ~Waiting("recv"))
    /\ RecvBusy => m_RecvMutex = {}
    /\ Arming => ~RecvBusy /\ m_RecvMutex = {} /\ recvSize = 0
    /\ m_bReceiveLoopStarted = FALSE =>
          ~RecvBusy /\ m_RecvMutex = {} /\ ~Arming /\ recvSize = 0
    /\ pc[Acceptor] \in {"create", "init"} => m_bReceiveLoopStarted = FALSE
    /\ recvSize \in 0..recvCap /\ recvHead \in 0..RecvSlice - 1
    /\ recvOut # <<>> => recvOut[1] \in 1..(recvCap - recvSize)
    /\ \A r \in Results : Waits("recv", r) => r.n <= recvCap - recvSize

(* One send at a time, while m_bSendInProgress is set; its bytes stay at   *)
(* the front of the send ring until the completion is applied.             *)
SendInv ==
    /\ Unique("send")
    /\ Len(sendOut) <= 1 /\ (sendOut # <<>> => ~Waiting("send"))
    /\ sendOut # <<>> \/ Waiting("send") => m_bSendInProgress = TRUE
    /\ Len(sendBuf) <= sendCap /\ sendHead \in 0..SendSlice - 1
    /\ sendOut # <<>> => sendOut[1] \in 1..Len(sendBuf)
    /\ \A r \in Results : Waits("send", r) =>
          /\ r.ok = TRUE => r.n \in 1..Len(sendBuf)
          /\ r.ok = FALSE => r.n = 0

(* The queue holds the tail of the accepted stream, and the total counts   *)
(* it.                                                                     *)
QueueInv ==
    LET q == m_PendingSendQueue
    IN  /\ q # <<>> => q[Len(q)].last = accepted /\ q[1].Offset < PacketLength(q[1])
        /\ \A i \in 1..Len(q) : q[i].first <= q[i].last /\ q[i].last <= accepted
        /\ \A i \in 2..Len(q) : q[i].first = q[i-1].last + 1 /\ q[i].Offset = 0
        /\ q = <<>> => m_PendingTotalBytes = 0
        /\ q # <<>> => m_PendingTotalBytes = accepted - q[1].first + 1

(* The send ring holds the bytes after base, the queue what follows them. *)
StreamAt(base) ==
    LET q == m_PendingSendQueue
    IN  /\ \A i \in 1..Len(sendBuf) : sendBuf[i] = base + i
        /\ q = <<>> => base + Len(sendBuf) = accepted
        /\ q # <<>> => q[1].first + q[1].Offset = base + Len(sendBuf) + 1

StreamInv ==
    /\ \A i \in 1..Len(wire) : wire[i] = i
    /\ ~Waiting("send") => StreamAt(Len(wire))
    /\ \A r \in Results : Waits("send", r) => StreamAt(Len(wire) - r.n)

(* Every thread past the backpressure test may still add one packet. *)
Passed == {t \in Threads : pc[t] = "enqueue"}
LargestMsg == CHOOSE m \in MsgSizes : \A k \in MsgSizes : k <= m
BoundInv ==
    m_PendingTotalBytes + Cardinality(Passed) * LargestMsg
      <= MAX_PENDING_BYTES + (Cardinality(Senders) + 1) * LargestMsg

(* A worker posts the next receive only when no complete packet is left. *)
LoopInv ==
    /\ RecvLoopAlive
    /\ \A t \in Workers : pc[t] \in {"arm", "post"} => (frame = 0 \/ recvSize < frame)

RioInv ==
    RioType /\ ThreadInv /\ CreateInv /\ RecvInv /\ SendInv /\ QueueInv /\ StreamInv

-----------------------------------------------------------------------------
(* Types and threads. *)

(* Every label a step may go to is a label. *)
LEMMA LabelFacts ==
    {"create", "init", "add", "start", "done", "arm", "post", "idle", "next", "frames",
     "check", "limit", "drop", "enqueue", "flush", "copy"} \subseteq AcceptLabels \cup WorkLabels
BY DEF AcceptLabels, WorkLabels, SendLabels

(* A step of a thread keeps the types of the flags ... *)
LEMMA StepFlags ==
    ASSUME RioType, NEW t \in Threads, Step(t) \/ SendMessage(t)
    PROVE  FlagType'
<1> USE DEF RioType, FlagType
<1>1. CASE CreateSession(t)
  BY <1>1 DEF CreateSession
<1>2. CASE Initialize(t)
  BY <1>2 DEF Initialize, StartReceiveLoop
<1>3. CASE OnAcceptedAdd(t)
  BY <1>3 DEF OnAcceptedAdd
<1>4. CASE OnAcceptedStart(t)
  BY <1>4 DEF OnAcceptedStart, StartReceiveLoop
<1>5. CASE SendCheck(t)
  BY <1>5 DEF SendCheck
<1>6. CASE Backpressure(t)
  BY <1>6 DEF Backpressure
<1>7. CASE Enqueue(t)
  BY <1>7 DEF Enqueue
<1>8. CASE FlushLock(t)
  BY <1>8 DEF FlushLock
<1>9. CASE FlushCopy(t)
  BY <1>9 DEF FlushCopy
<1>10. CASE FlushPost(t)
  BY <1>10 DEF FlushPost
<1>11. CASE OnDisconnected(t)
  BY <1>11 DEF OnDisconnected
<1>12. CASE RequestRecvCheck(t)
  BY <1>12 DEF RequestRecvCheck
<1>13. CASE RequestRecvPost(t)
  BY <1>13 DEF RequestRecvPost
<1>14. CASE Dequeue(t)
  BY <1>14 DEF Dequeue
<1>15. CASE BatchDone(t)
  BY <1>15 DEF BatchDone
<1>16. CASE OnFailed(t)
  BY <1>16 DEF OnFailed
<1>17. CASE OnReceived(t)
  BY <1>17 DEF OnReceived
<1>18. CASE ReadPacket(t)
  BY <1>18 DEF ReadPacket
<1>19. CASE ReadStop(t)
  BY <1>19 DEF ReadStop
<1>20. CASE OnSent(t)
  BY <1>20 DEF OnSent
<1>21. CASE SendMessage(t)
  BY <1>21 DEF SendMessage
<1>22. QED
  BY <1>1, <1>2, <1>3, <1>4, <1>5, <1>6, <1>7, <1>8, <1>9, <1>10, <1>11, <1>12,
     <1>13, <1>14, <1>15, <1>16, <1>17, <1>18, <1>19, <1>20, <1>21 DEF Step, Accept, Send, Receive, Work

(* Facts about sequences that the steps below use. *)
LEMMA FunSeq ==
    ASSUME NEW n \in Nat, NEW f \in [1..n -> Nat]
    PROVE  f \in Seq(Nat) /\ Len(f) = n
OBVIOUS

(* Appending keeps a sequence and what it had. *)
LEMMA AppendFacts ==
    ASSUME NEW S, NEW s \in Seq(S), NEW x \in S
    PROVE  /\ Append(s, x) \in Seq(S) /\ Len(Append(s, x)) = Len(s) + 1 /\ Len(s) \in Nat
           /\ Append(s, x)[Len(s) + 1] = x
           /\ \A i \in 1..Len(s) : Append(s, x)[i] = s[i]
OBVIOUS

(* So does joining. *)
LEMMA JoinFacts ==
    ASSUME NEW s \in Seq(Nat), NEW u \in Seq(Nat)
    PROVE  /\ s \o u \in Seq(Nat) /\ Len(s \o u) = Len(s) + Len(u)
           /\ Len(s) \in Nat /\ Len(u) \in Nat
           /\ \A i \in 1..Len(s) : (s \o u)[i] = s[i]
           /\ \A i \in 1..Len(u) : (s \o u)[Len(s) + i] = u[i]
OBVIOUS

(* What is left of a sequence without its first element. *)
LEMMA TailFacts ==
    ASSUME NEW S, NEW s \in Seq(S), s # <<>>
    PROVE  /\ Tail(s) \in Seq(S) /\ Len(Tail(s)) = Len(s) - 1 /\ Len(s) \in Nat \ {0}
           /\ Head(s) = s[1] /\ Head(s) \in S
           /\ \A i \in 1..(Len(s) - 1) : Tail(s)[i] = s[i + 1]
OBVIOUS

(* Without its first n elements. *)
LEMMA DropFacts ==
    ASSUME NEW s \in Seq(Nat), NEW n \in 0..Len(s)
    PROVE  /\ SubSeq(s, n + 1, Len(s)) \in Seq(Nat)
           /\ Len(SubSeq(s, n + 1, Len(s))) = Len(s) - n
           /\ \A i \in 1..(Len(s) - n) : SubSeq(s, n + 1, Len(s))[i] = s[n + i]
<1>1. Len(s) \in Nat /\ n \in Nat /\ n + 1 \in 1..(Len(s) + 1) /\ \A i \in 1..Len(s) : s[i] \in Nat
  OBVIOUS
<1>2. SubSeq(s, n + 1, Len(s)) = [i \in 1..(Len(s) - n) |-> s[n + i]]
  BY <1>1
<1>3. [i \in 1..(Len(s) - n) |-> s[n + i]] \in [1..(Len(s) - n) -> Nat]
  BY <1>1
<1>4. QED
  BY <1>1, <1>2, <1>3, FunSeq

(* The first n elements. *)
LEMMA TakeFacts ==
    ASSUME NEW s \in Seq(Nat), NEW n \in 0..Len(s)
    PROVE  /\ SubSeq(s, 1, n) \in Seq(Nat) /\ Len(SubSeq(s, 1, n)) = n
           /\ \A i \in 1..n : SubSeq(s, 1, n)[i] = s[i]
OBVIOUS

(* A packet of the queue is partly copied: only its offset changes. *)
LEMMA OffsetFacts ==
    ASSUME NEW q \in Seq(Packets), q # <<>>, NEW x \in Nat,
           NEW u, u = [q EXCEPT ![1].Offset = x]
    PROVE  /\ u \in Seq(Packets) /\ Len(u) = Len(q) /\ u # <<>>
           /\ u[1].first = q[1].first /\ u[1].last = q[1].last /\ u[1].Offset = x
           /\ \A i \in 2..Len(q) : u[i] = q[i]
<1>1. Len(q) \in Nat \ {0} /\ q[1] \in Packets
  OBVIOUS
<1>2. PICK p \in Packets : p = q[1]
  BY <1>1
<1>3. /\ [p EXCEPT !.Offset = x] \in Packets
      /\ [p EXCEPT !.Offset = x].first = p.first /\ [p EXCEPT !.Offset = x].last = p.last
      /\ [p EXCEPT !.Offset = x].Offset = x
  BY DEF Packets
<1>4. u = [q EXCEPT ![1] = [p EXCEPT !.Offset = x]]
  BY <1>2
<1>5. QED
  BY <1>1, <1>2, <1>3, <1>4

(* What RequestRecv may post: some of the free part of the ring, and       *)
(* nothing only if there is none.                                          *)
LEMMA WritableFacts ==
    ASSUME RioInv
    PROVE  /\ WritableSpan \in 0..(recvCap - recvSize)
           /\ recvSize < recvCap => WritableSpan > 0
<1>1. recvCap \in Nat /\ recvSize \in 0..recvCap /\ recvHead \in Nat
  BY RIOBounds DEF RioInv, RioType, DataType, RecvInv
<1>2. CASE recvSize = recvCap
  BY <1>1, <1>2 DEF WritableSpan
<1>3. CASE recvSize # recvCap
  <2>1. (recvHead + recvSize) % recvCap \in 0..(recvCap - 1)
    BY <1>1, <1>3
  <2>2. QED
    BY <1>1, <1>3, <2>1 DEF WritableSpan, Smaller
<1>4. QED
  BY <1>2, <1>3

(* What TryPostSendFromQueue posts: some of the bytes in the ring. *)
LEMMA ReadableFacts ==
    ASSUME RioInv
    PROVE  /\ ReadableSpan \in Int
           /\ sendBuf # <<>> => ReadableSpan \in 1..Len(sendBuf)
<1>1. /\ sendCap \in {0, SendSlice} /\ Len(sendBuf) \in 0..sendCap
      /\ sendHead \in 0..SendSlice - 1 /\ sendBuf \in Seq(Nat) /\ SendSlice \in Nat
  BY RIOBounds DEF RioInv, RioType, DataType, SendInv
<1>2. sendBuf # <<>> => Len(sendBuf) > 0
  BY <1>1
<1>3. QED
  BY <1>1, <1>2 DEF ReadableSpan, Smaller

CopyLength ==
    Smaller(PacketLength(Head(m_PendingSendQueue)) - Head(m_PendingSendQueue).Offset, FreeSpace)

(* One round of FlushPendingSendQueue copies at least one byte of the      *)
(* first packet, and no more than the packet has and the ring takes.       *)
LEMMA CopyFacts ==
    ASSUME RioInv, m_PendingSendQueue # <<>>, FreeSpace > 0
    PROVE  /\ Head(m_PendingSendQueue) \in Packets
           /\ Head(m_PendingSendQueue) = m_PendingSendQueue[1]
           /\ Len(m_PendingSendQueue) \in Nat \ {0}
           /\ CopyLength \in Nat \ {0} /\ CopyLength <= sendCap - Len(sendBuf)
           /\ Head(m_PendingSendQueue).Offset + CopyLength
                  <= PacketLength(Head(m_PendingSendQueue))
<1> DEFINE p == Head(m_PendingSendQueue)
<1>1. p \in Packets /\ p = m_PendingSendQueue[1] /\ Len(m_PendingSendQueue) \in Nat \ {0}
  BY DEF RioInv, RioType, DataType
<1>2. p.Offset < PacketLength(p)
  BY <1>1 DEF RioInv, QueueInv
<1>3. p.first \in Nat /\ p.last \in Nat /\ p.Offset \in Nat /\ PacketLength(p) \in Int
  BY <1>1 DEF Packets, PacketLength
<1>4. FreeSpace \in Int
  BY RIOBounds DEF RioInv, RioType, DataType, FreeSpace
<1>5. CopyLength \in Nat \ {0} /\ CopyLength <= FreeSpace /\ p.Offset + CopyLength <= PacketLength(p)
  <2> HIDE DEF p
  <2>1. CopyLength = Smaller(PacketLength(p) - p.Offset, FreeSpace)
    BY DEF CopyLength, p
  <2>2. QED
    BY <1>2, <1>3, <1>4, <2>1 DEF Smaller
<1>6. QED
  BY <1>1, <1>5 DEF FreeSpace

(* ... of the buffers and counters ... *)
LEMMA StepData ==
    ASSUME RioInv, NEW t \in Threads, Step(t) \/ SendMessage(t)
    PROVE  DataType'
<1>0. DataType /\ ThreadType
  BY DEF RioInv, RioType
<1> USE DEF DataType
<1>1. CASE CreateSession(t)
  BY <1>0, RIOBounds, <1>1 DEF CreateSession, AllocateSlice
<1>2. CASE Initialize(t)
  BY <1>0, RIOBounds, <1>2 DEF Initialize, StartReceiveLoop
<1>3. CASE OnAcceptedAdd(t)
  BY <1>0, RIOBounds, <1>3 DEF OnAcceptedAdd
<1>4. CASE OnAcceptedStart(t)
  BY <1>0, RIOBounds, <1>4 DEF OnAcceptedStart, StartReceiveLoop
<1>5. CASE SendCheck(t)
  BY <1>0, RIOBounds, <1>5 DEF SendCheck
<1>6. CASE Backpressure(t)
  BY <1>0, RIOBounds, <1>6 DEF Backpressure
<1>7. CASE Enqueue(t)
  <2>1. size[t] \in Nat /\ accepted' \in Nat /\ accepted \in Nat
    BY <1>0, <1>7 DEF Enqueue, ThreadType
  <2>2. Bytes(size[t]) \in Seq(Nat)
    <3>1. Bytes(size[t]) \in [1..size[t] -> Nat]
      BY <2>1 DEF Bytes
    <3>2. QED
      BY <2>1, <3>1, FunSeq
  <2>3. [first |-> accepted + 1, last |-> accepted + size[t], Offset |-> 0] \in Packets
    BY <2>1 DEF Packets
  <2>4. sendBuf' \in Seq(Nat)
    BY <1>0, <1>7, <2>2, JoinFacts DEF Enqueue
  <2>5. m_PendingSendQueue' \in Seq(Packets) /\ m_PendingTotalBytes' \in Int
    <3>1. CASE FastPath(t)
      BY <1>0, <1>7, <3>1 DEF Enqueue
    <3>2. CASE ~FastPath(t)
      <4>1. /\ m_PendingTotalBytes' = m_PendingTotalBytes + size[t]
            /\ m_PendingSendQueue' = Append(m_PendingSendQueue,
                   [first |-> accepted + 1, last |-> accepted + size[t], Offset |-> 0])
        BY <1>7, <3>2 DEF Enqueue
      <4>2. QED
        BY <1>0, <2>1, <2>3, <4>1, AppendFacts
    <3>3. QED
      BY <3>1, <3>2
  <2>6. QED
    BY <1>0, <1>7, <2>1, <2>4, <2>5 DEF Enqueue
<1>8. CASE FlushLock(t)
  BY <1>0, RIOBounds, <1>8 DEF FlushLock
<1>9. CASE FlushCopy(t)
  <2> DEFINE p == Head(m_PendingSendQueue)
  <2>1. m_PendingSendQueue # <<>> /\ FreeSpace > 0
    BY <1>9 DEF FlushCopy
  <2>2. p \in Packets /\ CopyLength \in Nat /\ Len(m_PendingSendQueue) \in Nat \ {0}
    BY <2>1, CopyFacts
  <2>3. /\ p.first \in Nat /\ p.last \in Nat /\ p.Offset \in Nat
        /\ PacketLength(p) \in Int /\ p.Offset + CopyLength \in Nat
    BY <2>2 DEF Packets, PacketLength
  <2>4. [i \in 1..CopyLength |-> p.first + p.Offset + i - 1] \in Seq(Nat)
    <3>1. [i \in 1..CopyLength |-> p.first + p.Offset + i - 1] \in [1..CopyLength -> Nat]
      BY <2>2, <2>3
    <3>2. QED
      BY <2>2, <3>1, FunSeq
  <2>5. sendBuf' \in Seq(Nat)
    BY <1>0, <1>9, <2>4, JoinFacts DEF FlushCopy, CopyLength
  <2>6. m_PendingSendQueue' \in Seq(Packets) /\ m_PendingTotalBytes' \in Int
    <3>1. CASE p.Offset + CopyLength >= PacketLength(p)
      <4>1. /\ m_PendingTotalBytes' = m_PendingTotalBytes - PacketLength(p)
            /\ m_PendingSendQueue' = Tail(m_PendingSendQueue)
        BY <1>9, <3>1 DEF FlushCopy, CopyLength
      <4>2. QED
        BY <1>0, <2>1, <2>3, <4>1, TailFacts
    <3>2. CASE ~(p.Offset + CopyLength >= PacketLength(p))
      <4>1. /\ m_PendingTotalBytes' = m_PendingTotalBytes
            /\ m_PendingSendQueue' =
                  [m_PendingSendQueue EXCEPT ![1].Offset = p.Offset + CopyLength]
        BY <1>9, <3>2 DEF FlushCopy, CopyLength
      <4>2. QED
        BY <1>0, <2>1, <2>3, <4>1, OffsetFacts
    <3>3. QED
      BY <3>1, <3>2
  <2>7. QED
    BY <1>0, <1>9, <2>5, <2>6 DEF FlushCopy
<1>10. CASE FlushPost(t)
  <2>1. sendOut' \in Seq(Int)
    <3>1. ReadableSpan \in Int
      BY ReadableFacts
    <3>2. Append(sendOut, ReadableSpan) \in Seq(Int)
      BY <1>0, <3>1
    <3>3. QED
      BY <1>0, <1>10, <3>2 DEF FlushPost
  <2>2. QED
    BY <1>0, <1>10, <2>1 DEF FlushPost
<1>11. CASE OnDisconnected(t)
  BY <1>0, RIOBounds, <1>11 DEF OnDisconnected
<1>12. CASE RequestRecvCheck(t)
  BY <1>0, RIOBounds, <1>12 DEF RequestRecvCheck
<1>13. CASE RequestRecvPost(t)
  <2>1. WritableSpan \in Int
    BY WritableFacts
  <2>2. recvOut' \in Seq(Int)
    BY <1>0, <1>13, <2>1, AppendFacts DEF RequestRecvPost
  <2>3. QED
    BY <1>0, <1>13, <2>2 DEF RequestRecvPost
<1>14. CASE Dequeue(t)
  BY <1>0, RIOBounds, <1>14 DEF Dequeue
<1>15. CASE BatchDone(t)
  BY <1>0, RIOBounds, <1>15 DEF BatchDone
<1>16. CASE OnFailed(t)
  BY <1>0, RIOBounds, <1>16 DEF OnFailed, Result
<1>17. CASE OnReceived(t)
  BY <1>0, RIOBounds, <1>17 DEF OnReceived, Result
<1>18. CASE ReadPacket(t)
  BY <1>0, RIOBounds, <1>18 DEF ReadPacket
<1>19. CASE ReadStop(t)
  BY <1>0, RIOBounds, <1>19 DEF ReadStop
<1>20. CASE OnSent(t)
  <2>1. Result(t) \in Results
    BY <1>0, <1>20 DEF OnSent, Result, ThreadType
  <2>2. Result(t).n \in Nat /\ Len(sendBuf) \in Nat
    BY <1>0, <2>1 DEF Results
  <2>3. SubSeq(sendBuf, Result(t).n + 1, Len(sendBuf)) \in Seq(Nat)
    BY <1>0, <2>2
  <2>4. QED
    BY <1>0, <1>20, <2>3 DEF OnSent
<1>21. CASE SendMessage(t)
  BY <1>0, RIOBounds, <1>21 DEF SendMessage
<1>22. QED
  BY <1>1, <1>2, <1>3, <1>4, <1>5, <1>6, <1>7, <1>8, <1>9, <1>10, <1>11, <1>12,
     <1>13, <1>14, <1>15, <1>16, <1>17, <1>18, <1>19, <1>20, <1>21 DEF Step, Accept, Send, Receive, Work

(* ... and of the threads' locals. *)
LEMMA StepThreads ==
    ASSUME RioInv, NEW t \in Threads, Step(t) \/ SendMessage(t)
    PROVE  ThreadType'
<1> USE LabelFacts DEF RioInv, RioType, ThreadType, Goto
<1>1. CASE CreateSession(t)
  BY <1>1 DEF CreateSession
<1>2. CASE Initialize(t)
  BY <1>2 DEF Initialize, StartReceiveLoop
<1>3. CASE OnAcceptedAdd(t)
  BY <1>3 DEF OnAcceptedAdd
<1>4. CASE OnAcceptedStart(t)
  BY <1>4 DEF OnAcceptedStart, StartReceiveLoop
<1>5. CASE SendCheck(t)
  BY <1>5 DEF SendCheck, Return
<1>6. CASE Backpressure(t)
  BY <1>6 DEF Backpressure
<1>7. CASE Enqueue(t)
  BY <1>7 DEF Enqueue
<1>8. CASE FlushLock(t)
  BY <1>8 DEF FlushLock
<1>9. CASE FlushCopy(t)
  BY <1>9 DEF FlushCopy
<1>10. CASE FlushPost(t)
  BY <1>10 DEF FlushPost, Return
<1>11. CASE OnDisconnected(t)
  BY <1>11 DEF OnDisconnected, Return
<1>12. CASE RequestRecvCheck(t)
  BY <1>12 DEF RequestRecvCheck, Armed
<1>13. CASE RequestRecvPost(t)
  BY <1>13 DEF RequestRecvPost, Armed
<1>14. CASE Dequeue(t)
  BY <1>14 DEF Dequeue, DataType
<1>15. CASE BatchDone(t)
  BY <1>15 DEF BatchDone
<1>16. CASE OnFailed(t)
  BY <1>16 DEF OnFailed, NextResult
<1>17. CASE OnReceived(t)
  <2>1. t \in Workers
    BY <1>17 DEF OnReceived, At, ThreadInv, OwnOK, Threads, AcceptLabels, SendLabels
  <2>2. QED
    BY <1>17, <2>1 DEF OnReceived, NextResult
<1>18. CASE ReadPacket(t)
  BY <1>18, RIOBounds DEF ReadPacket, CallSend
<1>19. CASE ReadStop(t)
  BY <1>19 DEF ReadStop
<1>20. CASE OnSent(t)
  BY <1>20 DEF OnSent, NextResult
<1>21. CASE SendMessage(t)
  BY <1>21, RIOBounds DEF SendMessage, CallSend
<1>22. QED
  BY <1>1, <1>2, <1>3, <1>4, <1>5, <1>6, <1>7, <1>8, <1>9, <1>10, <1>11, <1>12,
     <1>13, <1>14, <1>15, <1>16, <1>17, <1>18, <1>19, <1>20, <1>21 DEF Step, Accept, Send, Receive, Work

(* What a step of t leaves alone: the locals of the others, and their      *)
(* locks.                                                                  *)
OthersSame(t) ==
    /\ \A u \in Threads \ {t} : pc'[u] = pc[u] /\ size'[u] = size[u] /\ batch'[u] = batch[u]
    /\ m_RecvMutex' \ {t} = m_RecvMutex \ {t}
    /\ m_SendQueueMutex' \ {t} = m_SendQueueMutex \ {t}

(* Every step of a thread does. *)
LEMMA StepOthers ==
    ASSUME RioInv, NEW t \in Threads, Step(t) \/ SendMessage(t)
    PROVE  OthersSame(t)
<1>0. ThreadType /\ OwnOK(t) /\ (\A u, v \in m_RecvMutex : u = v)
        /\ \A u, v \in m_SendQueueMutex : u = v
  BY DEF RioInv, RioType, ThreadInv
<1> USE DEF OthersSame, ThreadType, Goto
<1>1. CASE CreateSession(t)
  BY <1>0, <1>1 DEF CreateSession
<1>2. CASE Initialize(t)
  BY <1>0, <1>2 DEF Initialize, StartReceiveLoop
<1>3. CASE OnAcceptedAdd(t)
  BY <1>0, <1>3 DEF OnAcceptedAdd
<1>4. CASE OnAcceptedStart(t)
  BY <1>0, <1>4 DEF OnAcceptedStart, StartReceiveLoop
<1>5. CASE SendCheck(t)
  BY <1>0, <1>5 DEF SendCheck
<1>6. CASE Backpressure(t)
  BY <1>0, <1>6 DEF Backpressure
<1>7. CASE Enqueue(t)
  BY <1>0, <1>7 DEF Enqueue
<1>8. CASE FlushLock(t)
  BY <1>0, <1>8 DEF FlushLock
<1>9. CASE FlushCopy(t)
  BY <1>0, <1>9 DEF FlushCopy
<1>10. CASE FlushPost(t)
  BY <1>0, <1>10 DEF FlushPost, At, OwnOK
<1>11. CASE OnDisconnected(t)
  BY <1>0, <1>11 DEF OnDisconnected
<1>12. CASE RequestRecvCheck(t)
  BY <1>0, <1>12 DEF RequestRecvCheck
<1>13. CASE RequestRecvPost(t)
  BY <1>0, <1>13 DEF RequestRecvPost
<1>14. CASE Dequeue(t)
  BY <1>0, <1>14 DEF Dequeue
<1>15. CASE BatchDone(t)
  BY <1>0, <1>15 DEF BatchDone
<1>16. CASE OnFailed(t)
  BY <1>0, <1>16 DEF OnFailed, NextResult
<1>17. CASE OnReceived(t)
  BY <1>0, <1>17 DEF OnReceived, NextResult, At, OwnOK
<1>18. CASE ReadPacket(t)
  BY <1>0, <1>18 DEF ReadPacket, CallSend
<1>19. CASE ReadStop(t)
  BY <1>0, <1>19 DEF ReadStop, At, OwnOK
<1>20. CASE OnSent(t)
  BY <1>0, <1>20 DEF OnSent, NextResult
<1>21. CASE SendMessage(t)
  BY <1>0, <1>21 DEF SendMessage, CallSend
<1>22. QED
  BY <1>1, <1>2, <1>3, <1>4, <1>5, <1>6, <1>7, <1>8, <1>9, <1>10, <1>11, <1>12,
     <1>13, <1>14, <1>15, <1>16, <1>17, <1>18, <1>19, <1>20, <1>21 DEF Step, Accept, Send, Receive, Work

(* A step of a thread keeps where it may be and what it owns there. *)
LEMMA StepOwn ==
    ASSUME RioInv, NEW t \in Threads, Step(t) \/ SendMessage(t)
    PROVE  OwnOK(t)'
<1>0. ThreadType /\ OwnOK(t)
  BY DEF RioInv, RioType, ThreadInv
<1> USE DEF OwnOK, ThreadType, Goto, At, AcceptLabels, WorkLabels, SendLabels
<1>1. CASE CreateSession(t)
  BY <1>0, RIOThreads, <1>1 DEF CreateSession
<1>2. CASE Initialize(t)
  BY <1>0, RIOThreads, <1>2 DEF Initialize, StartReceiveLoop
<1>3. CASE OnAcceptedAdd(t)
  BY <1>0, RIOThreads, <1>3 DEF OnAcceptedAdd
<1>4. CASE OnAcceptedStart(t)
  BY <1>0, RIOThreads, <1>4 DEF OnAcceptedStart, StartReceiveLoop
<1>5. CASE SendCheck(t)
  BY <1>0, RIOThreads, <1>5 DEF SendCheck, Return
<1>6. CASE Backpressure(t)
  BY <1>0, RIOThreads, <1>6 DEF Backpressure
<1>7. CASE Enqueue(t)
  BY <1>0, RIOThreads, <1>7 DEF Enqueue
<1>8. CASE FlushLock(t)
  BY <1>0, RIOThreads, <1>8 DEF FlushLock
<1>9. CASE FlushCopy(t)
  BY <1>0, RIOThreads, <1>9 DEF FlushCopy
<1>10. CASE FlushPost(t)
  BY <1>0, RIOThreads, <1>10 DEF FlushPost, Return
<1>11. CASE OnDisconnected(t)
  BY <1>0, RIOThreads, <1>11 DEF OnDisconnected, Return
<1>12. CASE RequestRecvCheck(t)
  BY <1>0, RIOThreads, <1>12 DEF RequestRecvCheck, Armed
<1>13. CASE RequestRecvPost(t)
  BY <1>0, RIOThreads, <1>13 DEF RequestRecvPost, Armed
<1>14. CASE Dequeue(t)
  BY <1>0, RIOThreads, <1>14 DEF Dequeue
<1>15. CASE BatchDone(t)
  BY <1>0, RIOThreads, <1>15 DEF BatchDone
<1>16. CASE OnFailed(t)
  BY <1>0, RIOThreads, <1>16 DEF OnFailed, NextResult
<1>17. CASE OnReceived(t)
  BY <1>0, RIOThreads, <1>17 DEF OnReceived, NextResult
<1>18. CASE ReadPacket(t)
  BY <1>0, RIOThreads, <1>18 DEF ReadPacket, CallSend
<1>19. CASE ReadStop(t)
  BY <1>0, RIOThreads, <1>19 DEF ReadStop
<1>20. CASE OnSent(t)
  BY <1>0, RIOThreads, <1>20 DEF OnSent, NextResult
<1>21. CASE SendMessage(t)
  BY <1>0, RIOThreads, <1>21 DEF SendMessage, CallSend
<1>22. QED
  BY <1>1, <1>2, <1>3, <1>4, <1>5, <1>6, <1>7, <1>8, <1>9, <1>10, <1>11, <1>12,
     <1>13, <1>14, <1>15, <1>16, <1>17, <1>18, <1>19, <1>20, <1>21 DEF Step, Accept, Send, Receive, Work

(* The locks are exclusive, and so every step keeps the threads' part of   *)
(* the invariant.                                                          *)
LEMMA StepThreadInv ==
    ASSUME RioInv, NEW t \in Threads, Step(t) \/ SendMessage(t)
    PROVE  ThreadInv'
<1>1. OthersSame(t) /\ OwnOK(t)'
  BY StepOthers, StepOwn
<1>2. ASSUME NEW u \in Threads PROVE OwnOK(u)'
  <2>1. CASE u = t
    BY <1>1, <2>1
  <2>2. CASE u # t
    BY <1>1, <2>2 DEF OthersSame, OwnOK, RioInv, ThreadInv
  <2>3. QED
    BY <2>1, <2>2
<1>3. \/ m_RecvMutex' \subseteq m_RecvMutex
      \/ m_RecvMutex' = {t}
  BY DEF Step, Accept, Send, Receive, Work, CreateSession, Initialize, OnAcceptedAdd, OnAcceptedStart, SendCheck, Backpressure, Enqueue, FlushLock, FlushCopy, FlushPost, OnDisconnected, RequestRecvCheck, RequestRecvPost, Dequeue, BatchDone, OnFailed, OnReceived, ReadPacket, ReadStop, OnSent, SendMessage, StartReceiveLoop
<1>4. \/ m_SendQueueMutex' \subseteq m_SendQueueMutex
      \/ m_SendQueueMutex' = {t}
  BY DEF Step, Accept, Send, Receive, Work, CreateSession, Initialize, OnAcceptedAdd, OnAcceptedStart, SendCheck, Backpressure, Enqueue, FlushLock, FlushCopy, FlushPost, OnDisconnected, RequestRecvCheck, RequestRecvPost, Dequeue, BatchDone, OnFailed, OnReceived, ReadPacket, ReadStop, OnSent, SendMessage, StartReceiveLoop
<1>5. QED
  BY <1>2, <1>3, <1>4 DEF ThreadInv, RioInv

(* The kernel keeps the types: it completes what was posted, and a         *)
(* completion is a result.                                                 *)
LEMMA KernelType ==
    ASSUME RioInv, KernelReceived \/ KernelSent \/ KernelFailed
    PROVE  RioType' /\ ThreadInv'
<1>0. FlagType /\ DataType /\ ThreadType /\ ThreadInv
  BY DEF RioInv, RioType
<1>1. UNCHANGED <<m_RecvMutex, m_SendQueueMutex, pc, size, batch>>
  BY DEF KernelReceived, KernelSent, KernelFailed
<1>2. ThreadType' /\ ThreadInv'
  BY <1>0, <1>1 DEF ThreadType, ThreadInv, OwnOK
<1>3. FlagType'
  BY <1>0 DEF KernelReceived, KernelSent, KernelFailed, FlagType
<1>4. \A op \in {"recv", "send"}, ok \in BOOLEAN, n \in Nat :
        Complete(op, ok, n) => cq' \in Seq(Results)
  <2>1. \A op \in {"recv", "send"}, ok \in BOOLEAN, n \in Nat :
          [op |-> op, ok |-> ok, n |-> n] \in Results
    BY DEF Results
  <2>2. QED
    BY <1>0, <2>1, AppendFacts DEF Complete, DataType
<1>5. recvOut # <<>> => Head(recvOut) \in Int /\ Tail(recvOut) \in Seq(Int)
  BY <1>0, TailFacts DEF DataType
<1>6. sendOut # <<>> => Head(sendOut) \in Int /\ Tail(sendOut) \in Seq(Int)
  BY <1>0, TailFacts DEF DataType
<1>7. DataType'
  <2>1. CASE KernelReceived
    <3>1. PICK n \in 0..Smaller(Head(recvOut), MaxRecv - received) :
            Complete("recv", TRUE, n) /\ received' = received + n
      BY <2>1 DEF KernelReceived
    <3>2. n \in Nat /\ received' \in Nat
      BY <1>0, <1>5, <2>1, <3>1, RIOBounds DEF KernelReceived, DataType, Smaller
    <3>3. cq' \in Seq(Results)
      BY <1>4, <3>1, <3>2
    <3>4. QED
      BY <1>0, <1>5, <2>1, <3>2, <3>3 DEF KernelReceived, DataType
  <2>2. CASE KernelSent
    <3>1. PICK n \in 1..Head(sendOut) :
            Complete("send", TRUE, n) /\ wire' = wire \o SubSeq(sendBuf, 1, n)
      BY <2>2 DEF KernelSent
    <3>2. n \in 0..Len(sendBuf) /\ n \in Nat
      BY <1>0, <1>6, <2>2, <3>1, TailFacts DEF KernelSent, DataType, RioInv, SendInv
    <3>3. cq' \in Seq(Results) /\ wire' \in Seq(Nat)
      BY <1>0, <1>4, <3>1, <3>2, TakeFacts, JoinFacts DEF DataType
    <3>4. QED
      BY <1>0, <1>6, <2>2, <3>3 DEF KernelSent, DataType
  <2>3. CASE KernelFailed
    <3>1. cq' \in Seq(Results)
      BY <1>4, <2>3 DEF KernelFailed
    <3>2. recvOut' \in Seq(Int) /\ sendOut' \in Seq(Int)
      BY <1>0, <1>5, <1>6, <2>3 DEF KernelFailed, DataType
    <3>3. QED
      BY <1>0, <2>3, <3>1, <3>2 DEF KernelFailed, DataType
  <2>4. QED
    BY <2>1, <2>2, <2>3
<1>8. QED
  BY <1>2, <1>3, <1>7 DEF RioType

(* Nothing happens before the create callback has made the session. *)
LEMMA CreateKeeps ==
    ASSUME RioInv, [Next]_vars
    PROVE  CreateInv'
<1>0. /\ ThreadType /\ ThreadInv /\ CreateInv
  BY DEF RioInv, RioType
<1>1. SUFFICES ASSUME pc'[Acceptor] = "create" PROVE UNCHANGED vars
  BY <1>0 DEF CreateInv, vars
<1>2. CASE UNCHANGED vars
  BY <1>2
<1>3. ASSUME NEW t \in Threads, Step(t) \/ SendMessage(t) PROVE FALSE
  <2>1. OthersSame(t) /\ OwnOK(t)'
    BY <1>3, StepOthers, StepOwn
  <2>2. CASE t = Acceptor
    BY <1>0, <1>1, <1>3, <2>1, <2>2, RIOThreads DEF Step, Accept, Send, Receive,
       Work, CreateSession, Initialize, OnAcceptedAdd, OnAcceptedStart, SendCheck,
       Backpressure, Enqueue, FlushLock, FlushCopy, FlushPost, OnDisconnected,
       RequestRecvCheck, RequestRecvPost, Dequeue, BatchDone, OnFailed, OnReceived,
       ReadPacket, ReadStop, OnSent, SendMessage, StartReceiveLoop, At, Goto,
       ThreadType, ThreadInv, OwnOK, AcceptLabels, Armed
  <2>3. CASE t # Acceptor
    <3>1. pc[Acceptor] = "create"
      BY <1>1, <2>1, <2>3 DEF OthersSame, Threads
    <3>2. pc[t] = "idle" /\ cq = <<>> /\ inMap = FALSE /\ t \in Workers \cup Senders
      BY <1>0, <2>3, <3>1 DEF CreateInv, Threads
    <3>3. QED
      BY <1>3, <3>2 DEF Step, Accept, Send, Receive, Work, CreateSession,
         Initialize, OnAcceptedAdd, OnAcceptedStart, SendCheck, Backpressure,
         Enqueue, FlushLock, FlushCopy, FlushPost, OnDisconnected, RequestRecvCheck,
         RequestRecvPost, Dequeue, BatchDone, OnFailed, OnReceived, ReadPacket,
         ReadStop, OnSent, SendMessage, At
  <2>4. QED
    BY <2>2, <2>3
<1>4. CASE KernelReceived \/ KernelSent \/ KernelFailed
  BY <1>0, <1>1, <1>4 DEF CreateInv, KernelReceived, KernelSent, KernelFailed
<1>5. QED
  BY <1>2, <1>3, <1>4 DEF Next, Threads

-----------------------------------------------------------------------------
(* Results. *)

(* A result is queued. *)
LEMMA InAppend ==
    ASSUME NEW c \in Seq(Results), NEW x \in Results, NEW op
    PROVE  /\ In(Append(c, x), op) <=> In(c, op) \/ x.op = op
           /\ OneIn(c, op) /\ (x.op = op => ~In(c, op)) => OneIn(Append(c, x), op)
           /\ \A r : (\E i \in DOMAIN Append(c, x) : Append(c, x)[i] = r)
                        <=> (\E i \in DOMAIN c : c[i] = r) \/ r = x
<1>1. /\ DOMAIN Append(c, x) = 1..(Len(c) + 1) /\ DOMAIN c = 1..Len(c) /\ Len(c) \in Nat
      /\ Append(c, x)[Len(c) + 1] = x /\ \A i \in 1..Len(c) : Append(c, x)[i] = c[i]
  OBVIOUS
<1>2. \A i \in DOMAIN Append(c, x) : i \in DOMAIN c \/ i = Len(c) + 1
  BY <1>1
<1>3. Len(c) + 1 \in DOMAIN Append(c, x) /\ \A i \in DOMAIN c : i \in DOMAIN Append(c, x)
  BY <1>1
<1>4. \A i \in DOMAIN c : Append(c, x)[i] = c[i]
  BY <1>1
<1>5. QED
  BY <1>1, <1>2, <1>3, <1>4 DEF In, OneIn

(* The first result is taken. *)
LEMMA InTail ==
    ASSUME NEW c \in Seq(Results), c # <<>>, NEW op, OneIn(c, op)
    PROVE  /\ OneIn(Tail(c), op)
           /\ In(Tail(c), op) => In(c, op)
           /\ Head(c).op = op => ~In(Tail(c), op)
           /\ Head(c).op # op => (In(Tail(c), op) <=> In(c, op))
           /\ \A r : r.op # Head(c).op =>
                 ((\E i \in DOMAIN Tail(c) : Tail(c)[i] = r) <=> \E i \in DOMAIN c : c[i] = r)
<1>1. /\ DOMAIN Tail(c) = 1..(Len(c) - 1) /\ DOMAIN c = 1..Len(c) /\ Len(c) \in Nat \ {0}
      /\ Head(c) = c[1] /\ \A i \in 1..(Len(c) - 1) : Tail(c)[i] = c[i + 1]
  OBVIOUS
<1>2. \A i \in DOMAIN Tail(c) : i + 1 \in DOMAIN c /\ Tail(c)[i] = c[i + 1] /\ i + 1 # 1
  BY <1>1
<1>3. \A i \in DOMAIN c : i = 1 \/ (i - 1 \in DOMAIN Tail(c) /\ Tail(c)[i - 1] = c[i])
  BY <1>1
<1>4. 1 \in DOMAIN c
  BY <1>1
<1>5. OneIn(Tail(c), op)
  <2>1. SUFFICES ASSUME NEW i \in DOMAIN Tail(c), NEW j \in DOMAIN Tail(c),
                        Tail(c)[i].op = op, Tail(c)[j].op = op
                 PROVE  i = j
    BY DEF OneIn
  <2>2. i + 1 = j + 1
    BY <1>2, <2>1 DEF OneIn
  <2>3. QED
    BY <1>1, <2>2
<1>6. In(Tail(c), op) => In(c, op)
  BY <1>2 DEF In
<1>7. Head(c).op = op => ~In(Tail(c), op)
  BY <1>1, <1>2, <1>4 DEF In, OneIn
<1>8. Head(c).op # op => (In(Tail(c), op) <=> In(c, op))
  BY <1>1, <1>3, <1>6 DEF In
<1>9. ASSUME NEW r, r.op # Head(c).op
      PROVE  (\E i \in DOMAIN Tail(c) : Tail(c)[i] = r) <=> \E i \in DOMAIN c : c[i] = r
  BY <1>1, <1>2, <1>3, <1>9
<1>10. QED
  BY <1>5, <1>6, <1>7, <1>8, <1>9

(* What a step does to the results of op: nothing, the last one is         *)
(* applied, or x is the first one.                                         *)
Kept(op) ==
    /\ Unique(op)' /\ (Waiting(op)' <=> Waiting(op))
    /\ \A r \in Results : Waits(op, r)' <=> Waits(op, r)
Gone(op) ==
    /\ Unique(op)' /\ ~Waiting(op)'
    /\ \A r \in Results : ~Waits(op, r)'
Added(op, x) ==
    /\ Unique(op)' /\ Waiting(op)'
    /\ \A r \in Results : Waits(op, r)' <=> r = x

(* Results wait at the port or with a worker. *)
LEMMA WaitingIn ==
    ASSUME NEW op
    PROVE  Waiting(op) <=> (In(cq, op) \/ \E t \in Workers : In(batch[t], op))
BY DEF Waiting, In

(* No step that leaves the queue and the batches alone changes them. *)
LEMMA ResultsSame ==
    ASSUME RioInv, UNCHANGED <<cq, batch>>, NEW op \in {"recv", "send"}
    PROVE  Kept(op)
BY DEF Kept, Unique, Waiting, Waits, OneIn, In, RioInv, RecvInv, SendInv

(* A completion of op enters the queue when no result of op waits. *)
LEMMA ResultQueued ==
    ASSUME RioInv, NEW x \in Results, cq' = Append(cq, x), batch' = batch, ~Waiting(x.op),
           NEW op \in {"recv", "send"}
    PROVE  /\ x.op = op => Added(op, x)
           /\ x.op # op => Kept(op)
<1>1. cq \in Seq(Results) /\ Unique(op)
  BY DEF RioInv, RioType, DataType, RecvInv, SendInv
<1>2. /\ In(cq', op) <=> In(cq, op) \/ x.op = op
      /\ OneIn(cq, op) /\ (x.op = op => ~In(cq, op)) => OneIn(cq', op)
      /\ \A r : (\E i \in DOMAIN cq' : cq'[i] = r) <=> (\E i \in DOMAIN cq : cq[i] = r) \/ r = x
  BY <1>1, InAppend
<1>3. Waiting(op)' <=> In(cq', op) \/ \E t \in Workers : In(batch[t], op)
  BY DEF Waiting, In
<1>4. Waiting(op) <=> In(cq, op) \/ \E t \in Workers : In(batch[t], op)
  BY WaitingIn
<1>5. x.op = op => ~In(cq, op) /\ \A t \in Workers : ~In(batch[t], op)
  BY <1>4
<1>6. Unique(op)'
  <2>1. OneIn(cq', op) /\ \A t \in Workers : ~(In(cq', op) /\ In(batch[t], op))
    BY <1>1, <1>2, <1>5 DEF Unique
  <2>2. QED
    BY <1>1, <2>1 DEF Unique, OneIn, In
<1>7. \A r \in Results : Waits(op, r)' <=> (Waits(op, r) \/ (r = x /\ x.op = op))
  BY <1>2 DEF Waits
<1>8. x.op = op => \A r \in Results : ~Waits(op, r)
  BY <1>5 DEF Waits, In
<1>9. x \in Results
  OBVIOUS
<1>10. QED
  BY <1>2, <1>3, <1>4, <1>6, <1>7, <1>8 DEF Added, Kept

(* A worker dequeues all results at once. *)
LEMMA ResultsMoved ==
    ASSUME RioInv, NEW t \in Workers, batch[t] = <<>>,
           batch' = [batch EXCEPT ![t] = cq], cq' = <<>>, NEW op \in {"recv", "send"}
    PROVE  Kept(op)
<1>1. /\ batch \in [Threads -> Seq(Results)] /\ Unique(op) /\ t \in Threads
      /\ \A u \in Workers : u \in Threads
  BY DEF RioInv, RioType, ThreadType, RecvInv, SendInv, Threads
<1>2. batch'[t] = cq /\ \A u \in Workers \ {t} : batch'[u] = batch[u]
  BY <1>1
<1>3. \A i : i \notin DOMAIN batch[t] /\ i \notin DOMAIN cq'
  OBVIOUS
<1>4. ~In(cq', op) /\ ~In(batch[t], op) /\ OneIn(cq', op)
  BY <1>3 DEF In, OneIn
<1>5. \A u \in Workers : OneIn(batch'[u], op)
  BY <1>1, <1>2 DEF Unique
<1>6. \A u, v \in Workers : In(batch'[u], op) /\ In(batch'[v], op) => u = v
  BY <1>1, <1>2, <1>4 DEF Unique
<1>7. Unique(op)'
  BY <1>4, <1>5, <1>6 DEF Unique, In, OneIn
<1>8. Waiting(op)' <=> Waiting(op)
  <2>1. Waiting(op)' <=> In(cq', op) \/ \E u \in Workers : In(batch'[u], op)
    BY DEF Waiting, In
  <2>2. QED
    BY <1>2, <1>4, <2>1, WaitingIn
<1>9. \A r \in Results : Waits(op, r)' <=> Waits(op, r)
  BY <1>2, <1>3 DEF Waits
<1>10. QED
  BY <1>7, <1>8, <1>9 DEF Kept

(* A worker applies the next result of its batch. *)
LEMMA ResultTaken ==
    ASSUME RioInv, NEW t \in Workers, batch[t] # <<>>, NextResult(t), cq' = cq,
           NEW op \in {"recv", "send"}
    PROVE  /\ Result(t) \in Results /\ Waits(Result(t).op, Result(t))
           /\ Result(t).op = op => Gone(op)
           /\ Result(t).op # op => Kept(op)
<1>1. /\ batch \in [Threads -> Seq(Results)] /\ Unique(op) /\ t \in Threads
      /\ batch[t] \in Seq(Results) /\ \A u \in Workers : u \in Threads
  BY DEF RioInv, RioType, ThreadType, RecvInv, SendInv, Threads
<1>2. batch'[t] = Tail(batch[t]) /\ \A u \in Workers \ {t} : batch'[u] = batch[u]
  BY <1>1 DEF NextResult
<1>3. Result(t) \in Results /\ Result(t) = batch[t][1] /\ 1 \in DOMAIN batch[t]
  BY <1>1 DEF Result
<1>4. Waits(Result(t).op, Result(t))
  BY <1>3 DEF Waits
<1>5. OneIn(batch[t], op)
  BY <1>1 DEF Unique
<1>6. /\ OneIn(batch'[t], op)
      /\ In(batch'[t], op) => In(batch[t], op)
      /\ Result(t).op = op => ~In(batch'[t], op)
      /\ Result(t).op # op => (In(batch'[t], op) <=> In(batch[t], op))
      /\ \A r : r.op # Result(t).op =>
            ((\E i \in DOMAIN batch'[t] : batch'[t][i] = r)
               <=> \E i \in DOMAIN batch[t] : batch[t][i] = r)
  BY <1>1, <1>2, <1>5, InTail DEF Result
<1>7. \A u \in Workers : OneIn(batch'[u], op) /\ (In(batch'[u], op) => In(batch[u], op))
  BY <1>1, <1>2, <1>6 DEF Unique
<1>8. Unique(op)'
  <2>1. OneIn(cq', op) /\ \A u \in Workers : ~(In(cq', op) /\ In(batch'[u], op))
    BY <1>1, <1>7 DEF Unique
  <2>2. \A u, v \in Workers : In(batch'[u], op) /\ In(batch'[v], op) => u = v
    BY <1>1, <1>7 DEF Unique
  <2>3. QED
    BY <1>7, <2>1, <2>2 DEF Unique, In, OneIn
<1>9. Waiting(op)' <=> In(cq', op) \/ \E u \in Workers : In(batch'[u], op)
  BY DEF Waiting, In
<1>10. ASSUME Result(t).op = op PROVE Gone(op)
  <2>1. In(batch[t], op)
    BY <1>3, <1>10 DEF In
  <2>2. ~In(cq, op) /\ \A u \in Workers : ~In(batch'[u], op)
    BY <1>1, <1>2, <1>6, <1>10, <2>1 DEF Unique
  <2>3. ~Waiting(op)'
    BY <1>9, <2>2
  <2>4. \A r \in Results : ~Waits(op, r)'
    BY <2>2 DEF Waits, In
  <2>5. QED
    BY <1>8, <2>3, <2>4 DEF Gone
<1>11. ASSUME Result(t).op # op PROVE Kept(op)
  <2>1. Waiting(op)' <=> Waiting(op)
    BY <1>2, <1>6, <1>9, <1>11, WaitingIn
  <2>2. ASSUME NEW r \in Results PROVE Waits(op, r)' <=> Waits(op, r)
    <3> DEFINE Has(b, u) == \E i \in DOMAIN b[u] : b[u][i] = r
    <3>1. r.op = op => (Has(batch', t) <=> Has(batch, t))
      BY <1>6, <1>11
    <3>2. \A u \in Workers \ {t} : Has(batch', u) <=> Has(batch, u)
      BY <1>2
    <3>3. r.op = op => \A u \in Workers : Has(batch', u) <=> Has(batch, u)
      <4> HIDE DEF Has
      <4>1. QED
        BY <3>1, <3>2
    <3>4. r.op = op => ((\E u \in Workers : Has(batch', u)) <=> \E u \in Workers : Has(batch, u))
      <4> HIDE DEF Has
      <4>1. QED
        BY <3>3
    <3>5. QED
      BY <3>4 DEF Waits
  <2>3. QED
    BY <1>8, <2>1, <2>2 DEF Kept
<1>12. QED
  BY <1>3, <1>4, <1>10, <1>11

(* A waiting result of op is one that waits. *)
LEMMA WaitsWaiting ==
    ASSUME NEW op, NEW r
    PROVE  (Waits(op, r) => Waiting(op)) /\ (Waits(op, r)' => Waiting(op)')
BY DEF Waits, Waiting

(* Who is where: only workers handle results, and only a worker or a       *)
(* sender sends.                                                           *)
LEMMA WhoIsWhere ==
    ASSUME ThreadInv, NEW t \in Threads
    PROVE  /\ pc[t] \in {"next", "frames"} => t \in Workers
           /\ pc[t] \in {"idle"} \cup SendLabels => t # Acceptor
           /\ pc[t] \in {"create", "init", "add", "start"} => t = Acceptor
           /\ pc[t] \in {"arm", "post"} => t = Acceptor \/ t \in m_RecvMutex
           /\ pc[t] = "frames" => t \in m_RecvMutex
BY RIOThreads DEF ThreadInv, OwnOK, Threads, AcceptLabels, WorkLabels, SendLabels

(* What a step of a thread does to the results. *)
LEMMA StepResults ==
    ASSUME RioInv, NEW t \in Threads, Step(t) \/ SendMessage(t), NEW op \in {"recv", "send"}
    PROVE  /\ OnFailed(t) \/ OnReceived(t) \/ OnSent(t) =>
                 /\ t \in Workers /\ Result(t) \in Results
                 /\ Waits(Result(t).op, Result(t))
                 /\ Result(t).op = op => Gone(op)
                 /\ Result(t).op # op => Kept(op)
           /\ ~(OnFailed(t) \/ OnReceived(t) \/ OnSent(t)) => Kept(op)
<1>1. ThreadInv
  BY DEF RioInv
<1>2. CASE OnFailed(t) \/ OnReceived(t) \/ OnSent(t)
  <2>1. pc[t] = "next" /\ batch[t] # <<>> /\ NextResult(t) /\ cq' = cq
    BY <1>2 DEF OnFailed, OnReceived, OnSent, At
  <2>2. t \in Workers
    BY <1>1, <2>1, WhoIsWhere
  <2>3. QED
    BY <1>2, <2>1, <2>2, ResultTaken
<1>3. CASE Dequeue(t)
  <2>1. t \in Workers /\ batch[t] = <<>>
    BY <1>1, <1>3 DEF Dequeue, At, ThreadInv, OwnOK
  <2>2. batch' = [batch EXCEPT ![t] = cq] /\ cq' = <<>>
    BY <1>3 DEF Dequeue
  <2>3. Kept(op)
    BY <2>1, <2>2, ResultsMoved
  <2>4. ~(OnFailed(t) \/ OnReceived(t) \/ OnSent(t))
    BY <1>3 DEF Dequeue, OnFailed, OnReceived, OnSent, At
  <2>5. QED
    BY <2>3, <2>4
<1>4. CASE ~(OnFailed(t) \/ OnReceived(t) \/ OnSent(t) \/ Dequeue(t))
  <2>1. UNCHANGED <<cq, batch>>
    BY <1>4 DEF Step, Accept, Send, Receive, Work, CreateSession, Initialize,
       OnAcceptedAdd, OnAcceptedStart, SendCheck, Backpressure, Enqueue, FlushLock,
       FlushCopy, FlushPost, OnDisconnected, RequestRecvCheck, RequestRecvPost,
       BatchDone, ReadPacket, ReadStop, SendMessage, StartReceiveLoop
  <2>2. QED
    BY <1>4, <2>1, ResultsSame
<1>5. QED
  BY <1>2, <1>3, <1>4

(* The kernel completes the request of op, and no result of op waited. *)
LEMMA KernelResults ==
    ASSUME RioInv, KernelReceived \/ KernelSent \/ KernelFailed
    PROVE  \/ /\ recvOut # <<>> /\ recvOut' = Tail(recvOut) /\ sendOut' = sendOut /\ wire' = wire
              /\ Kept("send")
              /\ \E x \in Results : Added("recv", x) /\ x.n \in 0..Head(recvOut)
           \/ /\ sendOut # <<>> /\ sendOut' = Tail(sendOut) /\ recvOut' = recvOut
              /\ Kept("recv")
              /\ \E x \in Results :
                    /\ Added("send", x)
                    /\ x.ok = TRUE => x.n \in 1..Head(sendOut)
                    /\ x.ok = FALSE => x.n = 0
                    /\ wire' = wire \o SubSeq(sendBuf, 1, x.n)
<1>0. /\ recvOut # <<>> => ~Waiting("recv") /\ Head(recvOut) \in Nat
      /\ sendOut # <<>> => ~Waiting("send") /\ Head(sendOut) \in Nat
      /\ received \in Nat /\ batch' = batch /\ wire \in Seq(Nat) /\ sendBuf \in Seq(Nat)
  <2>1. DataType /\ RecvInv /\ SendInv
    BY DEF RioInv, RioType
  <2>2. batch' = batch
    BY DEF KernelReceived, KernelSent, KernelFailed
  <2>3. recvOut # <<>> => Head(recvOut) = recvOut[1]
    BY <2>1, TailFacts DEF DataType
  <2>4. sendOut # <<>> => Head(sendOut) = sendOut[1]
    BY <2>1, TailFacts DEF DataType
  <2>5. QED
    BY <2>1, <2>2, <2>3, <2>4 DEF DataType, RecvInv, SendInv
<1>1. \A n \in Nat, ok \in BOOLEAN, op \in {"recv", "send"} :
        Complete(op, ok, n) /\ ~Waiting(op) =>
          \E x \in Results : /\ x.ok = ok /\ x.n = n /\ Added(op, x)
                            /\ \A o \in {"recv", "send"} : o # op => Kept(o)
  <2>1. SUFFICES ASSUME NEW n \in Nat, NEW ok \in BOOLEAN, NEW op \in {"recv", "send"},
                        Complete(op, ok, n), ~Waiting(op)
                 PROVE  \E x \in Results : /\ x.ok = ok /\ x.n = n /\ Added(op, x)
                            /\ \A o \in {"recv", "send"} : o # op => Kept(o)
    OBVIOUS
  <2>2. PICK x \in Results : x = [op |-> op, ok |-> ok, n |-> n]
    BY DEF Results
  <2>3. x.op = op /\ x.ok = ok /\ x.n = n /\ cq' = Append(cq, x)
    BY <2>1, <2>2 DEF Complete
  <2>4. Added(op, x) /\ \A o \in {"recv", "send"} : o # op => Kept(o)
    BY <1>0, <2>1, <2>3, ResultQueued
  <2>5. QED
    BY <2>3, <2>4
<1>2. wire \o SubSeq(sendBuf, 1, 0) = wire
  BY <1>0
<1>3. CASE KernelReceived
  <2>1. PICK n \in 0..Smaller(Head(recvOut), MaxRecv - received) : Complete("recv", TRUE, n)
    BY <1>3 DEF KernelReceived
  <2>2. recvOut # <<>> /\ recvOut' = Tail(recvOut) /\ sendOut' = sendOut /\ wire' = wire
    BY <1>3 DEF KernelReceived
  <2>3. n \in Nat /\ n \in 0..Head(recvOut)
    BY <1>0, <2>1, <2>2, RIOBounds DEF Smaller
  <2>4. PICK x \in Results : x.n = n /\ Added("recv", x) /\ Kept("send")
    BY <1>0, <1>1, <2>1, <2>2, <2>3
  <2>5. QED
    BY <2>2, <2>3, <2>4
<1>4. CASE KernelSent
  <2>1. PICK n \in 1..Head(sendOut) :
          Complete("send", TRUE, n) /\ wire' = wire \o SubSeq(sendBuf, 1, n)
    BY <1>4 DEF KernelSent
  <2>2. sendOut # <<>> /\ sendOut' = Tail(sendOut) /\ recvOut' = recvOut
    BY <1>4 DEF KernelSent
  <2>3. n \in Nat
    BY <1>0, <2>1, <2>2
  <2>4. QED
    BY <1>0, <1>1, <2>1, <2>2, <2>3
<1>5. CASE KernelFailed
  <2>1. wire' = wire
    BY <1>5 DEF KernelFailed
  <2>2. CASE recvOut # <<>> /\ Complete("recv", FALSE, 0) /\ recvOut' = Tail(recvOut) /\ sendOut' = sendOut
    <3>1. PICK x \in Results : x.n = 0 /\ Added("recv", x) /\ Kept("send")
      BY <1>0, <1>1, <2>2
    <3>2. x.n \in 0..Head(recvOut)
      BY <1>0, <2>2, <3>1
    <3>3. QED
      BY <2>1, <2>2, <3>1, <3>2
  <2>3. CASE sendOut # <<>> /\ Complete("send", FALSE, 0) /\ sendOut' = Tail(sendOut) /\ recvOut' = recvOut
    <3>1. PICK x \in Results : x.ok = FALSE /\ x.n = 0 /\ Added("send", x) /\ Kept("recv")
      BY <1>0, <1>1, <2>3
    <3>2. wire' = wire \o SubSeq(sendBuf, 1, x.n)
      BY <1>2, <2>1, <3>1
    <3>3. QED
      BY <2>3, <3>1, <3>2
  <2>4. QED
    BY <1>5, <2>2, <2>3 DEF KernelFailed
<1>6. QED
  BY <1>3, <1>4, <1>5

-----------------------------------------------------------------------------
(* The receive side. *)

(* What the steps of the send side leave alone. *)
RecvSame ==
    /\ UNCHANGED <<recvOut, m_RecvMutex, recvSize, recvHead, recvCap, m_bReceiveLoopStarted>>
    /\ pc'[Acceptor] = pc[Acceptor]

(* Nothing else of the receive side changes when a receive result is      *)
(* applied, or when none is.                                               *)
LEMMA RecvFrame ==
    ASSUME RecvInv, RecvSame, Kept("recv") \/ Gone("recv")
    PROVE  RecvInv'
<1>1. Unique("recv")' /\ (Waiting("recv")' => Waiting("recv"))
  BY DEF Kept, Gone
<1>2. \A r \in Results : Waits("recv", r)' => Waits("recv", r)
  BY DEF Kept, Gone
<1>3. QED
  BY <1>1, <1>2 DEF RecvInv, RecvSame, RecvBusy, Arming

(* A step of a thread keeps the receive side: only the first caller of     *)
(* StartReceiveLoop and the worker that holds m_RecvMutex post a receive.  *)
LEMMA StepRecv ==
    ASSUME RioInv, NEW t \in Threads, Step(t) \/ SendMessage(t)
    PROVE  RecvInv'
<1>0. /\ RecvInv /\ ThreadInv /\ CreateInv /\ DataType /\ ThreadType
      /\ Acceptor \in Threads
  BY DEF RioInv, RioType, Threads
<1>a. ~(OnFailed(t) \/ OnReceived(t) \/ OnSent(t)) => Kept("recv")
  BY StepResults
<1>b. ASSUME UNCHANGED <<recvOut, recvSize, recvHead, recvCap>>, Kept("recv")
      PROVE  /\ Unique("recv")' /\ (Waiting("recv")' <=> Waiting("recv"))
             /\ recvOut' # <<>> => ~Waiting("recv")'
             /\ Len(recvOut') <= 1
             /\ recvSize' \in 0..recvCap' /\ recvHead' \in 0..RecvSlice - 1
             /\ recvOut' # <<>> => recvOut'[1] \in 1..(recvCap' - recvSize')
             /\ \A r \in Results : Waits("recv", r)' => r.n <= recvCap' - recvSize'
  BY <1>0, <1>b DEF Kept, RecvInv
<1>1. CASE CreateSession(t)
  <2>1. /\ pc[Acceptor] = "create" /\ m_bReceiveLoopStarted' = FALSE /\ recvOut' = <<>>
        /\ recvSize' = 0 /\ recvHead' = recvHead /\ m_RecvMutex' = m_RecvMutex
        /\ pc'[Acceptor] = "init" /\ Kept("recv")
    <3>1. pc[t] = "create" /\ t = Acceptor
      BY <1>0, <1>1, WhoIsWhere DEF CreateSession, At
    <3>2. ~(OnFailed(t) \/ OnReceived(t) \/ OnSent(t))
      BY <3>1 DEF OnFailed, OnReceived, OnSent, At
    <3>3. QED
      BY <1>0, <1>1, <1>a, <3>1, <3>2 DEF CreateSession, At, Goto, CreateInv, ThreadType
  <2>2. recvCap' \in Nat
    BY <1>1, RIOBounds DEF CreateSession, AllocateSlice
  <2>3. m_RecvMutex = {} /\ ~Waiting("recv")
    BY <1>0, <2>1 DEF RecvInv, RecvBusy
  <2>4. \A r \in Results : ~Waits("recv", r)'
    BY <2>1, <2>3, WaitsWaiting DEF Kept
  <2>5. Unique("recv")' /\ ~Waiting("recv")' /\ Len(recvOut') <= 1
    BY <2>1, <2>3 DEF Kept
  <2>6. QED
    BY <1>0, <2>1, <2>2, <2>3, <2>4, <2>5 DEF RecvInv, RecvBusy, Arming
<1>2. CASE Initialize(t) \/ OnAcceptedStart(t)
  <2>1. /\ t = Acceptor /\ pc[Acceptor] \in {"init", "start"}
        /\ UNCHANGED <<recvOut, recvSize, recvHead, recvCap, m_RecvMutex>> /\ Kept("recv")
    <3>1. pc[t] \in {"init", "start"} /\ t = Acceptor
      BY <1>0, <1>2, WhoIsWhere DEF Initialize, OnAcceptedStart, At
    <3>2. ~(OnFailed(t) \/ OnReceived(t) \/ OnSent(t))
      BY <3>1 DEF OnFailed, OnReceived, OnSent, At
    <3>3. QED
      BY <1>2, <1>a, <3>1, <3>2 DEF Initialize, OnAcceptedStart, StartReceiveLoop
  <2>2. \/ /\ m_bReceiveLoopStarted' = TRUE
           /\ pc'[Acceptor] \in (IF m_bReceiveLoopStarted THEN {"add", "done"} ELSE {"arm"})
        \/ m_bReceiveLoopStarted' = m_bReceiveLoopStarted /\ pc'[Acceptor] = "add"
    BY <1>0, <1>2, <2>1 DEF Initialize, OnAcceptedStart, StartReceiveLoop, Goto, ThreadType
  <2>3. m_bReceiveLoopStarted \in BOOLEAN
    BY DEF RioInv, RioType, FlagType
  <2>4. QED
    BY <1>0, <1>b, <2>1, <2>2, <2>3 DEF RecvInv, RecvBusy, Arming
<1>3. CASE OnAcceptedAdd(t)
  <2>1. pc[t] = "add" /\ t = Acceptor
    BY <1>0, <1>3, WhoIsWhere DEF OnAcceptedAdd, At
  <2>2. ~(OnFailed(t) \/ OnReceived(t) \/ OnSent(t))
    BY <2>1 DEF OnFailed, OnReceived, OnSent, At
  <2>3. /\ UNCHANGED <<recvOut, recvSize, recvHead, recvCap, m_RecvMutex,
                        m_bReceiveLoopStarted>>
        /\ pc'[Acceptor] = "start" /\ Kept("recv")
    BY <1>0, <1>3, <1>a, <2>1, <2>2 DEF OnAcceptedAdd, Goto, ThreadType
  <2>4. QED
    BY <1>0, <1>b, <2>1, <2>3 DEF RecvInv, RecvBusy, Arming
<1>4. CASE RequestRecvCheck(t)
  <2>1. pc[t] = "arm" /\ (t = Acceptor \/ t \in m_RecvMutex)
    BY <1>0, <1>4, WhoIsWhere DEF RequestRecvCheck, At
  <2>2. ~(OnFailed(t) \/ OnReceived(t) \/ OnSent(t))
    BY <2>1 DEF OnFailed, OnReceived, OnSent, At
  <2>3. /\ UNCHANGED <<recvOut, recvSize, recvHead, recvCap, m_bReceiveLoopStarted>>
        /\ Kept("recv") /\ m_RecvMutex' \subseteq m_RecvMutex
        /\ t # Acceptor => pc'[Acceptor] = pc[Acceptor]
        /\ t = Acceptor => pc'[Acceptor] \in {"post", "add", "done"}
    BY <1>0, <1>4, <1>a, <2>2, RIOThreads DEF RequestRecvCheck, Goto, ThreadType, Armed
  <2>4. t = Acceptor => Arming
    BY <2>1 DEF Arming
  <2>5. QED
    BY <1>0, <1>b, <2>1, <2>3, <2>4 DEF RecvInv, RecvBusy, Arming
<1>5. CASE RequestRecvPost(t)
  <2>1. pc[t] = "post" /\ (t = Acceptor \/ t \in m_RecvMutex)
    BY <1>0, <1>5, WhoIsWhere DEF RequestRecvPost, At
  <2>2. ~(OnFailed(t) \/ OnReceived(t) \/ OnSent(t))
    BY <2>1 DEF OnFailed, OnReceived, OnSent, At
  <2>3. recvOut = <<>> /\ ~Waiting("recv") /\ m_bReceiveLoopStarted # FALSE
    BY <1>0, <2>1 DEF RecvInv, RecvBusy, Arming
  <2>4. m_RecvMutex' = {} /\ ~Arming'
    <3>1. CASE t = Acceptor
      BY <1>0, <1>5, <2>1, <3>1, RIOThreads
         DEF RequestRecvPost, RecvInv, Arming, Goto, Armed, ThreadType
    <3>2. CASE t # Acceptor
      <4>1. t \in m_RecvMutex /\ m_RecvMutex' = m_RecvMutex \ {t}
        BY <1>5, <2>1, <3>2 DEF RequestRecvPost
      <4>2. m_RecvMutex' = {} /\ pc'[Acceptor] = pc[Acceptor]
        BY <1>0, <1>5, <3>2, <4>1 DEF RequestRecvPost, ThreadInv, Goto, ThreadType
      <4>3. QED
        BY <1>0, <4>1, <4>2 DEF RecvInv, Arming
    <3>3. QED
      BY <3>1, <3>2
  <2>5. /\ UNCHANGED <<recvSize, recvHead, recvCap, m_bReceiveLoopStarted>> /\ Kept("recv")
        /\ recvOut' \in {<<>>, <<WritableSpan>>} /\ (recvOut' # <<>> => WritableSpan > 0)
    BY <1>5, <1>a, <2>2, <2>3 DEF RequestRecvPost
  <2>6. WritableSpan \in 0..(recvCap - recvSize)
    BY WritableFacts
  <2>7. pc'[Acceptor] \notin {"create", "init"}
    <3>1. pc[Acceptor] \notin {"create", "init"}
      BY <1>0, <2>3 DEF RecvInv
    <3>2. QED
      BY <1>0, <1>5, <3>1 DEF RequestRecvPost, Goto, Armed, ThreadType
  <2>8. /\ Unique("recv")' /\ ~Waiting("recv")' /\ \A r \in Results : ~Waits("recv", r)'
    BY <2>3, <2>5, WaitsWaiting DEF Kept
  <2>9. Len(recvOut') <= 1 /\ (recvOut' # <<>> => recvOut'[1] = WritableSpan)
    <3>1. CASE recvOut' = <<>>
      BY <3>1
    <3>2. CASE recvOut' = <<WritableSpan>>
      BY <2>6, <3>2
    <3>3. QED
      BY <2>5, <3>1, <3>2
  <2>10. /\ recvSize' \in 0..recvCap' /\ recvHead' \in 0..RecvSlice - 1
         /\ recvOut' # <<>> => recvOut'[1] \in 1..(recvCap' - recvSize')
    BY <1>0, <2>5, <2>6, <2>9 DEF RecvInv
  <2>11. /\ Unique("recv")' /\ Len(recvOut') <= 1 /\ m_RecvMutex' = {} /\ ~Arming'
         /\ ~Waiting("recv")' /\ m_bReceiveLoopStarted' # FALSE
         /\ \A r \in Results : ~Waits("recv", r)'
    BY <2>3, <2>4, <2>5, <2>8, <2>9
  <2>12. QED
    BY <2>7, <2>10, <2>11 DEF RecvInv
<1>6. CASE OnReceived(t)
  <2>1. /\ pc[t] = "next" /\ t \in Workers /\ Result(t) \in Results
        /\ Waits("recv", Result(t)) /\ Gone("recv")
    BY <1>6, StepResults DEF OnReceived, At
  <2>2. /\ RecvBusy /\ Waiting("recv") /\ recvOut = <<>> /\ ~Arming
        /\ m_bReceiveLoopStarted # FALSE
    BY <1>0, <2>1, WaitsWaiting DEF RecvInv, RecvBusy
  <2>3. /\ UNCHANGED <<recvOut, recvHead, recvCap, m_bReceiveLoopStarted>>
        /\ recvSize' = recvSize + Result(t).n /\ pc'[Acceptor] = pc[Acceptor]
    BY <1>0, <1>6, <2>1, RIOThreads DEF OnReceived, Goto, ThreadType
  <2>4. recvSize' \in 0..recvCap
    <3>1. Result(t).n \in Nat /\ Result(t).n <= recvCap - recvSize /\ recvCap \in Nat
      BY <1>0, <2>1, RIOBounds DEF RecvInv, Results, DataType
    <3>2. QED
      BY <1>0, <2>3, <3>1 DEF RecvInv
  <2>5. QED
    BY <1>0, <2>1, <2>2, <2>3, <2>4 DEF RecvInv, RecvBusy, Arming, Gone
<1>7. CASE ReadPacket(t)
  <2>1. pc[t] = "frames" /\ t \in m_RecvMutex /\ t # Acceptor
    BY <1>0, <1>7, WhoIsWhere, RIOThreads DEF ReadPacket, At, ThreadType
  <2>2. ~(OnFailed(t) \/ OnReceived(t) \/ OnSent(t))
    BY <2>1 DEF OnFailed, OnReceived, OnSent, At
  <2>3. /\ ~RecvBusy /\ ~Arming /\ m_bReceiveLoopStarted # FALSE
    BY <1>0, <2>1 DEF RecvInv
  <2>4. /\ UNCHANGED <<recvOut, recvCap, m_bReceiveLoopStarted, m_RecvMutex>>
        /\ pc'[Acceptor] = pc[Acceptor] /\ Kept("recv")
    BY <1>0, <1>7, <1>a, <2>1, <2>2 DEF ReadPacket, CallSend, Goto, ThreadType
  <2>5. recvSize' \in 0..recvCap /\ recvHead' \in 0..RecvSlice - 1
    <3>1. frame \in Nat /\ frame > 0 /\ frame <= recvSize /\ recvSize \in 0..recvCap
          /\ recvHead \in Nat /\ RecvSlice \in Nat
      BY <1>0, <1>7, RIOBounds DEF ReadPacket, RecvInv, DataType
    <3>2. recvCap = RecvSlice
      BY <1>0, <3>1 DEF DataType
    <3>3. recvSize' = recvSize - frame /\ recvHead' = (recvHead + frame) % recvCap
      BY <1>7 DEF ReadPacket
    <3>4. QED
      BY <3>1, <3>2, <3>3
  <2>6. Unique("recv")' /\ ~Waiting("recv")' /\ \A r \in Results : ~Waits("recv", r)'
    BY <2>3, <2>4, WaitsWaiting DEF Kept, RecvBusy
  <2>7. QED
    BY <1>0, <2>3, <2>4, <2>5, <2>6 DEF RecvInv, RecvBusy, Arming
<1>8. CASE \/ SendCheck(t) \/ Backpressure(t) \/ Enqueue(t) \/ FlushLock(t) \/ FlushCopy(t)
          \/ FlushPost(t) \/ OnDisconnected(t) \/ Dequeue(t) \/ BatchDone(t)
          \/ ReadStop(t) \/ OnSent(t) \/ SendMessage(t) \/ OnFailed(t)
  <2>1. pc[t] \in {"idle", "next", "frames"} \cup SendLabels
    BY <1>8 DEF SendCheck, Backpressure, Enqueue, FlushLock, FlushCopy, FlushPost,
             OnDisconnected, Dequeue, BatchDone, ReadStop, OnSent, SendMessage, OnFailed, At, SendLabels
  <2>2. t # Acceptor
    BY <1>0, <2>1, WhoIsWhere, RIOThreads
  <2>3. RecvSame
    <3>1. pc'[Acceptor] = pc[Acceptor]
      BY <1>0, <2>2, StepOthers DEF OthersSame
    <3>2. QED
      BY <1>8, <3>1 DEF RecvSame, SendCheck, Backpressure, Enqueue, FlushLock, FlushCopy, FlushPost,
             OnDisconnected, Dequeue, BatchDone, ReadStop, OnSent, SendMessage, OnFailed
  <2>4. Kept("recv") \/ Gone("recv")
    BY StepResults
  <2>5. QED
    BY <1>0, <2>3, <2>4, RecvFrame
<1>9. QED
  BY <1>1, <1>2, <1>3, <1>4, <1>5, <1>6, <1>7, <1>8 DEF Step, Accept, Send, Receive, Work

(* The kernel completes the one receive. *)
LEMMA KernelRecv ==
    ASSUME RioInv, KernelReceived \/ KernelSent \/ KernelFailed
    PROVE  RecvInv'
<1>0. RecvInv /\ recvOut \in Seq(Int)
  BY DEF RioInv, RioType, DataType
<1>1. /\ UNCHANGED <<m_RecvMutex, recvSize, recvHead, recvCap, m_bReceiveLoopStarted, pc>>
  BY DEF KernelReceived, KernelSent, KernelFailed
<1>2. CASE recvOut # <<>> /\ recvOut' = Tail(recvOut)
             /\ \E x \in Results : Added("recv", x) /\ x.n \in 0..Head(recvOut)
  <2>1. PICK x \in Results : Added("recv", x) /\ x.n \in 0..Head(recvOut)
    BY <1>2
  <2>2. recvOut' = <<>> /\ Head(recvOut) = recvOut[1] /\ Len(recvOut') <= 1
    BY <1>0, <1>2 DEF RecvInv
  <2>3. recvOut[1] \in Int /\ recvOut[1] <= recvCap - recvSize /\ RecvBusy
    BY <1>0, <1>2 DEF RecvInv, RecvBusy
  <2>4. x.n <= recvCap - recvSize
    <3>1. recvCap - recvSize \in Int
      BY RIOBounds DEF RioInv, RioType, DataType
    <3>2. QED
      BY <2>1, <2>2, <2>3, <3>1
  <2>5. /\ Unique("recv")' /\ Waiting("recv")'
        /\ \A r \in Results : Waits("recv", r)' => r.n <= recvCap' - recvSize'
    BY <1>1, <2>1, <2>4 DEF Added
  <2>6. QED
    BY <1>0, <1>1, <2>2, <2>3, <2>5 DEF RecvInv, RecvBusy, Arming
<1>3. CASE recvOut' = recvOut /\ Kept("recv")
  BY <1>0, <1>1, <1>3, RecvFrame DEF RecvSame
<1>4. QED
  BY <1>2, <1>3, KernelResults

-----------------------------------------------------------------------------
(* The send side. *)

(* What most steps leave alone. *)
SendSame ==
    UNCHANGED <<sendOut, m_bSendInProgress, sendBuf, sendHead, sendCap,
                m_PendingSendQueue, m_PendingTotalBytes, accepted, wire>>

(* If a step neither moves the wire nor the results, it keeps the stream   *)
(* when it keeps it at every place the ring may start from.                *)
LEMMA StreamStep ==
    ASSUME StreamInv, DataType, wire' = wire, Kept("send"),
           \A base \in Int : StreamAt(base) => StreamAt(base)'
    PROVE  StreamInv'
<1>1. /\ Len(wire) \in Int /\ \A r \in Results : Len(wire) - r.n \in Int
  BY DEF DataType, Results
<1>2. ~Waiting("send")' => StreamAt(Len(wire))'
  <2>1. ASSUME ~Waiting("send")' PROVE StreamAt(Len(wire))'
    <3>1. StreamAt(Len(wire))
      BY <2>1 DEF StreamInv, Kept
    <3>2. PICK base \in Int : base = Len(wire) /\ base = Len(wire')
      BY <1>1
    <3>3. StreamAt(base)'
      BY <3>1, <3>2
    <3>4. QED
      BY <3>2, <3>3 DEF StreamAt
  <2>2. QED
    BY <2>1
<1>3. ASSUME NEW r \in Results, Waits("send", r)' PROVE StreamAt(Len(wire) - r.n)'
  <2>1. StreamAt(Len(wire) - r.n)
    BY <1>3 DEF StreamInv, Kept
  <2>2. PICK base \in Int : base = Len(wire) - r.n /\ base = Len(wire') - r.n
    BY <1>1
  <2>3. StreamAt(base)'
    BY <2>1, <2>2
  <2>4. QED
    BY <2>2, <2>3 DEF StreamAt
<1>4. QED
  BY <1>2, <1>3 DEF StreamInv

(* Nothing of the send side changes. *)
LEMMA SendFrame ==
    ASSUME RioInv, SendSame, Kept("send")
    PROVE  SendInv' /\ QueueInv' /\ StreamInv'
<1>1. SendInv'
  BY DEF RioInv, SendInv, SendSame, Kept
<1>2. QueueInv'
  BY DEF RioInv, QueueInv, SendSame
<1>3. StreamInv'
  <2>1. \A base \in Int : StreamAt(base) => StreamAt(base)'
    BY DEF StreamAt, SendSame
  <2>2. QED
    BY <2>1, StreamStep DEF RioInv, RioType, SendSame
<1>4. QED
  BY <1>1, <1>2, <1>3

(* More of the stream follows what is in the ring. *)
LEMMA StreamPush ==
    ASSUME NEW b \in Seq(Nat), NEW u \in Seq(Nat), NEW base \in Int,
           \A i \in 1..Len(b) : b[i] = base + i,
           \A i \in 1..Len(u) : u[i] = base + Len(b) + i
    PROVE  \A i \in 1..Len(b \o u) : (b \o u)[i] = base + i
<1>1. /\ Len(b \o u) = Len(b) + Len(u) /\ Len(b) \in Nat /\ Len(u) \in Nat
      /\ \A i \in 1..Len(b) : (b \o u)[i] = b[i]
      /\ \A i \in 1..Len(u) : (b \o u)[Len(b) + i] = u[i]
  BY JoinFacts
<1>2. SUFFICES ASSUME NEW i \in 1..(Len(b) + Len(u)) PROVE (b \o u)[i] = base + i
  BY <1>1
<1>3. CASE i <= Len(b)
  BY <1>1, <1>3
<1>4. CASE i > Len(b)
  <2>1. PICK j \in 1..Len(u) : i = Len(b) + j
    <3>1. i - Len(b) \in 1..Len(u) /\ i = Len(b) + (i - Len(b))
      BY <1>1, <1>4
    <3>2. QED
      BY <3>1
  <2>2. (b \o u)[i] = base + Len(b) + j
    BY <1>1, <2>1
  <2>3. QED
    BY <1>1, <2>1, <2>2
<1>5. QED
  BY <1>1, <1>3, <1>4

(* Bytes leave the front of the ring. *)
LEMMA StreamPop ==
    ASSUME NEW b \in Seq(Nat), NEW n \in 0..Len(b), NEW base \in Int,
           \A i \in 1..Len(b) : b[i] = base + i
    PROVE  \A i \in 1..(Len(b) - n) : SubSeq(b, n + 1, Len(b))[i] = base + n + i
<1>1. SUFFICES ASSUME NEW i \in 1..(Len(b) - n)
               PROVE  SubSeq(b, n + 1, Len(b))[i] = base + n + i
  OBVIOUS
<1>2. SubSeq(b, n + 1, Len(b))[i] = b[n + i]
  BY DropFacts
<1>3. n + i \in 1..Len(b) /\ n \in Int /\ i \in Int
  OBVIOUS
<1>4. b[n + i] = base + (n + i)
  BY <1>3
<1>5. QED
  BY <1>2, <1>3, <1>4

(* SendMessage admits a packet: into the ring when the queue is empty and  *)
(* it fits whole, else to the end of the queue.                            *)
LEMMA StepEnqueue ==
    ASSUME RioInv, NEW t \in Threads, Enqueue(t), Kept("send")
    PROVE  SendInv' /\ QueueInv' /\ StreamInv'
<1>0. DataType /\ SendInv /\ QueueInv /\ StreamInv
  BY DEF RioInv, RioType
<1> DEFINE q == m_PendingSendQueue
<1> DEFINE n == size[t]
<1>1. /\ n \in Nat \ {0} /\ accepted \in Nat /\ sendBuf \in Seq(Nat) /\ Len(sendBuf) \in Nat
      /\ q \in Seq(Packets) /\ Len(q) \in Nat /\ m_PendingTotalBytes \in Int
  <2>1. pc[t] = "enqueue" /\ OwnOK(t)
    BY DEF Enqueue, At, RioInv, ThreadInv
  <2>2. n \in MsgSizes
    BY <2>1 DEF OwnOK
  <2>3. n \in Nat \ {0}
    BY <2>2, RIOBounds
  <2>4. QED
    BY <1>0, <2>3 DEF DataType
<1>2. /\ UNCHANGED <<sendOut, m_bSendInProgress, sendHead, sendCap, wire>>
      /\ accepted' = accepted + n
  BY DEF Enqueue
<1>3. CASE FastPath(t)
  <2>1. /\ q = <<>> /\ sendCap - Len(sendBuf) >= n /\ sendBuf' = sendBuf \o Bytes(n)
        /\ m_PendingSendQueue' = q /\ m_PendingTotalBytes' = m_PendingTotalBytes
    BY <1>3 DEF Enqueue, FastPath
  <2>2. /\ Bytes(n) \in Seq(Nat) /\ Len(Bytes(n)) = n
        /\ \A i \in 1..n : Bytes(n)[i] = accepted + i
    <3> HIDE DEF n
    <3>1. Bytes(n) \in [1..n -> Nat] /\ \A i \in 1..n : Bytes(n)[i] = accepted + i
      BY <1>1 DEF Bytes
    <3>2. QED
      BY <1>1, <3>1, FunSeq
  <2>3. Len(sendBuf') = Len(sendBuf) + n /\ sendCap \in Int
    <3>1. sendCap \in Int
      BY <1>0, RIOBounds DEF DataType
    <3>2. Len(sendBuf \o Bytes(n)) = Len(sendBuf) + n
      <4>1. PICK u \in Seq(Nat) : u = Bytes(n) /\ Len(u) = n
        BY <2>2
      <4>2. sendBuf \in Seq(Nat)
        BY <1>1
      <4>3. Len(sendBuf \o u) = Len(sendBuf) + Len(u)
        BY <4>2, JoinFacts
      <4>4. QED
        BY <4>1, <4>3
    <3>3. QED
      BY <2>1, <3>1, <3>2
  <2>4. SendInv'
    <3> HIDE DEF n
    <3>1. /\ Len(sendBuf') <= sendCap
          /\ \A k : k \in 1..Len(sendBuf) => k \in 1..Len(sendBuf')
      BY <1>1, <2>1, <2>3
    <3>2. QED
      BY <1>0, <1>2, <3>1 DEF SendInv, Kept
  <2>5. QueueInv'
    BY <1>0, <2>1 DEF QueueInv
  <2>6. ASSUME NEW base \in Int, StreamAt(base) PROVE StreamAt(base)'
    <3> HIDE DEF n
    <3>1. base + Len(sendBuf) = accepted
      BY <2>1, <2>6 DEF StreamAt
    <3>2. \A i \in 1..Len(sendBuf) : sendBuf[i] = base + i
      BY <2>6 DEF StreamAt
    <3>3. \A i \in 1..Len(sendBuf') : sendBuf'[i] = base + i
      BY <1>1, <2>1, <2>2, <3>1, <3>2, StreamPush
    <3>4. n \in Int /\ Len(sendBuf) \in Int
      BY <1>1
    <3>5. base + Len(sendBuf') = accepted'
      BY <1>2, <2>3, <3>1, <3>4
    <3>6. QED
      BY <2>1, <3>3, <3>5 DEF StreamAt
  <2>7. StreamInv'
    BY <1>0, <1>2, <2>6, StreamStep
  <2>8. QED
    BY <2>4, <2>5, <2>7
<1>4. CASE ~FastPath(t)
  <2>1. PICK p \in Packets : /\ p.first = accepted + 1 /\ p.last = accepted + n /\ p.Offset = 0
                             /\ m_PendingSendQueue' = Append(q, p)
    <3>1. [first |-> accepted + 1, last |-> accepted + n, Offset |-> 0] \in Packets
      BY <1>1 DEF Packets
    <3>2. QED
      BY <1>4, <3>1 DEF Enqueue
  <2>2. /\ sendBuf' = sendBuf /\ m_PendingTotalBytes' = m_PendingTotalBytes + n
    BY <1>4 DEF Enqueue
  <2> DEFINE z == m_PendingSendQueue'
  <2>3. /\ z # <<>> /\ Len(z) = Len(q) + 1 /\ z[Len(q) + 1] = p
        /\ \A i \in 1..Len(q) : z[i] = q[i]
    BY <1>1, <2>1, AppendFacts
  <2>4. q = <<>> => Len(q) = 0
    OBVIOUS
  <2>5. q # <<>> => Len(q) > 0
    BY <1>1
  <2> HIDE DEF n, z, q
  <2>6. SendInv'
    BY <1>0, <1>2, <2>2 DEF SendInv, Kept
  <2>7. \A i \in 1..Len(q) : q[i].first \in Nat /\ q[i].last \in Nat /\ q[i].Offset \in Nat
    <3>1. \A i \in 1..Len(q) : q[i] \in Packets
      BY <1>1
    <3>2. QED
      BY <3>1 DEF Packets
  <2>8. /\ q # <<>> => q[Len(q)].last = accepted /\ q[1].Offset < PacketLength(q[1])
        /\ \A i \in 1..Len(q) : q[i].first <= q[i].last /\ q[i].last <= accepted
        /\ \A i \in 2..Len(q) : q[i].first = q[i-1].last + 1 /\ q[i].Offset = 0
        /\ q = <<>> => m_PendingTotalBytes = 0
        /\ q # <<>> => m_PendingTotalBytes = accepted - q[1].first + 1
    BY <1>0 DEF QueueInv, q
  <2>9. PacketLength(p) = n /\ 0 < n
    BY <1>1, <2>1 DEF PacketLength
  <2>10. z[Len(z)].last = accepted' /\ z[1].Offset < PacketLength(z[1])
    <3>1. CASE q = <<>>
      BY <1>1, <1>2, <2>1, <2>3, <2>4, <2>9, <3>1
    <3>2. CASE q # <<>>
      BY <1>1, <1>2, <2>1, <2>3, <2>5, <2>8, <3>2
    <3>3. QED
      BY <3>1, <3>2
  <2>11. \A i \in 1..Len(z) : z[i].first <= z[i].last /\ z[i].last <= accepted'
    <3>1. SUFFICES ASSUME NEW i \in 1..(Len(q) + 1)
                   PROVE  z[i].first <= z[i].last /\ z[i].last <= accepted'
      BY <2>3
    <3>2. CASE i = Len(q) + 1
      BY <1>1, <1>2, <2>1, <2>3, <3>2
    <3>3. CASE i # Len(q) + 1
      <4>1. i \in 1..Len(q)
        BY <1>1, <3>3
      <4>2. z[i] = q[i] /\ q[i].first <= q[i].last /\ q[i].last <= accepted /\ q[i].last \in Nat
        BY <2>3, <2>7, <2>8, <4>1
      <4>3. QED
        BY <1>1, <1>2, <4>2
    <3>4. QED
      BY <3>2, <3>3
  <2>12. \A i \in 2..Len(z) : z[i].first = z[i-1].last + 1 /\ z[i].Offset = 0
    <3>1. SUFFICES ASSUME NEW i \in 2..(Len(q) + 1)
                   PROVE  z[i].first = z[i-1].last + 1 /\ z[i].Offset = 0
      BY <2>3
    <3>2. CASE i = Len(q) + 1
      <4>1. i - 1 = Len(q) /\ Len(q) \in 1..Len(q) /\ q # <<>>
        BY <1>1, <2>4, <3>2
      <4>2. z[i-1] = q[Len(q)] /\ z[i] = p
        BY <2>3, <3>2, <4>1
      <4>3. QED
        BY <2>1, <2>8, <4>1, <4>2
    <3>3. CASE i # Len(q) + 1
      <4>1. i \in 2..Len(q) /\ i \in 1..Len(q) /\ i - 1 \in 1..Len(q)
        BY <1>1, <3>3
      <4>2. QED
        BY <2>3, <2>8, <4>1
    <3>4. QED
      BY <3>2, <3>3
  <2>13. m_PendingTotalBytes' = accepted' - z[1].first + 1
    <3>1. CASE q = <<>>
      BY <1>1, <1>2, <2>1, <2>2, <2>3, <2>4, <2>8, <3>1
    <3>2. CASE q # <<>>
      <4>1. 1 \in 1..Len(q) /\ q[1].first \in Nat
        BY <1>1, <2>5, <2>7, <3>2
      <4>2. z[1].first = q[1].first /\ m_PendingTotalBytes = accepted - q[1].first + 1
        BY <2>3, <2>8, <3>2, <4>1
      <4>3. QED
        BY <1>1, <1>2, <2>2, <4>1, <4>2
    <3>3. QED
      BY <3>1, <3>2
  <2>14. QueueInv'
    BY <2>3, <2>10, <2>11, <2>12, <2>13 DEF QueueInv, z
  <2>15. ASSUME NEW base \in Int, StreamAt(base) PROVE StreamAt(base)'
    <3>1. /\ \A i \in 1..Len(sendBuf) : sendBuf[i] = base + i
          /\ q = <<>> => base + Len(sendBuf) = accepted
          /\ q # <<>> => q[1].first + q[1].Offset = base + Len(sendBuf) + 1
      BY <2>15 DEF StreamAt, q
    <3>2. z[1].first + z[1].Offset = base + Len(sendBuf) + 1
      <4>1. CASE q = <<>>
        BY <1>1, <2>1, <2>3, <2>4, <3>1, <4>1
      <4>2. CASE q # <<>>
        BY <1>1, <2>3, <2>5, <3>1, <4>2
      <4>3. QED
        BY <4>1, <4>2
    <3>3. QED
      BY <2>2, <2>3, <3>1, <3>2 DEF StreamAt, z
  <2>16. StreamInv'
    BY <1>0, <1>2, <2>15, StreamStep
  <2>17. QED
    BY <2>6, <2>14, <2>16
<1>5. QED
  BY <1>3, <1>4

(* FlushPendingSendQueue copies what fits of the first packet. *)
LEMMA StepFlushCopy ==
    ASSUME RioInv, NEW t \in Threads, FlushCopy(t), Kept("send")
    PROVE  SendInv' /\ QueueInv' /\ StreamInv'
<1>0. DataType /\ SendInv /\ QueueInv /\ StreamInv
  BY DEF RioInv, RioType
<1> DEFINE q == m_PendingSendQueue
<1> DEFINE p == q[1]
<1> DEFINE z == m_PendingSendQueue'
<1> DEFINE u == [i \in 1..CopyLength |-> Head(q).first + Head(q).Offset + i - 1]
<1>1. /\ q # <<>> /\ FreeSpace > 0
      /\ UNCHANGED <<sendOut, m_bSendInProgress, sendHead, sendCap, wire, accepted>>
      /\ sendBuf' = sendBuf \o u
  BY DEF FlushCopy, CopyLength
<1>2. /\ Head(q) = p /\ p \in Packets /\ Len(q) \in Nat \ {0} /\ CopyLength \in Nat \ {0}
      /\ CopyLength <= sendCap - Len(sendBuf) /\ p.Offset + CopyLength <= PacketLength(p)
  BY <1>1, CopyFacts
<1>3. p.first \in Nat /\ p.last \in Nat /\ p.Offset \in Nat
  BY <1>2 DEF Packets
<1>4. \/ /\ p.Offset + CopyLength >= PacketLength(p) /\ z = Tail(q)
         /\ m_PendingTotalBytes' = m_PendingTotalBytes - PacketLength(p)
      \/ /\ ~(p.Offset + CopyLength >= PacketLength(p))
         /\ z = [q EXCEPT ![1].Offset = p.Offset + CopyLength]
         /\ m_PendingTotalBytes' = m_PendingTotalBytes
  BY <1>2 DEF FlushCopy, CopyLength
<1>5. /\ u \in Seq(Nat) /\ Len(u) = CopyLength
      /\ \A i \in 1..CopyLength : u[i] = p.first + p.Offset + i - 1
  <2>1. u = [i \in 1..CopyLength |-> p.first + p.Offset + i - 1]
    BY <1>2
  <2>2. CopyLength \in Nat
    BY <1>2
  <2> HIDE DEF u, p, q
  <2>3. u \in [1..CopyLength -> Nat] /\ \A i \in 1..CopyLength : u[i] = p.first + p.Offset + i - 1
    BY <1>3, <2>1, <2>2
  <2>4. QED
    BY <2>2, <2>3, FunSeq
<1>6. /\ sendBuf \in Seq(Nat) /\ Len(sendBuf) \in Nat /\ accepted \in Nat
      /\ m_PendingTotalBytes \in Int /\ q \in Seq(Packets)
  BY <1>0 DEF DataType
<1>7. sendCap \in Nat
  BY <1>0, RIOBounds DEF DataType
<1> HIDE DEF q, p, z, u
<1>8. Len(sendBuf') = Len(sendBuf) + CopyLength
  BY <1>1, <1>5, <1>6, JoinFacts
<1>9. SendInv'
  <2>1. /\ Len(sendBuf') <= sendCap
        /\ \A k : k \in 1..Len(sendBuf) => k \in 1..Len(sendBuf')
    BY <1>2, <1>6, <1>7, <1>8
  <2>2. QED
    BY <1>0, <1>1, <2>1 DEF SendInv, Kept
<1>10. /\ q[Len(q)].last = accepted /\ p.Offset < PacketLength(p)
       /\ \A i \in 1..Len(q) : q[i].first <= q[i].last /\ q[i].last <= accepted
       /\ \A i \in 2..Len(q) : q[i].first = q[i-1].last + 1 /\ q[i].Offset = 0
       /\ m_PendingTotalBytes = accepted - p.first + 1
  BY <1>0, <1>1 DEF QueueInv, q, p
<1>11. \A i \in 1..Len(q) : q[i].first \in Nat /\ q[i].last \in Nat /\ q[i].Offset \in Nat
  <2>1. \A i \in 1..Len(q) : q[i] \in Packets
    BY <1>6
  <2>2. QED
    BY <2>1 DEF Packets
<1>12. PacketLength(p) \in Int /\ PacketLength(p) = p.last - p.first + 1
  BY <1>3 DEF PacketLength
<1>13. ASSUME NEW base \in Int, StreamAt(base)
       PROVE  /\ \A i \in 1..Len(sendBuf') : sendBuf'[i] = base + i
              /\ p.first + p.Offset + CopyLength = base + Len(sendBuf') + 1
  <2>1. \A i \in 1..Len(sendBuf) : sendBuf[i] = base + i
    BY <1>13 DEF StreamAt
  <2>2. p.first + p.Offset = base + Len(sendBuf) + 1
    BY <1>1, <1>13 DEF StreamAt, q, p
  <2>3. \A i \in 1..Len(u) : u[i] = base + Len(sendBuf) + i
    BY <1>2, <1>3, <1>5, <1>6, <2>2
  <2>4. \A i \in 1..Len(sendBuf') : sendBuf'[i] = base + i
    BY <1>1, <1>5, <1>6, <2>1, <2>3, StreamPush
  <2>5. p.first + p.Offset + CopyLength = base + Len(sendBuf') + 1
    BY <1>2, <1>3, <1>6, <1>8, <2>2
  <2>6. QED
    BY <2>4, <2>5
<1>14. CASE p.Offset + CopyLength >= PacketLength(p)
  <2>1. z = Tail(q) /\ m_PendingTotalBytes' = m_PendingTotalBytes - PacketLength(p)
    BY <1>4, <1>14
  <2>2. /\ Len(z) = Len(q) - 1 /\ \A i \in 1..(Len(q) - 1) : z[i] = q[i + 1]
        /\ z = <<>> <=> Len(q) = 1
    <3>1. /\ Len(z) = Len(q) - 1 /\ z \in Seq(Packets)
          /\ \A i \in 1..(Len(q) - 1) : z[i] = q[i + 1]
      BY <1>1, <1>6, <2>1, TailFacts
    <3>2. z = <<>> <=> Len(z) = 0
      BY <3>1
    <3>3. QED
      BY <1>2, <3>1, <3>2
  <2>3. p.Offset + CopyLength = p.last - p.first + 1
    BY <1>2, <1>3, <1>12, <1>14
  <2>4. z # <<>> => /\ 2 \in 2..Len(q) /\ z[1] = q[2] /\ q[2].first = p.last + 1 /\ q[2].Offset = 0
                    /\ q[2].first \in Nat /\ q[2].last \in Nat /\ q[2].first <= q[2].last
                    /\ z[Len(z)] = q[Len(q)]
    <3>1. ASSUME z # <<>> PROVE 2 \in 2..Len(q) /\ 2 \in 1..Len(q) /\ Len(z) \in 1..(Len(q) - 1)
      BY <1>2, <2>2, <3>1
    <3>2. ASSUME z # <<>> PROVE z[1] = q[2] /\ z[Len(z)] = q[Len(q)]
      <4>1. 1 \in 1..(Len(q) - 1) /\ Len(z) + 1 = Len(q) /\ 1 + 1 = 2
        BY <1>2, <2>2, <3>1, <3>2
      <4>2. QED
        BY <2>2, <3>1, <3>2, <4>1
    <3>3. ASSUME z # <<>> PROVE q[2].first = p.last + 1 /\ q[2].Offset = 0
      <4>1. 2 - 1 = 1
        OBVIOUS
      <4>2. q[2].first = q[2 - 1].last + 1 /\ q[2].Offset = 0
        BY <1>10, <3>1, <3>3
      <4>3. QED
        BY <4>1, <4>2 DEF p
    <3>4. QED
      BY <1>10, <1>11, <3>1, <3>2, <3>3
  <2>5. z = <<>> => p.last = accepted
    BY <1>10, <2>2 DEF p
  <2>6. z # <<>> => z[Len(z)].last = accepted /\ z[1].Offset < PacketLength(z[1])
    <3>1. z # <<>> => PacketLength(z[1]) = q[2].last - q[2].first + 1
      BY <2>4 DEF PacketLength
    <3>2. QED
      BY <1>10, <2>4, <3>1
  <2>7. \A i \in 1..Len(z) : z[i].first <= z[i].last /\ z[i].last <= accepted
    <3>1. \A i \in 1..(Len(q) - 1) : i + 1 \in 1..Len(q)
      BY <1>2
    <3>2. QED
      BY <1>10, <2>2, <3>1
  <2>8. \A i \in 2..Len(z) : z[i].first = z[i-1].last + 1 /\ z[i].Offset = 0
    <3>1. SUFFICES ASSUME NEW i \in 2..(Len(q) - 1)
                   PROVE  z[i].first = z[i-1].last + 1 /\ z[i].Offset = 0
      BY <2>2
    <3>2. /\ i \in 1..(Len(q) - 1) /\ i - 1 \in 1..(Len(q) - 1) /\ (i - 1) + 1 = i
          /\ i + 1 \in 2..Len(q) /\ (i + 1) - 1 = i
      BY <1>2
    <3>3. z[i] = q[i + 1] /\ z[i - 1] = q[i]
      BY <2>2, <3>2
    <3>4. q[i + 1].first = q[(i + 1) - 1].last + 1 /\ q[i + 1].Offset = 0
      BY <1>10, <3>2
    <3>5. QED
      BY <3>2, <3>3, <3>4
  <2>9. m_PendingTotalBytes' = accepted - p.last
    <3>1. m_PendingTotalBytes = accepted - p.first + 1
      BY <1>10
    <3>2. m_PendingTotalBytes' = m_PendingTotalBytes - (p.last - p.first + 1)
      BY <1>12, <2>1
    <3>3. accepted \in Int /\ p.first \in Int /\ p.last \in Int
      BY <1>3, <1>6
    <3>4. QED
      BY <3>1, <3>2, <3>3
  <2>10. /\ z = <<>> => m_PendingTotalBytes' = 0
         /\ z # <<>> => m_PendingTotalBytes' = accepted - z[1].first + 1
    BY <1>3, <1>6, <2>4, <2>5, <2>9
  <2>11. QueueInv'
    BY <1>1, <2>6, <2>7, <2>8, <2>10 DEF QueueInv, z
  <2>12. ASSUME NEW base \in Int, StreamAt(base) PROVE StreamAt(base)'
    <3>1. /\ \A i \in 1..Len(sendBuf') : sendBuf'[i] = base + i
          /\ p.first + p.Offset + CopyLength = base + Len(sendBuf') + 1
      BY <1>13, <2>12
    <3>2. Len(sendBuf') \in Nat
      BY <1>2, <1>6, <1>8
    <3>3. p.last = base + Len(sendBuf')
      <4>1. p.first + p.Offset + CopyLength = base + Len(sendBuf') + 1
        BY <3>1
      <4>2. CopyLength \in Int
        BY <1>2
      <4>3. QED
        BY <1>3, <2>3, <3>2, <4>1, <4>2
    <3>4. /\ z = <<>> => base + Len(sendBuf') = accepted'
          /\ z # <<>> => z[1].first + z[1].Offset = base + Len(sendBuf') + 1
      BY <1>1, <1>3, <2>4, <2>5, <3>2, <3>3
    <3>5. QED
      BY <3>1, <3>4 DEF StreamAt, z
  <2>13. QED
    BY <1>0, <1>1, <1>9, <2>11, <2>12, StreamStep
<1>15. CASE ~(p.Offset + CopyLength >= PacketLength(p))
  <2>1. /\ z = [q EXCEPT ![1].Offset = p.Offset + CopyLength]
        /\ m_PendingTotalBytes' = m_PendingTotalBytes /\ p.Offset + CopyLength \in Nat
        /\ p.Offset + CopyLength < PacketLength(p)
    BY <1>2, <1>3, <1>4, <1>12, <1>15
  <2>2. /\ Len(z) = Len(q) /\ z # <<>>
        /\ z[1].first = p.first /\ z[1].last = p.last /\ z[1].Offset = p.Offset + CopyLength
        /\ \A i \in 2..Len(q) : z[i] = q[i]
    BY <1>1, <1>6, <2>1, OffsetFacts DEF p
  <2>3. \A i \in 1..Len(q) : z[i].first = q[i].first /\ z[i].last = q[i].last
    <3>1. \A i \in 1..Len(q) : i = 1 \/ i \in 2..Len(q)
      BY <1>2
    <3>2. QED
      BY <2>2, <3>1 DEF p
  <2>4. PacketLength(z[1]) = PacketLength(p)
    BY <2>2 DEF PacketLength
  <2>5. Len(q) \in 1..Len(q)
    BY <1>2
  <2>6. \A i \in 2..Len(q) : z[i].first = z[i-1].last + 1 /\ z[i].Offset = 0
    <3>1. \A i \in 2..Len(q) : i \in 1..Len(q) /\ i - 1 \in 1..Len(q)
      BY <1>2
    <3>2. QED
      BY <1>10, <2>2, <2>3, <3>1
  <2>7. QueueInv'
    BY <1>1, <1>10, <2>1, <2>2, <2>3, <2>4, <2>5, <2>6 DEF QueueInv, z
  <2>8. ASSUME NEW base \in Int, StreamAt(base) PROVE StreamAt(base)'
    <3>1. /\ \A i \in 1..Len(sendBuf') : sendBuf'[i] = base + i
          /\ p.first + p.Offset + CopyLength = base + Len(sendBuf') + 1
      BY <1>13, <2>8
    <3>2. z[1].first + z[1].Offset = base + Len(sendBuf') + 1
      BY <1>2, <1>3, <2>2, <3>1
    <3>3. QED
      BY <2>2, <3>1, <3>2 DEF StreamAt, z
  <2>9. QED
    BY <1>0, <1>1, <1>9, <2>7, <2>8, StreamStep
<1>16. QED
  BY <1>14, <1>15

(* OnRioIOCompleted takes the bytes that were sent out of the ring. *)
LEMMA StepOnSent ==
    ASSUME RioInv, NEW t \in Threads, OnSent(t), Gone("send"), Result(t) \in Results,
           Waits("send", Result(t))
    PROVE  SendInv' /\ QueueInv' /\ StreamInv'
<1>0. DataType /\ SendInv /\ QueueInv /\ StreamInv
  BY DEF RioInv, RioType
<1> DEFINE n == Result(t).n
<1>1. /\ UNCHANGED <<sendOut, sendCap, wire, accepted, m_PendingSendQueue, m_PendingTotalBytes>>
      /\ sendBuf' = SubSeq(sendBuf, n + 1, Len(sendBuf))
      /\ sendHead' = (sendHead + n) % sendCap
  BY DEF OnSent
<1>2. Result(t).ok = TRUE
  BY DEF OnSent, Results
<1>3. /\ n \in 1..Len(sendBuf) /\ Waiting("send") /\ sendOut = <<>>
      /\ StreamAt(Len(wire) - n)
  BY <1>0, <1>2, WaitsWaiting DEF SendInv, StreamInv
<1>4. /\ sendBuf \in Seq(Nat) /\ Len(sendBuf) \in Nat /\ Len(wire) \in Nat /\ accepted \in Nat
  BY <1>0 DEF DataType
<1> HIDE DEF n
<1>5. n \in 0..Len(sendBuf) /\ n \in Nat
  BY <1>3, <1>4
<1>6. Len(sendBuf') = Len(sendBuf) - n
  BY <1>1, <1>4, <1>5, DropFacts
<1>7. Len(sendBuf) <= sendCap /\ sendCap = SendSlice /\ SendSlice \in Nat \ {0}
  <2>1. sendCap \in {0, SendSlice} /\ Len(sendBuf) <= sendCap
    BY <1>0 DEF DataType, SendInv
  <2>2. QED
    BY <1>3, <1>4, <2>1, RIOBounds
<1>8. sendHead' \in 0..SendSlice - 1
  <2>1. sendHead \in Nat
    BY <1>0 DEF SendInv
  <2>2. QED
    BY <1>1, <1>5, <1>7, <2>1
<1>9. SendInv'
  <2>1. Len(sendBuf') <= sendCap' /\ Len(sendOut') <= 1
    BY <1>0, <1>1, <1>4, <1>5, <1>6, <1>7 DEF SendInv
  <2>2. QED
    BY <1>1, <1>3, <1>8, <2>1 DEF SendInv, Gone
<1>10. QueueInv'
  BY <1>0, <1>1 DEF QueueInv
<1>11. StreamAt(Len(wire))'
  <2>1. PICK base \in Int : base = Len(wire) - n
    <3>1. Len(wire) - n \in Int
      BY <1>4, <1>5
    <3>2. QED
      BY <3>1
  <2>2. StreamAt(base)
    BY <1>3, <2>1
  <2>3. \A i \in 1..Len(sendBuf) : sendBuf[i] = base + i
    BY <2>2 DEF StreamAt
  <2>4. \A i \in 1..Len(sendBuf') : sendBuf'[i] = base + n + i
    BY <1>1, <1>4, <1>5, <1>6, <2>3, StreamPop
  <2>5. base + n = Len(wire) /\ base + Len(sendBuf) = Len(wire) + Len(sendBuf')
    BY <1>4, <1>5, <1>6, <2>1
  <2>6. \A i \in 1..Len(sendBuf') : sendBuf'[i] = Len(wire) + i
    BY <2>4, <2>5
  <2>7. /\ m_PendingSendQueue = <<>> => Len(wire) + Len(sendBuf') = accepted
        /\ m_PendingSendQueue # <<>> =>
              m_PendingSendQueue[1].first + m_PendingSendQueue[1].Offset
                = Len(wire) + Len(sendBuf') + 1
    BY <2>2, <2>5 DEF StreamAt
  <2>8. QED
    BY <1>1, <2>6, <2>7 DEF StreamAt
<1>12. StreamInv'
  BY <1>0, <1>1, <1>11 DEF StreamInv, Gone
<1>13. QED
  BY <1>9, <1>10, <1>12

(* A step of a thread keeps the send side. *)
LEMMA StepSend ==
    ASSUME RioInv, NEW t \in Threads, Step(t) \/ SendMessage(t)
    PROVE  SendInv' /\ QueueInv' /\ StreamInv'
<1>0. DataType /\ SendInv /\ QueueInv /\ StreamInv /\ ThreadInv
  BY DEF RioInv, RioType
<1>1. CASE CreateSession(t)
  <2>1. pc[t] = "create" /\ t = Acceptor
    BY <1>0, <1>1, WhoIsWhere DEF CreateSession, At
  <2>2. sendBuf' = <<>> /\ sendOut' = <<>>
    BY <1>1, <2>1 DEF CreateSession, RioInv, CreateInv
  <2>3. Kept("send")
    BY <1>1, ResultsSame DEF CreateSession
  <2>4. sendCap' \in Nat
    BY <1>1, RIOBounds DEF CreateSession, AllocateSlice
  <2>5. UNCHANGED <<sendOut, m_bSendInProgress, sendBuf, sendHead,
                m_PendingSendQueue, m_PendingTotalBytes, accepted, wire>>
    BY <1>1 DEF CreateSession
  <2>6. SendInv'
    <3>1. Len(sendBuf') <= sendCap'
      BY <2>2, <2>4
    <3>2. QED
      BY <1>0, <2>3, <2>5, <3>1 DEF SendInv, Kept
  <2>7. QueueInv'
    BY <1>0, <2>5 DEF QueueInv
  <2>8. \A base \in Int : StreamAt(base) => StreamAt(base)'
    BY <2>5 DEF StreamAt
  <2>9. QED
    BY <1>0, <2>3, <2>5, <2>6, <2>7, <2>8, StreamStep
<1>2. CASE Enqueue(t)
  <2>1. Kept("send")
    BY <1>2, ResultsSame DEF Enqueue
  <2>2. QED
    BY <1>2, <2>1, StepEnqueue
<1>3. CASE FlushCopy(t)
  <2>1. Kept("send")
    BY <1>3, ResultsSame DEF FlushCopy
  <2>2. QED
    BY <1>3, <2>1, StepFlushCopy
<1>4. CASE FlushPost(t)
  <2>1. Kept("send")
    BY <1>4, ResultsSame DEF FlushPost
  <2>2. UNCHANGED <<sendBuf, sendHead, sendCap, m_PendingSendQueue, m_PendingTotalBytes,
                    accepted, wire>>
    BY <1>4 DEF FlushPost
  <2>3. QueueInv'
    BY <1>0, <2>2 DEF QueueInv
  <2>4. \A base \in Int : StreamAt(base) => StreamAt(base)'
    BY <2>2 DEF StreamAt
  <2>5. StreamInv'
    BY <1>0, <2>1, <2>2, <2>4, StreamStep
  <2>6. SendInv'
    <3>1. CASE UNCHANGED <<m_bSendInProgress, sendOut>>
      BY <1>0, <2>1, <2>2, <3>1 DEF SendInv, Kept
    <3>2. CASE CanPost /\ m_bSendInProgress' = TRUE /\ sendOut' = Append(sendOut, ReadableSpan)
      <4>1. m_bSendInProgress # TRUE /\ sendBuf # <<>>
        BY <3>2 DEF CanPost
      <4>2. sendOut = <<>> /\ ~Waiting("send")
        BY <1>0, <4>1 DEF SendInv
      <4>3. ReadableSpan \in 1..Len(sendBuf)
        BY <4>1, ReadableFacts
      <4>4. Len(sendOut') <= 1 /\ sendOut'[1] = ReadableSpan
        <5>1. sendOut' = <<ReadableSpan>>
          BY <3>2, <4>2
        <5>2. QED
          BY <4>3, <5>1
      <4>5. ~Waiting("send")' /\ Unique("send")' /\ \A r \in Results : ~Waits("send", r)'
        BY <2>1, <4>2, WaitsWaiting DEF Kept
      <4>6. sendOut'[1] \in 1..Len(sendBuf')
        BY <2>2, <4>3, <4>4
      <4>7. QED
        BY <1>0, <2>2, <3>2, <4>4, <4>5, <4>6 DEF SendInv
    <3>3. QED
      BY <1>4, <3>1, <3>2 DEF FlushPost
  <2>7. QED
    BY <2>3, <2>5, <2>6
<1>5. CASE OnFailed(t)
  <2>1. SendSame
    BY <1>5 DEF OnFailed, SendSame
  <2>2. /\ Result(t) \in Results /\ Waits(Result(t).op, Result(t))
        /\ Result(t).op = "send" => Gone("send")
        /\ Result(t).op # "send" => Kept("send")
    BY <1>5, StepResults
  <2>3. CASE Result(t).op # "send"
    BY <2>1, <2>2, <2>3, SendFrame
  <2>4. CASE Result(t).op = "send"
    <3>1. Result(t).ok = FALSE
      BY <1>5, <2>2, <2>4 DEF OnFailed, Results
    <3>2. Result(t).n = 0 /\ StreamAt(Len(wire) - Result(t).n)
      BY <1>0, <2>2, <2>4, <3>1 DEF SendInv, StreamInv
    <3>3. StreamAt(Len(wire))
      <4>1. Len(wire) - 0 = Len(wire)
        BY <1>0 DEF DataType
      <4>2. QED
        BY <3>2, <4>1
    <3>4. StreamAt(Len(wire))'
      BY <2>1, <3>3 DEF SendSame, StreamAt
    <3>5. Gone("send")
      BY <2>2, <2>4
    <3>6. SendInv' /\ QueueInv'
      BY <1>0, <2>1, <3>5 DEF SendInv, QueueInv, SendSame, Gone
    <3>7. StreamInv'
      BY <1>0, <2>1, <3>4, <3>5 DEF StreamInv, SendSame, Gone
    <3>8. QED
      BY <3>6, <3>7
  <2>5. QED
    BY <2>3, <2>4
<1>6. CASE OnSent(t)
  <2>1. Result(t).op = "send"
    BY <1>6 DEF OnSent
  <2>2. Gone("send") /\ Result(t) \in Results /\ Waits("send", Result(t))
    BY <1>6, <2>1, StepResults
  <2>3. QED
    BY <1>6, <2>2, StepOnSent
<1>7. CASE \/ Initialize(t) \/ OnAcceptedAdd(t) \/ OnAcceptedStart(t) \/ SendCheck(t) \/ Backpressure(t)
          \/ FlushLock(t) \/ OnDisconnected(t) \/ RequestRecvCheck(t) \/ RequestRecvPost(t) \/ Dequeue(t)
          \/ BatchDone(t) \/ OnReceived(t) \/ ReadPacket(t) \/ ReadStop(t) \/ SendMessage(t)
  <2>1. SendSame
    BY <1>7 DEF SendSame, Initialize, OnAcceptedAdd, OnAcceptedStart, SendCheck,
       Backpressure, FlushLock, OnDisconnected, RequestRecvCheck, RequestRecvPost,
       Dequeue, BatchDone, OnReceived, ReadPacket, ReadStop, SendMessage,
       StartReceiveLoop
  <2>2. Kept("send")
    <3>1. CASE OnReceived(t)
      BY <3>1, StepResults DEF OnReceived
    <3>2. CASE ~OnReceived(t)
      <4>1. ~(OnFailed(t) \/ OnSent(t))
        <5>1. SUFFICES ASSUME OnFailed(t) \/ OnSent(t) PROVE FALSE
          OBVIOUS
        <5>2. pc[t] = "next" /\ batch[t] # <<>>
          BY <5>1 DEF OnFailed, OnSent, At
        <5>3. QED
          BY <1>7, <3>2, <5>2 DEF Initialize, OnAcceptedAdd, OnAcceptedStart,
             SendCheck, Backpressure, FlushLock, OnDisconnected, RequestRecvCheck,
             RequestRecvPost, Dequeue, BatchDone, ReadPacket, ReadStop, SendMessage,
             At
      <4>2. QED
        BY <3>2, <4>1, StepResults
    <3>3. QED
      BY <3>1, <3>2
  <2>3. QED
    BY <2>1, <2>2, SendFrame
<1>8. QED
  BY <1>1, <1>2, <1>3, <1>4, <1>5, <1>6, <1>7 DEF Step, Accept, Send, Receive, Work

(* The kernel completes the one send, and puts what it sent on the wire. *)
LEMMA KernelSend ==
    ASSUME RioInv, KernelReceived \/ KernelSent \/ KernelFailed
    PROVE  SendInv' /\ QueueInv' /\ StreamInv'
<1>0. DataType /\ SendInv /\ QueueInv /\ StreamInv
  BY DEF RioInv, RioType
<1>1. UNCHANGED <<m_bSendInProgress, sendBuf, sendHead, sendCap, m_PendingSendQueue,
                  m_PendingTotalBytes, accepted>>
  BY DEF KernelReceived, KernelSent, KernelFailed
<1>2. CASE sendOut' = sendOut /\ wire' = wire /\ Kept("send")
  BY <1>1, <1>2, SendFrame DEF SendSame
<1>3. CASE /\ sendOut # <<>> /\ sendOut' = Tail(sendOut)
           /\ \E x \in Results : /\ Added("send", x)
                                 /\ x.ok = TRUE => x.n \in 1..Head(sendOut)
                                 /\ x.ok = FALSE => x.n = 0
                                 /\ wire' = wire \o SubSeq(sendBuf, 1, x.n)
  <2>1. PICK x \in Results : /\ Added("send", x)
                             /\ x.ok = TRUE => x.n \in 1..Head(sendOut)
                             /\ x.ok = FALSE => x.n = 0
                             /\ wire' = wire \o SubSeq(sendBuf, 1, x.n)
    BY <1>3
  <2> DEFINE n == x.n
  <2>2. /\ sendBuf \in Seq(Nat) /\ wire \in Seq(Nat) /\ Len(sendBuf) \in Nat /\ Len(wire) \in Nat
        /\ sendOut \in Seq(Int)
    BY <1>0 DEF DataType
  <2>3. /\ Len(sendOut) <= 1 /\ sendOut[1] \in 1..Len(sendBuf) /\ ~Waiting("send")
        /\ m_bSendInProgress = TRUE
    BY <1>0, <1>3 DEF SendInv
  <2>4. sendOut' = <<>> /\ Len(sendOut') <= 1 /\ Head(sendOut) = sendOut[1]
    BY <1>3, <2>2, <2>3
  <2>5. /\ n \in Nat /\ n <= Len(sendBuf) /\ (x.ok = TRUE => n \in 1..Len(sendBuf))
    <3>1. n \in Nat /\ x.ok \in BOOLEAN
      BY DEF Results
    <3>2. QED
      BY <2>1, <2>2, <2>3, <2>4, <3>1
  <2>6. SendInv'
    BY <1>0, <1>1, <2>1, <2>3, <2>4, <2>5 DEF SendInv, Added
  <2>7. QueueInv'
    BY <1>0, <1>1 DEF QueueInv
  <2>8. StreamAt(Len(wire)) /\ \A i \in 1..Len(wire) : wire[i] = i
    BY <1>0, <2>3 DEF StreamInv
  <2> HIDE DEF n
  <2>9. PICK s \in Seq(Nat) : /\ s = SubSeq(sendBuf, 1, n) /\ Len(s) = n
                              /\ \A i \in 1..n : s[i] = sendBuf[i]
    <3>1. n \in 0..Len(sendBuf)
      BY <2>2, <2>5
    <3>2. QED
      BY <2>2, <3>1, TakeFacts
  <2>10. wire' = wire \o s
    BY <2>1, <2>9 DEF n
  <2>11. Len(wire') = Len(wire) + n
    BY <2>2, <2>9, <2>10, JoinFacts
  <2>12. \A i \in 1..Len(wire') : wire'[i] = i
    <3>1. \A i \in 1..Len(wire) : wire[i] = 0 + i
      BY <2>8
    <3>2. \A i \in 1..Len(s) : s[i] = 0 + Len(wire) + i
      <4>1. \A i \in 1..Len(sendBuf) : sendBuf[i] = Len(wire) + i
        BY <2>8 DEF StreamAt
      <4>2. \A i \in 1..n : i \in 1..Len(sendBuf)
        BY <2>2, <2>5
      <4>3. QED
        BY <2>2, <2>9, <4>1, <4>2
    <3>3. \A i \in 1..Len(wire \o s) : (wire \o s)[i] = 0 + i
      BY <2>2, <2>9, <3>1, <3>2, StreamPush
    <3>4. QED
      BY <2>10, <3>3
  <2>13. Len(wire') - n = Len(wire)
    BY <2>2, <2>5, <2>11
  <2>14. StreamAt(Len(wire) - x.n)'
    BY <1>1, <2>8, <2>13 DEF StreamAt, n
  <2>15. StreamInv'
    BY <2>1, <2>12, <2>14 DEF StreamInv, Added
  <2>16. QED
    BY <2>6, <2>7, <2>15
<1>4. QED
  BY <1>2, <1>3, KernelResults

-----------------------------------------------------------------------------
(* The invariant holds. *)

(* Initially. *)
LEMMA RioInit == Init => RioInv
<1> SUFFICES ASSUME Init PROVE RioInv
  OBVIOUS
<1>1. /\ m_bIsDisconnected = FALSE /\ m_bReceiveLoopStarted = FALSE /\ m_bSendInProgress = FALSE
      /\ m_RQ = FALSE /\ recvCap = 0 /\ sendCap = 0 /\ recvHead = 0 /\ recvSize = 0
      /\ frame \in Frames /\ sendHead = 0 /\ sendBuf = <<>>
      /\ m_PendingSendQueue = <<>> /\ m_PendingTotalBytes = 0
      /\ m_RecvMutex = {} /\ m_SendQueueMutex = {} /\ inMap = FALSE
      /\ recvOut = <<>> /\ sendOut = <<>> /\ cq = <<>> /\ reset = FALSE
      /\ wire = <<>> /\ received = 0 /\ accepted = 0
      /\ pc = [t \in Threads |-> IF t = Acceptor THEN "create" ELSE "idle"]
      /\ batch = [t \in Threads |-> <<>>] /\ size = [t \in Threads |-> 0]
  BY DEF Init
<1>2. \A S : <<>> \in Seq(S)
  OBVIOUS
<1>3. RioType
  <2>1. FlagType
    <3>1. refused = {}
      BY DEF Init
    <3>2. QED
      BY <1>1, <3>1 DEF FlagType
  <2>2. DataType
    <3>1. sendBuf \in Seq(Nat) /\ wire \in Seq(Nat) /\ m_PendingSendQueue \in Seq(Packets)
      BY <1>1, <1>2
    <3>2. recvOut \in Seq(Int) /\ sendOut \in Seq(Int) /\ cq \in Seq(Results)
      BY <1>1, <1>2
    <3>3. QED
      BY <1>1, <3>1, <3>2 DEF DataType
  <2>3. ThreadType
    BY <1>1, <1>2, LabelFacts DEF ThreadType
  <2>4. QED
    BY <2>1, <2>2, <2>3 DEF RioType
<1>4. /\ Acceptor \in Threads /\ pc[Acceptor] = "create"
      /\ \A t \in Workers \cup Senders : t \in Threads /\ pc[t] = "idle"
  BY <1>1, RIOThreads DEF Threads
<1>5. ThreadInv
  BY <1>1, <1>4, RIOThreads DEF ThreadInv, OwnOK, AcceptLabels, WorkLabels, SendLabels, Threads
<1>6. CreateInv
  BY <1>1, <1>4 DEF CreateInv
<1>7. \A i : i \notin DOMAIN cq /\ \A t \in Workers : i \notin DOMAIN batch[t]
  BY <1>1, <1>4
<1>8. ASSUME NEW op PROVE Unique(op) /\ ~Waiting(op) /\ \A r \in Results : ~Waits(op, r)
  BY <1>7 DEF Unique, Waiting, Waits, In, OneIn
<1>9. /\ Len(recvOut) = 0 /\ Len(sendOut) = 0 /\ Len(sendBuf) = 0 /\ Len(wire) = 0
      /\ Len(m_PendingSendQueue) = 0
  BY <1>1
<1>10. RecvInv
  BY <1>1, <1>4, <1>8, <1>9, RIOBounds DEF RecvInv, RecvBusy, Arming
<1>11. SendInv
  BY <1>1, <1>8, <1>9, RIOBounds DEF SendInv
<1>12. QueueInv /\ StreamInv
  <2>1. QueueInv
    BY <1>1, <1>9 DEF QueueInv
  <2>2. StreamAt(Len(wire))
    BY <1>1, <1>9 DEF StreamAt
  <2>3. \A i \in 1..Len(wire) : wire[i] = i
    BY <1>9
  <2>4. QED
    BY <1>8, <2>1, <2>2, <2>3 DEF StreamInv
<1>13. QED
  BY <1>3, <1>5, <1>6, <1>10, <1>11, <1>12 DEF RioInv

(* The invariant speaks of nothing but the variables. *)
LEMMA RioStutter == RioInv /\ UNCHANGED vars => RioInv'
<1> SUFFICES ASSUME RioInv, UNCHANGED vars PROVE RioInv'
  OBVIOUS
<1>1. RioType' /\ ThreadInv' /\ CreateInv'
  BY DEF RioInv, RioType, FlagType, DataType, ThreadType, ThreadInv, OwnOK, CreateInv, vars
<1>2. Kept("recv") /\ Kept("send")
  BY ResultsSame DEF vars
<1>3. RecvInv'
  BY <1>2, RecvFrame DEF RecvSame, RioInv, vars
<1>4. SendInv' /\ QueueInv' /\ StreamInv'
  BY <1>2, SendFrame DEF SendSame, vars
<1>5. QED
  BY <1>1, <1>3, <1>4 DEF RioInv

(* Every step keeps it. *)
LEMMA RioNext == RioInv /\ [Next]_vars => RioInv'
<1> SUFFICES ASSUME RioInv, [Next]_vars PROVE RioInv'
  OBVIOUS
<1>0. CreateInv'
  BY CreateKeeps
<1>1. ASSUME NEW t \in Threads, Step(t) \/ SendMessage(t) PROVE RioInv'
  <2>1. RioType'
    <3>1. FlagType'
      BY <1>1, StepFlags DEF RioInv
    <3>2. QED
      BY <1>1, <3>1, StepData, StepThreads DEF RioType
  <2>2. ThreadInv' /\ RecvInv'
    BY <1>1, StepThreadInv, StepRecv
  <2>3. SendInv' /\ QueueInv' /\ StreamInv'
    BY <1>1, StepSend
  <2>4. QED
    BY <1>0, <2>1, <2>2, <2>3 DEF RioInv
<1>2. CASE KernelReceived \/ KernelSent \/ KernelFailed
  <2>1. RioType' /\ ThreadInv' /\ RecvInv'
    BY <1>2, KernelType, KernelRecv
  <2>2. SendInv' /\ QueueInv' /\ StreamInv'
    BY <1>2, KernelSend
  <2>3. QED
    BY <1>0, <2>1, <2>2 DEF RioInv
<1>3. CASE UNCHANGED vars
  BY <1>3, RioStutter
<1>4. QED
  BY <1>1, <1>2, <1>3 DEF Next, Threads

(* So it is an invariant of the specification. *)
THEOREM RioInvariant == Spec => []RioInv
<1>1. QED
  BY RioInit, RioNext, PTL DEF Spec

-----------------------------------------------------------------------------
(* What the session promises. *)

(* The type invariant: the slices, rings and counters of a session stay in *)
(* range whatever the peer, the pool and the callers of SendMessage do.    *)
THEOREM RioTypeCorrect == Spec => []TypeOK
<1>1. RioInv => TypeOK
  <2> SUFFICES ASSUME RioInv PROVE TypeOK
    OBVIOUS
  <2>0. FlagType /\ DataType /\ ThreadType /\ RecvInv /\ SendInv /\ QueueInv
    BY DEF RioInv, RioType
  <2>1. /\ {m_bIsDisconnected, m_bReceiveLoopStarted, m_bSendInProgress, m_RQ, inMap,
             reset} \subseteq BOOLEAN
        /\ refused \subseteq {"recv", "send"}
    BY <2>0 DEF FlagType
  <2>2. m_PendingTotalBytes \in Nat
    <3> DEFINE q == m_PendingSendQueue
    <3>1. CASE q = <<>>
      BY <2>0, <3>1 DEF QueueInv
    <3>2. CASE q # <<>>
      <4>1. q \in Seq(Packets) /\ Len(q) \in Nat \ {0} /\ accepted \in Nat
        BY <2>0, <3>2 DEF DataType
      <4>2. /\ q[1].first \in Nat /\ q[1].last \in Nat
            /\ q[1].first <= q[1].last /\ q[1].last <= accepted
            /\ m_PendingTotalBytes = accepted - q[1].first + 1
        <5>1. 1 \in 1..Len(q) /\ q[1] \in Packets
          BY <4>1
        <5>2. q[1].first <= q[1].last /\ q[1].last <= accepted
          BY <2>0, <5>1 DEF QueueInv
        <5>3. m_PendingTotalBytes = accepted - q[1].first + 1
          BY <2>0, <3>2 DEF QueueInv
        <5>4. QED
          BY <5>1, <5>2, <5>3 DEF Packets
      <4>3. QED
        BY <4>1, <4>2
    <3>3. QED
      BY <3>1, <3>2
  <2>3. QED
    BY <2>0, <2>1, <2>2 DEF DataType, ThreadType, RecvInv, SendInv, TypeOK
<1>2. QED
  BY <1>1, RioInvariant, PTL

(* The request queue never holds a second receive or a second send, and    *)
(* none is posted while the completion of the one before still waits       *)
(* (m_bSendInProgress; one receive posted per completed receive).          *)
THEOREM OneRequestAtATime == Spec => []OneRequest
<1>1. RioInv => OneRequest
  BY DEF RioInv, RecvInv, SendInv, OneRequest
<1>2. QED
  BY <1>1, RioInvariant, PTL

(* At most one result waits, and Unconsumed is its length. *)
LEMMA UnconsumedFacts ==
    ASSUME RioInv
    PROVE  /\ ~Waiting("send") => Unconsumed = 0
           /\ \A r \in Results : Waits("send", r) => Unconsumed = r.n
           /\ Waiting("send") => \E r \in Results : Waits("send", r)
<1> DEFINE sent ==
        {cq[i].n : i \in {j \in DOMAIN cq : cq[j].op = "send"}} \cup
        UNION {{batch[t][i].n : i \in {j \in DOMAIN batch[t] : batch[t][j].op = "send"}} :
               t \in Workers}
<1>1. Unconsumed = IF sent = {} THEN 0 ELSE CHOOSE n \in sent : \A k \in sent : k <= n
  BY DEF Unconsumed
<1>2. /\ \A i \in DOMAIN cq : cq[i] \in Results
      /\ \A t \in Workers : \A i \in DOMAIN batch[t] : batch[t][i] \in Results
  <2>1. cq \in Seq(Results) /\ \A t \in Workers : batch[t] \in Seq(Results)
    BY DEF RioInv, RioType, DataType, ThreadType, Threads
  <2>2. QED
    BY <2>1
<1>3. \A n : n \in sent <=> \E r \in Results : Waits("send", r) /\ n = r.n
  <2>1. \A n : n \in sent <=>
          \/ \E i \in DOMAIN cq : cq[i].op = "send" /\ n = cq[i].n
          \/ \E t \in Workers : \E i \in DOMAIN batch[t] :
                batch[t][i].op = "send" /\ n = batch[t][i].n
    OBVIOUS
  <2> HIDE DEF sent
  <2>2. \A r : Waits("send", r) <=>
          \/ \E i \in DOMAIN cq : cq[i].op = "send" /\ r = cq[i]
          \/ \E t \in Workers : \E i \in DOMAIN batch[t] :
                batch[t][i].op = "send" /\ r = batch[t][i]
    BY DEF Waits
  <2>3. ASSUME NEW n, n \in sent PROVE \E r \in Results : Waits("send", r) /\ n = r.n
    <3>1. CASE \E i \in DOMAIN cq : cq[i].op = "send" /\ n = cq[i].n
      BY <1>2, <2>2, <3>1
    <3>2. CASE \E t \in Workers : \E i \in DOMAIN batch[t] :
                 batch[t][i].op = "send" /\ n = batch[t][i].n
      BY <1>2, <2>2, <3>2
    <3>3. QED
      BY <2>1, <2>3, <3>1, <3>2
  <2>4. ASSUME NEW r \in Results, Waits("send", r) PROVE r.n \in sent
    BY <2>1, <2>2, <2>4
  <2>5. QED
    BY <2>3, <2>4
<1>4. ASSUME NEW r, NEW s, Waits("send", r), Waits("send", s) PROVE r = s
  <2>0. Unique("send") /\ r.op = "send" /\ s.op = "send"
    BY <1>4 DEF RioInv, SendInv, Waits
  <2>1. CASE In(cq, "send")
    <3>1. \A t \in Workers : ~In(batch[t], "send")
      BY <2>0, <2>1 DEF Unique
    <3>2. (\E i \in DOMAIN cq : cq[i] = r) /\ (\E i \in DOMAIN cq : cq[i] = s)
      BY <1>4, <2>0, <3>1 DEF Waits, In
    <3>3. QED
      BY <2>0, <3>2 DEF Unique, OneIn
  <2>2. CASE ~In(cq, "send")
    <3>1. PICK t \in Workers : \E i \in DOMAIN batch[t] : batch[t][i] = r
      BY <1>4, <2>0, <2>2 DEF Waits, In
    <3>2. PICK u \in Workers : \E i \in DOMAIN batch[u] : batch[u][i] = s
      BY <1>4, <2>0, <2>2 DEF Waits, In
    <3>3. t = u
      BY <2>0, <3>1, <3>2 DEF Unique, In
    <3>4. QED
      BY <2>0, <3>1, <3>2, <3>3 DEF Unique, OneIn
  <2>3. QED
    BY <2>1, <2>2
<1>5. Waiting("send") => \E r \in Results : Waits("send", r)
  BY <1>2 DEF Waiting, Waits
<1> HIDE DEF sent
<1>6. ASSUME ~Waiting("send") PROVE Unconsumed = 0
  <2>1. \A n : n \notin sent
    BY <1>3, <1>6, WaitsWaiting
  <2>2. QED
    BY <1>1, <2>1
<1>7. ASSUME NEW r \in Results, Waits("send", r) PROVE Unconsumed = r.n
  <2>1. \A n : n \in sent <=> n = r.n
    BY <1>3, <1>4, <1>7
  <2>2. sent = {r.n} /\ r.n \in Nat
    BY <2>1 DEF Results
  <2>3. \A k \in {r.n} : k <= r.n
    BY <2>2
  <2>4. (CHOOSE n \in {r.n} : \A k \in {r.n} : k <= n) = r.n
    BY <2>3
  <2>5. QED
    BY <1>1, <2>2, <2>4
<1>8. QED
  BY <1>5, <1>6, <1>7

(* The peer receives the accepted stream in order: neither the fast path   *)
(* of SendMessage, nor FlushPendingSendQueue, nor a partial send, nor the  *)
(* wrap of the ring loses, doubles or swaps a byte, whatever the number of *)
(* threads that send.                                                      *)
THEOREM StreamStaysInOrder == Spec => []StreamInOrder
<1>1. RioInv => StreamInOrder
  <2> SUFFICES ASSUME RioInv PROVE StreamInOrder
    OBVIOUS
  <2>0. DataType /\ SendInv /\ QueueInv /\ StreamInv
    BY DEF RioInv, RioType
  <2>1. Len(wire) \in Nat /\ Len(sendBuf) \in Nat /\ DOMAIN wire = 1..Len(wire)
        /\ DOMAIN sendBuf = 1..Len(sendBuf)
    BY <2>0 DEF DataType
  <2>2. StreamAt(Len(wire) - Unconsumed) /\ Unconsumed \in Nat
    <3>1. CASE ~Waiting("send")
      <4>1. Unconsumed = 0 /\ StreamAt(Len(wire))
        BY <2>0, <3>1, UnconsumedFacts DEF StreamInv
      <4>2. Len(wire) - 0 = Len(wire)
        BY <2>1
      <4>3. QED
        BY <4>1, <4>2
    <3>2. CASE Waiting("send")
      <4>1. PICK r \in Results : Waits("send", r)
        BY <3>2, UnconsumedFacts
      <4>2. Unconsumed = r.n /\ StreamAt(Len(wire) - r.n) /\ r.n \in Nat
        BY <2>0, <4>1, UnconsumedFacts DEF StreamInv, Results
      <4>3. QED
        BY <4>2
    <3>3. QED
      BY <3>1, <3>2
  <2>3. \A i \in DOMAIN wire : wire[i] = i
    BY <2>0, <2>1 DEF StreamInv
  <2>4. \A i \in DOMAIN sendBuf : sendBuf[i] = Len(wire) - Unconsumed + i
    BY <2>1, <2>2 DEF StreamAt
  <2>5. m_PendingSendQueue = <<>> => Len(wire) - Unconsumed + Len(sendBuf) = accepted
    BY <2>2 DEF StreamAt
  <2>6. m_PendingSendQueue # <<>> =>
          m_PendingSendQueue[1].first + m_PendingSendQueue[1].Offset
            = Len(wire) - Unconsumed + Len(sendBuf) + 1
    BY <2>2 DEF StreamAt
  <2>7. QED
    BY <2>0, <2>3, <2>4, <2>5, <2>6 DEF StreamInOrder, QueueInv
<1>2. QED
  BY <1>1, RioInvariant, PTL

-----------------------------------------------------------------------------
(* The bound of the pending total. *)

(* A finite set of numbers that is not empty has a largest one. *)
LEMMA LargestExists ==
    ASSUME NEW S \in SUBSET Nat, IsFiniteSet(S), S # {}
    PROVE  \E m \in S : \A k \in S : k <= m
<1> DEFINE HasMax(U) == \E m \in U : \A k \in U : k <= m
<1> DEFINE T == {U \in SUBSET S : U # {} /\ ~HasMax(U)}
<1>1. SUFFICES ASSUME ~HasMax(S) PROVE FALSE
  OBVIOUS
<1>2. T # {} /\ T \subseteq FiniteSubsetsOf(S)
  <2>1. S \in T
    BY <1>1
  <2>2. \A U \in SUBSET S : IsFiniteSet(U)
    BY FS_Subset
  <2>3. QED
    BY <2>1, <2>2 DEF FiniteSubsetsOf
<1>3. PICK U \in T : \A V \in T : <<V, U>> \notin StrictSubsetOrdering(S)
  <2>1. IsWellFoundedOn(StrictSubsetOrdering(S), FiniteSubsetsOf(S))
    BY FS_StrictSubsetOrderingWellFounded
  <2> HIDE DEF T
  <2>2. QED
    BY <1>2, <2>1, WFMin
<1>4. U \in SUBSET S /\ U # {} /\ ~HasMax(U)
  BY <1>3
<1>5. PICK x \in U : TRUE
  BY <1>4
<1>6. x \in Nat /\ \A y \in U : y \in Nat
  BY <1>4
<1>7. CASE U \ {x} = {}
  <2>1. \A k \in U : k = x
    BY <1>7
  <2>2. QED
    BY <1>4, <1>6, <2>1
<1>8. CASE U \ {x} # {}
  <2>1. <<U \ {x}, U>> \in StrictSubsetOrdering(S)
    BY <1>4, <1>5 DEF StrictSubsetOrdering
  <2>2. HasMax(U \ {x})
    BY <1>3, <1>4, <1>8, <2>1
  <2>3. PICK m \in U \ {x} : \A k \in U \ {x} : k <= m
    BY <2>2
  <2>4. m \in Nat /\ \A k \in U : k = x \/ k <= m
    BY <1>6, <2>3
  <2>5. CASE x <= m
    BY <1>4, <2>3, <2>4, <2>5
  <2>6. CASE ~(x <= m)
    <3>1. \A k \in U : k <= x
      BY <1>6, <2>4, <2>6
    <3>2. QED
      BY <1>4, <3>1
  <2>7. QED
    BY <2>5, <2>6
<1>9. QED
  BY <1>7, <1>8

(* No message is longer than LargestMsg. *)
LEMMA LargestFacts == LargestMsg \in Nat /\ \A k \in MsgSizes : k <= LargestMsg
<1>1. \E m \in MsgSizes : \A k \in MsgSizes : k <= m
  BY RIOBounds, LargestExists
<1>2. LargestMsg \in MsgSizes /\ \A k \in MsgSizes : k <= LargestMsg
  BY <1>1 DEF LargestMsg
<1>3. QED
  BY <1>2, RIOBounds

(* Products grow with a factor. *)
LEMMA Product ==
    ASSUME NEW a \in Nat, NEW b \in Nat, NEW m \in Nat, a <= b
    PROVE  a * m <= b * m /\ a * m \in Nat /\ b * m \in Nat
<1>1. PICK c \in Nat : b = a + c
  <2>1. b - a \in Nat /\ b = a + (b - a)
    OBVIOUS
  <2>2. QED
    BY <2>1
<1>2. b * m = a * m + c * m
  BY <1>1
<1>3. a * m \in Nat /\ c * m \in Nat /\ b * m \in Nat
  OBVIOUS
<1>4. QED
  BY <1>2, <1>3

(* One more. *)
LEMMA ProductOne ==
    ASSUME NEW a \in Nat, NEW m \in Nat
    PROVE  (a + 1) * m = a * m + m
OBVIOUS

(* Between the test and the enqueue there are at most the senders and the  *)
(* worker that holds m_RecvMutex.                                          *)
LEMMA PassedFew ==
    RioInv => /\ IsFiniteSet(Passed) /\ Cardinality(Passed) \in Nat
              /\ Cardinality(Senders) \in Nat
              /\ Cardinality(Passed) <= Cardinality(Senders) + 1
<1> SUFFICES ASSUME RioInv
             PROVE  /\ IsFiniteSet(Passed) /\ Cardinality(Passed) \in Nat
                    /\ Cardinality(Senders) \in Nat
                    /\ Cardinality(Passed) <= Cardinality(Senders) + 1
  OBVIOUS
<1>1. ThreadInv /\ m_RecvMutex \subseteq Workers
  BY DEF RioInv, RioType, ThreadType
<1>2. Passed \subseteq Senders \cup m_RecvMutex
  <2>1. ASSUME NEW t \in Threads, pc[t] = "enqueue", t \notin Senders PROVE t \in m_RecvMutex
    <3>1. OwnOK(t) /\ t # Acceptor
      BY <1>1, <2>1, WhoIsWhere DEF ThreadInv, SendLabels
    <3>2. t \in Workers
      BY <2>1, <3>1 DEF Threads
    <3>3. QED
      BY <2>1, <3>1, <3>2 DEF OwnOK
  <2>2. QED
    BY <2>1 DEF Passed
<1>3. \E w : Passed \subseteq Senders \cup {w}
  BY <1>1, <1>2 DEF ThreadInv
<1>4. PICK w : Passed \in SUBSET (Senders \cup {w})
  BY <1>3
<1>5. IsFiniteSet(Senders) /\ Cardinality(Senders) \in Nat
  BY RIOThreads, FS_CardinalityType
<1>6. /\ IsFiniteSet(Senders \cup {w}) /\ Cardinality(Senders \cup {w}) \in Nat
      /\ Cardinality(Senders \cup {w}) <= Cardinality(Senders) + 1
  <2>1. /\ IsFiniteSet(Senders \cup {w})
        /\ Cardinality(Senders \cup {w}) =
             IF w \in Senders THEN Cardinality(Senders) ELSE Cardinality(Senders) + 1
    BY <1>5, FS_AddElement
  <2>2. QED
    BY <1>5, <2>1
<1>7. IsFiniteSet(Passed) /\ Cardinality(Passed) <= Cardinality(Senders \cup {w})
  BY <1>4, <1>6, FS_Subset
<1>8. Cardinality(Passed) \in Nat
  BY <1>7, FS_CardinalityType
<1>9. QED
  BY <1>5, <1>6, <1>7, <1>8

(* The same in the next state. *)
LEMMA PassedFewNext ==
    RioInv' => (/\ IsFiniteSet(Passed) /\ Cardinality(Passed) \in Nat
                /\ Cardinality(Senders) \in Nat
                /\ Cardinality(Passed) <= Cardinality(Senders) + 1)'
BY PassedFew, PTL

(* A step after which no more threads are past the test, and no more bytes *)
(* are pending, keeps the bound.                                           *)
LEMMA BoundFrame ==
    ASSUME RioInv, BoundInv, Passed' \subseteq Passed, m_PendingTotalBytes' \in Int,
           m_PendingTotalBytes' <= m_PendingTotalBytes
    PROVE  BoundInv'
<1>1. IsFiniteSet(Passed) /\ Cardinality(Passed) \in Nat /\ Cardinality(Senders) \in Nat
  BY PassedFew
<1>2. Cardinality(Passed') \in Nat /\ Cardinality(Passed') <= Cardinality(Passed)
  <2>1. Passed' \in SUBSET Passed
    OBVIOUS
  <2>2. IsFiniteSet(Passed') /\ Cardinality(Passed') <= Cardinality(Passed)
    BY <1>1, <2>1, FS_Subset
  <2>3. QED
    BY <2>2, FS_CardinalityType
<1>3. /\ Cardinality(Passed') * LargestMsg <= Cardinality(Passed) * LargestMsg
      /\ Cardinality(Passed') * LargestMsg \in Nat /\ Cardinality(Passed) * LargestMsg \in Nat
  BY <1>1, <1>2, LargestFacts, Product
<1>4. (Cardinality(Senders) + 1) * LargestMsg \in Nat
  BY <1>1, LargestFacts
<1>5. m_PendingTotalBytes \in Int /\ MAX_PENDING_BYTES \in Nat
  BY RIOBounds DEF RioInv, RioType, DataType
<1>6. m_PendingTotalBytes + Cardinality(Passed) * LargestMsg
        <= MAX_PENDING_BYTES + (Cardinality(Senders) + 1) * LargestMsg
  BY DEF BoundInv
<1>7. m_PendingTotalBytes' + Cardinality(Passed') * LargestMsg
        <= MAX_PENDING_BYTES + (Cardinality(Senders) + 1) * LargestMsg
  <2>1. ASSUME NEW a \in Int, NEW b \in Int, NEW c \in Int, NEW d \in Int, NEW e \in Int,
               a + c <= e, b <= a, d <= c
        PROVE  b + d <= e
    BY <2>1
  <2>2. MAX_PENDING_BYTES + (Cardinality(Senders) + 1) * LargestMsg \in Int
    BY <1>4, <1>5
  <2>3. QED
    BY <1>3, <1>5, <1>6, <2>1, <2>2
<1>8. Passed' = {t \in Threads : pc'[t] = "enqueue"}
  BY DEF Passed
<1>9. QED
  BY <1>7 DEF BoundInv, LargestMsg

(* Backpressure lets a thread pass only while the total is within the      *)
(* limit; Enqueue spends what the thread was allowed.                      *)
LEMMA BoundNext == RioInv /\ RioInv' /\ BoundInv /\ [Next]_vars => BoundInv'
<1> SUFFICES ASSUME RioInv, RioInv', BoundInv, [Next]_vars PROVE BoundInv'
  OBVIOUS
<1>0. /\ m_PendingTotalBytes \in Int /\ m_PendingTotalBytes' \in Int
      /\ MAX_PENDING_BYTES \in Nat /\ pc \in [Threads -> AcceptLabels \cup WorkLabels]
  BY RIOBounds DEF RioInv, RioType, DataType, ThreadType
<1>1. CASE UNCHANGED <<m_PendingTotalBytes, pc>>
  <2>1. Passed' \subseteq Passed /\ m_PendingTotalBytes' <= m_PendingTotalBytes
    BY <1>0, <1>1 DEF Passed
  <2>2. QED
    BY <1>0, <2>1, BoundFrame
<1>2. ASSUME NEW t \in Threads, Backpressure(t) PROVE BoundInv'
  <2>1. CASE m_PendingTotalBytes > MAX_PENDING_BYTES
    <3>1. Passed' \subseteq Passed /\ m_PendingTotalBytes' <= m_PendingTotalBytes
      BY <1>0, <1>2, <2>1 DEF Backpressure, Goto, Passed
    <3>2. QED
      BY <1>0, <3>1, BoundFrame
  <2>2. CASE ~(m_PendingTotalBytes > MAX_PENDING_BYTES)
    <3>1. m_PendingTotalBytes' = m_PendingTotalBytes /\ m_PendingTotalBytes <= MAX_PENDING_BYTES
      BY <1>0, <1>2, <2>2 DEF Backpressure
    <3>2. /\ Cardinality(Passed') \in Nat /\ Cardinality(Senders) \in Nat
          /\ Cardinality(Passed') <= Cardinality(Senders) + 1
      BY PassedFew, PassedFewNext
    <3>3. /\ Cardinality(Passed') * LargestMsg <= (Cardinality(Senders) + 1) * LargestMsg
          /\ Cardinality(Passed') * LargestMsg \in Nat
          /\ (Cardinality(Senders) + 1) * LargestMsg \in Nat
      <4>1. Cardinality(Senders) + 1 \in Nat
        BY <3>2
      <4>2. QED
        BY <3>2, <4>1, LargestFacts, Product
    <3>4. m_PendingTotalBytes' + Cardinality(Passed') * LargestMsg
            <= MAX_PENDING_BYTES + (Cardinality(Senders) + 1) * LargestMsg
      BY <1>0, <3>1, <3>3
    <3>5. QED
      BY <3>4 DEF BoundInv, LargestMsg
  <2>3. QED
    BY <2>1, <2>2
<1>3. ASSUME NEW t \in Threads, Enqueue(t) PROVE BoundInv'
  <2>1. pc[t] = "enqueue" /\ Passed' = Passed \ {t} /\ t \in Passed
    BY <1>0, <1>3 DEF Enqueue, At, Goto, Passed
  <2>2. size[t] \in Nat /\ size[t] <= LargestMsg /\ LargestMsg \in Nat
    <3>1. size[t] \in MsgSizes
      BY <2>1 DEF RioInv, ThreadInv, OwnOK
    <3>2. QED
      BY <3>1, LargestFacts, RIOBounds
  <2>3. m_PendingTotalBytes' <= m_PendingTotalBytes + LargestMsg
    <3>1. m_PendingTotalBytes' \in {m_PendingTotalBytes, m_PendingTotalBytes + size[t]}
      BY <1>3 DEF Enqueue
    <3>2. QED
      BY <1>0, <2>2, <3>1
  <2>4. /\ IsFiniteSet(Passed) /\ Cardinality(Passed) \in Nat /\ Cardinality(Senders) \in Nat
        /\ Cardinality(Passed') \in Nat
    BY PassedFew, PassedFewNext
  <2>5. Cardinality(Passed) = Cardinality(Passed') + 1
    <3>1. Cardinality(Passed \ {t}) = Cardinality(Passed) - 1
      BY <2>1, <2>4, FS_RemoveElement
    <3>2. QED
      BY <2>1, <2>4, <3>1
  <2>6. Cardinality(Passed) * LargestMsg = Cardinality(Passed') * LargestMsg + LargestMsg
    BY <2>2, <2>4, <2>5, ProductOne
  <2>7. /\ Cardinality(Passed) * LargestMsg \in Nat /\ Cardinality(Passed') * LargestMsg \in Nat
        /\ (Cardinality(Senders) + 1) * LargestMsg \in Nat
    BY <2>2, <2>4
  <2>8. m_PendingTotalBytes' + Cardinality(Passed') * LargestMsg
          <= MAX_PENDING_BYTES + (Cardinality(Senders) + 1) * LargestMsg
    <3>1. m_PendingTotalBytes + Cardinality(Passed) * LargestMsg
            <= MAX_PENDING_BYTES + (Cardinality(Senders) + 1) * LargestMsg
      BY DEF BoundInv
    <3>2. QED
      BY <1>0, <2>2, <2>3, <2>6, <2>7, <3>1
  <2>9. QED
    BY <2>8 DEF BoundInv, LargestMsg
<1>4. ASSUME NEW t \in Threads, FlushCopy(t) PROVE BoundInv'
  <2>1. Passed' = Passed
    BY <1>4 DEF FlushCopy, Passed
  <2>2. m_PendingTotalBytes' <= m_PendingTotalBytes
    <3> DEFINE p == Head(m_PendingSendQueue)
    <3>1. m_PendingSendQueue # <<>> /\ FreeSpace > 0
      BY <1>4 DEF FlushCopy
    <3>2. p \in Packets /\ CopyLength \in Nat /\ p.Offset + CopyLength <= PacketLength(p)
      BY <3>1, CopyFacts
    <3>3. PacketLength(p) \in Nat
      BY <3>2 DEF PacketLength, Packets
    <3>4. m_PendingTotalBytes' \in {m_PendingTotalBytes, m_PendingTotalBytes - PacketLength(p)}
      BY <1>4 DEF FlushCopy
    <3> HIDE DEF p
    <3>5. QED
      BY <1>0, <3>3, <3>4
  <2>3. QED
    BY <1>0, <2>1, <2>2, BoundFrame
<1>5. ASSUME NEW t \in Threads, Step(t) \/ SendMessage(t),
             ~(Backpressure(t) \/ Enqueue(t) \/ FlushCopy(t))
      PROVE  BoundInv'
  <2>1. m_PendingTotalBytes' = m_PendingTotalBytes
    BY <1>5 DEF Step, Accept, Send, Receive, Work, CreateSession, Initialize,
       OnAcceptedAdd, OnAcceptedStart, SendCheck, FlushLock, FlushPost,
       OnDisconnected, RequestRecvCheck, RequestRecvPost, Dequeue, BatchDone,
       OnFailed, OnReceived, ReadPacket, ReadStop, OnSent, SendMessage,
       StartReceiveLoop
  <2>2. pc'[t] # "enqueue" \/ pc' = pc
    BY <1>0, <1>5 DEF Step, Accept, Send, Receive, Work, CreateSession, Initialize,
       OnAcceptedAdd, OnAcceptedStart, SendCheck, FlushLock, FlushPost,
       OnDisconnected, RequestRecvCheck, RequestRecvPost, Dequeue, BatchDone,
       OnFailed, OnReceived, ReadPacket, ReadStop, OnSent, SendMessage,
       StartReceiveLoop, Goto, Return, Armed, CallSend
  <2>3. \A u \in Threads \ {t} : pc'[u] = pc[u]
    BY <1>5, StepOthers DEF OthersSame
  <2>4. Passed' \subseteq Passed
    BY <2>2, <2>3 DEF Passed
  <2>5. QED
    BY <1>0, <2>1, <2>4, BoundFrame
<1>6. CASE KernelReceived \/ KernelSent \/ KernelFailed
  BY <1>1, <1>6 DEF KernelReceived, KernelSent, KernelFailed
<1>7. CASE UNCHANGED vars
  BY <1>1, <1>7 DEF vars
<1>8. QED
  BY <1>2, <1>3, <1>4, <1>5, <1>6, <1>7 DEF Next, Threads

(* The backpressure test reads an exact total and bounds the queue: one    *)
(* packet per thread that may be between the test and the enqueue, past    *)
(* MAX_PENDING_BYTES, whatever the number of senders and workers.          *)
THEOREM PendingIsAccounted == Spec => []PendingAccounted
<1>1. Init => BoundInv
  <2> SUFFICES ASSUME Init PROVE BoundInv
    OBVIOUS
  <2>1. RioInv
    BY RioInit
  <2>2. /\ Cardinality(Passed) \in Nat /\ Cardinality(Senders) \in Nat
        /\ Cardinality(Passed) <= Cardinality(Senders) + 1
    BY <2>1, PassedFew
  <2>3. /\ Cardinality(Passed) * LargestMsg <= (Cardinality(Senders) + 1) * LargestMsg
        /\ Cardinality(Passed) * LargestMsg \in Nat
        /\ (Cardinality(Senders) + 1) * LargestMsg \in Nat
    <3>1. Cardinality(Senders) + 1 \in Nat
      BY <2>2
    <3>2. QED
      BY <2>2, <3>1, LargestFacts, Product
  <2>4. m_PendingTotalBytes = 0
    BY DEF Init
  <2>5. QED
    BY <2>3, <2>4, RIOBounds DEF BoundInv
<1>2. RioInv /\ BoundInv => PendingAccounted
  <2> SUFFICES ASSUME RioInv, BoundInv PROVE PendingAccounted
    OBVIOUS
  <2>1. m_PendingTotalBytes =
          IF m_PendingSendQueue = <<>> THEN 0 ELSE accepted - m_PendingSendQueue[1].first + 1
    BY DEF RioInv, QueueInv
  <2>2. m_PendingTotalBytes <= MAX_PENDING_BYTES + (Cardinality(Senders) + 1) * LargestMsg
    <3>1. Cardinality(Passed) \in Nat /\ Cardinality(Senders) \in Nat /\ LargestMsg \in Nat
      BY PassedFew, LargestFacts
    <3>2. Cardinality(Passed) * LargestMsg \in Nat /\ (Cardinality(Senders) + 1) * LargestMsg \in Nat
      BY <3>1
    <3>3. m_PendingTotalBytes \in Int /\ MAX_PENDING_BYTES \in Nat
      BY RIOBounds DEF RioInv, RioType, DataType
    <3>4. m_PendingTotalBytes + Cardinality(Passed) * LargestMsg
            <= MAX_PENDING_BYTES + (Cardinality(Senders) + 1) * LargestMsg
      BY DEF BoundInv
    <3>5. QED
      BY <3>2, <3>3, <3>4
  <2>3. QED
    BY <2>1, <2>2 DEF PendingAccounted, LargestMsg
<1>3. QED
  BY <1>1, <1>2, RioInvariant, BoundNext, PTL DEF Spec

-----------------------------------------------------------------------------
(* The receive loop. *)

(* A step that keeps a receive busy, or ends the session, keeps the loop   *)
(* alive; only the owner of m_RecvMutex can be about to post.              *)
LEMMA LoopNext == RioInv /\ RioInv' /\ LoopInv /\ [Next]_vars => LoopInv'
<1> SUFFICES ASSUME RioInv, RioInv', LoopInv, [Next]_vars PROVE LoopInv'
  OBVIOUS
<1> DEFINE Busy == recvOut # <<>> \/ Waiting("recv") \/ m_RecvMutex # {} \/ Arming
<1> DEFINE Deaf == Clogged \/ "recv" \in refused
<1> DEFINE Live == m_bReceiveLoopStarted = TRUE /\ m_bIsDisconnected = FALSE /\ CanReceive
<1> DEFINE Room == \A t \in Workers : pc[t] \in {"arm", "post"} => (frame = 0 \/ recvSize < frame)
<1>0. /\ FlagType /\ FlagType' /\ DataType /\ ThreadType /\ ThreadInv /\ RecvInv /\ CreateInv
  BY DEF RioInv, RioType
<1>1. (Live => Busy \/ Deaf) /\ Room
  BY <1>0 DEF LoopInv, RecvLoopAlive, Arming, FlagType
<1>2. SUFFICES (Live' => Busy' \/ Deaf') /\ Room'
  BY <1>0 DEF LoopInv, RecvLoopAlive, Arming, FlagType
<1>3. ASSUME UNCHANGED <<recvOut, m_RecvMutex, recvSize, frame, recvCap, m_RQ, m_bReceiveLoopStarted>>,
             "recv" \in refused => "recv" \in refused',
             Arming' <=> Arming, m_bIsDisconnected' = FALSE => m_bIsDisconnected = FALSE,
             Waiting("recv") /\ m_bIsDisconnected' = FALSE => Waiting("recv")',
             \A t \in Workers : pc'[t] \in {"arm", "post"} => pc[t] \in {"arm", "post"}
      PROVE  (Live' => Busy' \/ Deaf') /\ Room'
  <2>1. Live' => Live
    BY <1>3 DEF CanReceive
  <2>2. Live' => Busy' \/ Deaf'
    BY <1>1, <1>3, <2>1 DEF Clogged
  <2>3. Room'
    BY <1>1, <1>3
  <2>4. QED
    BY <2>2, <2>3
<1>4. ASSUME NEW t \in Threads, Step(t) \/ SendMessage(t) PROVE (Live' => Busy' \/ Deaf') /\ Room'
  <2>0. /\ OthersSame(t) /\ Acceptor \in Threads /\ Workers \subseteq Threads
    BY <1>4, StepOthers DEF Threads
  <2>a. ~(OnFailed(t) \/ OnReceived(t) \/ OnSent(t)) => Kept("recv")
    BY <1>4, StepResults
  <2>1. CASE CreateSession(t)
    <3>1. pc[t] = "create" /\ t = Acceptor
      BY <1>0, <2>1, WhoIsWhere DEF CreateSession, At
    <3>2. m_bReceiveLoopStarted' = FALSE /\ \A u \in Workers : pc'[u] = "idle"
      BY <1>0, <2>0, <2>1, <3>1, RIOThreads DEF CreateSession, CreateInv, OthersSame
    <3>3. QED
      BY <3>2
  <2>2. CASE Initialize(t) \/ OnAcceptedStart(t)
    <3>1. pc[t] \in {"init", "start"} /\ t = Acceptor
      BY <1>0, <2>2, WhoIsWhere DEF Initialize, OnAcceptedStart, At
    <3>2. /\ UNCHANGED <<recvOut, m_RecvMutex, recvSize, frame, recvCap, m_RQ, refused, m_bIsDisconnected>>
          /\ \A u \in Workers : pc'[u] = pc[u]
          /\ Kept("recv")
      <4>1. ~(OnFailed(t) \/ OnReceived(t) \/ OnSent(t))
        BY <3>1 DEF OnFailed, OnReceived, OnSent, At
      <4>2. QED
        BY <2>0, <2>2, <2>a, <3>1, <4>1, RIOThreads
           DEF Initialize, OnAcceptedStart, StartReceiveLoop, OthersSame
    <3>3. \/ pc'[Acceptor] = "arm"
          \/ m_bReceiveLoopStarted' = m_bReceiveLoopStarted /\ pc'[Acceptor] \in {"add", "done"}
      BY <1>0, <2>0, <2>2, <3>1
         DEF Initialize, OnAcceptedStart, StartReceiveLoop, Goto, ThreadType, FlagType
    <3>4. ~Arming
      BY <3>1 DEF Arming
    <3>5. Room'
      BY <1>1, <3>2
    <3>6. CASE pc'[Acceptor] = "arm"
      BY <3>5, <3>6 DEF Arming
    <3>7. CASE m_bReceiveLoopStarted' = m_bReceiveLoopStarted /\ pc'[Acceptor] \in {"add", "done"}
      BY <1>1, <3>2, <3>4, <3>5, <3>7 DEF Arming, Kept, CanReceive, Clogged
    <3>8. QED
      BY <3>3, <3>6, <3>7
  <2>3. CASE OnAcceptedAdd(t)
    <3>1. pc[t] = "add" /\ t = Acceptor
      BY <1>0, <2>3, WhoIsWhere DEF OnAcceptedAdd, At
    <3>2. ~(OnFailed(t) \/ OnReceived(t) \/ OnSent(t))
      BY <3>1 DEF OnFailed, OnReceived, OnSent, At
    <3>3. /\ UNCHANGED <<recvOut, m_RecvMutex, recvSize, frame, recvCap, m_RQ, refused,
                         m_bReceiveLoopStarted, m_bIsDisconnected>>
          /\ pc'[Acceptor] = "start" /\ \A u \in Workers : pc'[u] = pc[u]
      BY <1>0, <2>0, <2>3, <3>1, RIOThreads DEF OnAcceptedAdd, Goto, ThreadType, OthersSame
    <3>4. Arming' <=> Arming
      BY <3>1, <3>3 DEF Arming
    <3>5. Waiting("recv") => Waiting("recv")'
      BY <2>a, <3>2 DEF Kept
    <3>6. QED
      BY <1>3, <3>3, <3>4, <3>5
  <2>4. CASE RequestRecvCheck(t)
    <3>1. pc[t] = "arm" /\ (t = Acceptor \/ t \in m_RecvMutex)
      BY <1>0, <2>4, WhoIsWhere DEF RequestRecvCheck, At
    <3>2. ~(OnFailed(t) \/ OnReceived(t) \/ OnSent(t))
      BY <3>1 DEF OnFailed, OnReceived, OnSent, At
    <3>3. UNCHANGED <<recvOut, recvSize, frame, recvCap, m_RQ, refused, m_bReceiveLoopStarted,
                      m_bIsDisconnected>>
      BY <2>4 DEF RequestRecvCheck
    <3>4. CASE m_bIsDisconnected = TRUE
      <4>1. pc'[t] \notin {"arm", "post"}
        BY <1>0, <2>4, <3>4 DEF RequestRecvCheck, Goto, Armed, ThreadType
      <4>2. \A u \in Workers : pc'[u] \in {"arm", "post"} => pc[u] \in {"arm", "post"}
        BY <2>0, <4>1 DEF OthersSame
      <4>3. Room'
        BY <1>1, <3>3, <4>2
      <4>4. QED
        BY <3>3, <3>4, <4>3
    <3>5. CASE m_bIsDisconnected = FALSE
      <4>1. pc'[t] = "post" /\ m_RecvMutex' = m_RecvMutex
        BY <1>0, <2>4, <3>5 DEF RequestRecvCheck, Goto, ThreadType
      <4>2. /\ \A u \in Workers : pc'[u] \in {"arm", "post"} => pc[u] \in {"arm", "post"}
            /\ Arming' <=> Arming
        BY <2>0, <3>1, <4>1 DEF OthersSame, Arming
      <4>3. Waiting("recv") => Waiting("recv")'
        BY <2>a, <3>2 DEF Kept
      <4>4. QED
        BY <1>3, <3>3, <4>1, <4>2, <4>3
    <3>6. QED
      BY <1>0, <3>4, <3>5 DEF FlagType
  <2>5. CASE RequestRecvPost(t)
    <3>1. pc[t] = "post" /\ (t = Acceptor \/ t \in m_RecvMutex)
      BY <1>0, <2>5, WhoIsWhere DEF RequestRecvPost, At
    <3>2. UNCHANGED <<recvSize, frame, recvCap, m_RQ, m_bReceiveLoopStarted, m_bIsDisconnected>>
      BY <2>5 DEF RequestRecvPost
    <3>3. pc'[t] \notin {"arm", "post"}
      BY <1>0, <2>5 DEF RequestRecvPost, Goto, Armed, ThreadType
    <3>4. \A u \in Workers : pc'[u] \in {"arm", "post"} => pc[u] \in {"arm", "post"}
      BY <2>0, <3>3 DEF OthersSame
    <3>5. Room'
      BY <1>1, <3>2, <3>4
    <3>6. CASE WritableSpan > 0
      <4>1. CASE "recv" \in refused'
        BY <3>5, <4>1
      <4>2. CASE "recv" \notin refused'
        <5>1. recvOut' = Append(recvOut, WritableSpan)
          BY <2>5, <3>6, <4>2 DEF RequestRecvPost
        <5>2. WritableSpan \in Nat
          BY WritableFacts, RIOBounds DEF RioInv, RioType, DataType
        <5>3. Len(recvOut') = Len(recvOut) + 1 /\ Len(recvOut) \in Nat
          BY <1>0, <5>1, <5>2, AppendFacts DEF DataType
        <5>4. recvOut' # <<>>
          BY <5>3
        <5>5. QED
          BY <3>5, <5>4
      <4>3. QED
        BY <4>1, <4>2
    <3>7. CASE ~(WritableSpan > 0)
      <4>0. recvCap \in Nat /\ recvSize \in 0..recvCap
        BY RIOBounds DEF RioInv, RioType, DataType, RecvInv
      <4>a. ~(recvSize < recvCap)
        BY <3>7, WritableFacts
      <4>1. recvSize = recvCap
        BY <4>0, <4>a
      <4>2. CanReceive => (frame = 0 \/ recvSize < frame)
        <5>1. CASE t = Acceptor
          BY <1>0, <3>1, <4>1, <5>1 DEF RecvInv, Arming, CanReceive
        <5>2. CASE t # Acceptor
          BY <1>0, <1>1, <3>1, <5>2 DEF ThreadType
        <5>3. QED
          BY <5>1, <5>2
      <4>3. CanReceive => Clogged
        BY <4>1, <4>2 DEF Clogged
      <4>4. Live' => Clogged'
        BY <3>2, <4>3 DEF Clogged, CanReceive
      <4>5. QED
        BY <3>5, <4>4
    <3>8. QED
      BY <3>6, <3>7
  <2>6. CASE OnReceived(t)
    <3>1. t \in m_RecvMutex' /\ m_RecvMutex = {} /\ pc'[t] = "frames"
      BY <1>0, <2>6 DEF OnReceived, Goto, ThreadType
    <3>2. \A u \in Workers : pc[u] \notin {"arm", "post"}
      BY <1>0, <2>0, <3>1, RIOThreads, WhoIsWhere
    <3>3. \A u \in Workers : pc'[u] \notin {"arm", "post"}
      BY <2>0, <3>1, <3>2 DEF OthersSame
    <3>4. QED
      BY <3>1, <3>3
  <2>7. CASE ReadPacket(t)
    <3>1. pc[t] = "frames" /\ t \in m_RecvMutex
      BY <1>0, <2>7, WhoIsWhere DEF ReadPacket, At
    <3>2. m_RecvMutex' = m_RecvMutex /\ pc'[t] \in {"frames", "check"}
      BY <1>0, <2>7, <3>1 DEF ReadPacket, CallSend, Goto, ThreadType
    <3>3. \A u \in Workers : pc[u] \in {"arm", "post"} => u = t
      BY <1>0, <2>0, <3>1, RIOThreads, WhoIsWhere DEF ThreadInv
    <3>4. \A u \in Workers : pc'[u] \notin {"arm", "post"}
      BY <2>0, <3>1, <3>2, <3>3 DEF OthersSame
    <3>5. QED
      BY <3>1, <3>2, <3>4
  <2>8. CASE ReadStop(t)
    <3>1. pc[t] = "frames" /\ t \in m_RecvMutex
      BY <1>0, <2>8, WhoIsWhere DEF ReadStop, At
    <3>2. /\ m_RecvMutex' = m_RecvMutex
          /\ UNCHANGED <<recvSize, frame>> /\ (frame = 0 \/ recvSize < frame)
      BY <2>8 DEF ReadStop
    <3>3. \A u \in Workers : u # t => pc'[u] \notin {"arm", "post"}
      BY <1>0, <2>0, <3>1, RIOThreads, WhoIsWhere DEF ThreadInv, OthersSame
    <3>5. Room'
      BY <3>2, <3>3
    <3>6. QED
      BY <3>1, <3>2, <3>5
  <2>9. CASE \/ SendCheck(t) \/ Backpressure(t) \/ Enqueue(t) \/ FlushLock(t) \/ FlushCopy(t)
            \/ FlushPost(t) \/ OnDisconnected(t) \/ Dequeue(t) \/ BatchDone(t)
            \/ OnSent(t) \/ SendMessage(t) \/ OnFailed(t)
    <3>1. pc[t] \in {"idle", "next", "frames"} \cup SendLabels
      BY <2>9 DEF SendCheck, Backpressure, Enqueue, FlushLock, FlushCopy, FlushPost,
         OnDisconnected, Dequeue, BatchDone, OnSent, SendMessage, OnFailed, At,
         SendLabels
    <3>2. t # Acceptor
      BY <1>0, <3>1, WhoIsWhere, RIOThreads
    <3>3. /\ UNCHANGED <<recvOut, m_RecvMutex, recvSize, frame, recvCap, m_RQ, m_bReceiveLoopStarted>>
          /\ "recv" \in refused => "recv" \in refused'
      BY <2>9 DEF SendCheck, Backpressure, Enqueue, FlushLock, FlushCopy, FlushPost,
         OnDisconnected, Dequeue, BatchDone, OnSent, SendMessage, OnFailed
    <3>4. m_bIsDisconnected' = FALSE => m_bIsDisconnected = FALSE
      BY <2>9 DEF SendCheck, Backpressure, Enqueue, FlushLock, FlushCopy, FlushPost,
         OnDisconnected, Dequeue, BatchDone, OnSent, SendMessage, OnFailed
    <3>5. pc'[t] \notin {"arm", "post"}
      BY <1>0, <2>9, <3>1 DEF SendCheck, Backpressure, Enqueue, FlushLock,
         FlushCopy, FlushPost, OnDisconnected, Dequeue, BatchDone, OnSent,
         SendMessage, OnFailed, At, Goto, Return, CallSend, ThreadType, SendLabels
    <3>6. (Arming' <=> Arming) /\ \A u \in Workers : pc'[u] \in {"arm", "post"} => pc[u] \in {"arm", "post"}
      BY <2>0, <3>2, <3>5 DEF OthersSame, Arming
    <3>7. Waiting("recv") /\ m_bIsDisconnected' = FALSE => Waiting("recv")'
      <4>1. CASE OnFailed(t)
        BY <4>1 DEF OnFailed
      <4>2. CASE OnSent(t)
        BY <1>4, <4>2, StepResults DEF OnSent, Kept
      <4>3. CASE OnReceived(t)
        BY <2>6, <4>3, <3>3, <1>0 DEF OnReceived, ThreadType
      <4>4. CASE ~(OnFailed(t) \/ OnReceived(t) \/ OnSent(t))
        BY <2>a, <4>4 DEF Kept
      <4>5. QED
        BY <4>1, <4>2, <4>3, <4>4
    <3>8. QED
      BY <1>3, <3>3, <3>4, <3>6, <3>7
  <2>10. QED
    BY <1>4, <2>1, <2>2, <2>3, <2>4, <2>5, <2>6, <2>7, <2>8, <2>9
       DEF Step, Accept, Send, Receive, Work
<1>5. CASE KernelReceived \/ KernelSent \/ KernelFailed
  <2>1. UNCHANGED <<m_RecvMutex, recvSize, frame, recvCap, m_RQ, refused, m_bReceiveLoopStarted,
                    m_bIsDisconnected, pc>>
    BY <1>5 DEF KernelReceived, KernelSent, KernelFailed
  <2>2. Waiting("recv")' \/ (recvOut' = recvOut /\ (Waiting("recv")' <=> Waiting("recv")))
    BY <1>5, KernelResults DEF Added, Kept
  <2>3. Room'
    BY <1>1, <2>1
  <2>4. Live' => Busy' \/ Deaf'
    BY <1>1, <2>1, <2>2 DEF CanReceive, Arming, Clogged
  <2>5. QED
    BY <2>3, <2>4
<1>6. CASE UNCHANGED vars
  <2>1. Kept("recv")
    BY <1>6, ResultsSame DEF vars
  <2>2. QED
    BY <1>3, <1>6, <2>1 DEF vars, Kept, Arming
<1>7. QED
  BY <1>4, <1>5, <1>6 DEF Next, Threads

(* A connected session receives until its slice is clogged by a packet     *)
(* that never completes or RIOReceive refuses a request: in every other    *)
(* state a receive is in the kernel, or its completion waits, or a thread  *)
(* is on its way to post the next one, whatever the acceptor, the workers  *)
(* and the senders do (RequestRecv, OnRioIOCompleted).                     *)
THEOREM ReceiveLoopStaysAlive == Spec => []RecvLoopAlive
<1>1. Init => LoopInv
  <2> SUFFICES ASSUME Init PROVE LoopInv
    OBVIOUS
  <2>1. m_bReceiveLoopStarted = FALSE /\ \A t \in Workers : pc[t] = "idle"
    BY RIOThreads DEF Init, Threads
  <2>2. QED
    BY <2>1 DEF LoopInv, RecvLoopAlive
<1>2. LoopInv => RecvLoopAlive
  BY DEF LoopInv
<1>3. QED
  BY <1>1, <1>2, RioInvariant, LoopNext, PTL DEF Spec
=============================================================================
