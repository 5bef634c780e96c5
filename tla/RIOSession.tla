---------------------------- MODULE RIOSession -----------------------------
(***************************************************************************)
(* The registered-I/O session of LibNetworksRIO (RIOSession.cpp) as the    *)
(* RIO server creates it (RIOServiceMode::OnStarted, create callback),     *)
(* registers and removes it (RIOInboundSession.cpp) and serves it          *)
(* (RIOService::WorkerLoop).                                               *)
(*                                                                         *)
(* One session; its threads are the acceptor, the workers of the           *)
(* completion queue and other callers of SendMessage.  A step is one       *)
(* critical section, one atomic access or one RIO call; pc[t] names the    *)
(* next one.  The kernel is external: at most one posted receive and one   *)
(* posted send, each completed in part or in whole, or failed.             *)
(*                                                                         *)
(* Data: the bytes of outgoing messages are numbered in the order in which *)
(* m_SendQueueMutex admits them.  Of incoming bytes only their number and  *)
(* the length of the frame at the front of the buffer are kept.            *)
(***************************************************************************)
EXTENDS Integers, Sequences, FiniteSets

CONSTANTS
    Acceptor, Workers, Senders,
    RecvSlice, SendSlice,  \* C_RIO_RECV_BUFFER_SIZE, C_RIO_SEND_BUFFER_SIZE
    PoolFree,              \* bytes the registered pool may have left, a set
    MAX_PENDING_BYTES,
    MsgSizes, Frames,      \* packet lengths sent; received (0: not a valid length)
    MaxMsgs, MaxRecv,      \* bounds: messages accepted; bytes received
    PostFailures           \* may RIO calls fail on a live session

Threads == {Acceptor} \cup Workers \cup Senders

ASSUME RIOThreads ==
    /\ IsFiniteSet(Workers) /\ IsFiniteSet(Senders)
    /\ Acceptor \notin Workers \cup Senders
    /\ Workers \cap Senders = {}

ASSUME RIOBounds ==
    /\ RecvSlice \in Nat \ {0} /\ SendSlice \in Nat \ {0}
    /\ PoolFree \subseteq Nat
    /\ MAX_PENDING_BYTES \in Nat
    /\ MsgSizes \subseteq Nat \ {0} /\ Frames \subseteq Nat
    /\ IsFiniteSet(MsgSizes) /\ MsgSizes # {} /\ Frames # {}
    /\ MaxMsgs \in Nat /\ MaxRecv \in Nat
    /\ PostFailures \in BOOLEAN

VARIABLES
    m_bIsDisconnected, m_bReceiveLoopStarted, m_bSendInProgress,
    m_RQ,                    \* the request queue could be created
    recvCap, sendCap,        \* lengths of the slices the session was given
    recvHead, recvSize, frame,  \* receive ring; length of the frame in front
    sendHead, sendBuf,       \* send ring: position and bytes
    m_PendingSendQueue, m_PendingTotalBytes,
    m_RecvMutex, m_SendQueueMutex,   \* the set of owners
    inMap,                   \* the SessionContainer holds the session
    recvOut, sendOut,        \* lengths of the requests in the request queue
    cq,                      \* completion queue
    reset,                   \* the connection is broken
    refused,                 \* requests RIO refused and nobody has posted since
    wire, received,          \* bytes sent; number of bytes received
    accepted, msgs,          \* bytes and messages SendMessage admitted
    pc, batch, size          \* per thread: results[], totalSize

recvVars == <<recvHead, recvSize, frame>>
sendVars == <<sendHead, sendBuf, m_PendingSendQueue, m_PendingTotalBytes,
              m_bSendInProgress, accepted, msgs>>
kernel   == <<recvOut, sendOut, cq, reset, refused, wire, received>>
setup    == <<m_RQ, recvCap, sendCap>>
flags    == <<m_bIsDisconnected, m_bReceiveLoopStarted, inMap>>
locks    == <<m_RecvMutex, m_SendQueueMutex>>
vars == <<recvVars, sendVars, kernel, setup, flags, locks, pc, batch, size>>

Smaller(a, b) == IF a < b THEN a ELSE b
Results == [op : {"recv", "send"}, ok : BOOLEAN, n : Nat]

(* The acceptor and a sender own a shared_ptr while they run; the worker   *)
(* has a raw pointer.  What else keeps the session is the container.       *)
Freed ==
    /\ ~inMap
    /\ pc[Acceptor] = "done"
    /\ \A s \in Senders : pc[s] = "idle"

At(t, l) == pc[t] = l /\ ~Freed
Goto(t, l) == pc' = [pc EXCEPT ![t] = l]

Init ==
    /\ m_bIsDisconnected = FALSE /\ m_bReceiveLoopStarted = FALSE
    /\ m_bSendInProgress = FALSE
    /\ m_RQ = FALSE /\ recvCap = 0 /\ sendCap = 0
    /\ recvHead = 0 /\ recvSize = 0 /\ frame \in Frames
    /\ sendHead = 0 /\ sendBuf = <<>>
    /\ m_PendingSendQueue = <<>> /\ m_PendingTotalBytes = 0
    /\ m_RecvMutex = {} /\ m_SendQueueMutex = {}
    /\ inMap = FALSE
    /\ recvOut = <<>> /\ sendOut = <<>> /\ cq = <<>> /\ reset = FALSE /\ refused = {}
    /\ wire = <<>> /\ received = 0 /\ accepted = 0 /\ msgs = 0
    /\ pc = [t \in Threads |-> IF t = Acceptor THEN "create" ELSE "idle"]
    /\ batch = [t \in Threads |-> <<>>]
    /\ size = [t \in Threads |-> 0]

-----------------------------------------------------------------------------
(* The acceptor: create callback, Initialize, OnAccepted.                  *)

(* AllocateSlice takes size bytes off the pool or leaves the slice empty;  *)
(* nobody returns a slice, so m_FreeList is empty.                         *)
AllocateSlice(free, len) == IF len > free THEN 0 ELSE len

CreateSession(t) ==
    /\ At(t, "create")
    /\ \E free \in PoolFree :
          /\ recvCap' = AllocateSlice(free, RecvSlice)
          /\ sendCap' = AllocateSlice(free - recvCap', SendSlice)
    /\ m_RQ' \in BOOLEAN    \* RIOCreateRequestQueue
    /\ Goto(t, "init")
    /\ UNCHANGED <<recvVars, sendVars, kernel, flags, locks, batch, size>>

(* StartReceiveLoop: only the first caller goes on to RequestRecv. *)
StartReceiveLoop(t, after) ==
    /\ m_bReceiveLoopStarted' = TRUE
    /\ Goto(t, IF m_bReceiveLoopStarted THEN after ELSE "arm")
    /\ UNCHANGED <<recvVars, sendVars, kernel, setup, m_bIsDisconnected, inMap,
                   locks, batch, size>>

Initialize(t) ==
    /\ At(t, "init")
    /\ IF m_RQ THEN StartReceiveLoop(t, "add")
       ELSE /\ Goto(t, "add")
            /\ UNCHANGED <<recvVars, sendVars, kernel, setup, flags, locks,
                           batch, size>>

(* RIOInboundSession::OnAccepted registers the session ... *)
OnAcceptedAdd(t) ==
    /\ At(t, "add")
    /\ inMap' = TRUE
    /\ Goto(t, "start")
    /\ UNCHANGED <<recvVars, sendVars, kernel, setup, m_bIsDisconnected,
                   m_bReceiveLoopStarted, locks, batch, size>>

(* ... and RIOSession::OnAccepted starts the loop unless Initialize did. *)
OnAcceptedStart(t) == At(t, "start") /\ StartReceiveLoop(t, "done")

-----------------------------------------------------------------------------
(* RequestRecv, by the acceptor or by the worker that holds m_RecvMutex.   *)

Armed(t) ==
    IF t \in Workers THEN "next" ELSE IF inMap THEN "done" ELSE "add"

RequestRecvCheck(t) ==
    /\ At(t, "arm")
    /\ IF m_bIsDisconnected
       THEN /\ Goto(t, Armed(t))
            /\ m_RecvMutex' = m_RecvMutex \ {t}
       ELSE Goto(t, "post") /\ UNCHANGED m_RecvMutex
    /\ UNCHANGED <<recvVars, sendVars, kernel, setup, flags, m_SendQueueMutex,
                   batch, size>>

(* The first contiguous writable span of the receive ring. *)
WritableSpan ==
    IF recvSize = recvCap THEN 0
    ELSE Smaller(recvCap - recvSize, recvCap - ((recvHead + recvSize) % recvCap))

(* No free space, or a failed RIOReceive: the receive is not posted, which *)
(* is logged and nothing else.                                             *)
RequestRecvPost(t) ==
    /\ At(t, "post")
    /\ \/ /\ WritableSpan > 0 /\ m_RQ
          /\ recvOut' = Append(recvOut, WritableSpan) /\ UNCHANGED refused
       \/ /\ WritableSpan > 0 /\ (~m_RQ \/ PostFailures)
          /\ refused' = refused \cup {"recv"} /\ UNCHANGED recvOut
       \/ WritableSpan = 0 /\ UNCHANGED <<recvOut, refused>>
    /\ Goto(t, Armed(t))
    /\ m_RecvMutex' = m_RecvMutex \ {t}
    /\ UNCHANGED <<recvVars, sendVars, sendOut, cq, reset, wire, received, setup,
                   flags, m_SendQueueMutex, batch, size>>

-----------------------------------------------------------------------------
(* SendMessage and FlushPendingSendQueue.                                  *)

(* Where a call of SendMessage or of Flush returns to. *)
Return(t) ==
    IF t \in Senders THEN "idle" ELSE IF t \in m_RecvMutex THEN "frames" ELSE "next"

CallSend(t) ==
    /\ msgs < MaxMsgs
    /\ \E s \in MsgSizes : size' = [size EXCEPT ![t] = s]
    /\ Goto(t, "check")

(* A thread that is no completion handler: it found the session in the map. *)
SendMessage(t) ==
    /\ At(t, "idle") /\ t \in Senders /\ inMap
    /\ CallSend(t)
    /\ UNCHANGED <<recvVars, sendVars, kernel, setup, flags, locks, batch>>

SendCheck(t) ==
    /\ At(t, "check")
    /\ Goto(t, IF m_bIsDisconnected THEN Return(t) ELSE "limit")
    /\ UNCHANGED <<recvVars, sendVars, kernel, setup, flags, locks, batch, size>>

(* m_PendingTotalBytes is read without the lock. *)
Backpressure(t) ==
    /\ At(t, "limit")
    /\ IF m_PendingTotalBytes > MAX_PENDING_BYTES
       THEN m_bIsDisconnected' = TRUE /\ Goto(t, "drop")
       ELSE m_bIsDisconnected' = m_bIsDisconnected /\ Goto(t, "enqueue")
    /\ UNCHANGED <<recvVars, sendVars, kernel, setup, m_bReceiveLoopStarted, inMap,
                   locks, batch, size>>

Bytes(n) == [i \in 1..n |-> accepted + i]

FastPathAnyQueue(t) == sendCap - Len(sendBuf) >= size[t]

FastPath(t) ==
    m_PendingSendQueue = <<>> /\ sendCap - Len(sendBuf) >= size[t]

(* The critical section of SendMessage: the whole packet into the ring, or *)
(* to the end of the queue.                                                *)
Enqueue(t) ==
    /\ At(t, "enqueue") /\ m_SendQueueMutex = {}
    /\ accepted' = accepted + size[t]
    /\ msgs' = msgs + 1
    /\ IF FastPath(t)
       THEN /\ sendBuf' = sendBuf \o Bytes(size[t])
            /\ UNCHANGED <<m_PendingSendQueue, m_PendingTotalBytes>>
       ELSE /\ m_PendingSendQueue' = Append(m_PendingSendQueue,
                   [first |-> accepted + 1, last |-> accepted + size[t], Offset |-> 0])
            /\ m_PendingTotalBytes' = m_PendingTotalBytes + size[t]
            /\ UNCHANGED sendBuf
    /\ Goto(t, "flush")
    /\ UNCHANGED <<recvVars, sendHead, m_bSendInProgress, kernel, setup, flags,
                   locks, batch, size>>

FlushLock(t) ==
    /\ At(t, "flush") /\ m_SendQueueMutex = {}
    /\ m_SendQueueMutex' = {t}
    /\ Goto(t, "copy")
    /\ UNCHANGED <<recvVars, sendVars, kernel, setup, flags, m_RecvMutex, batch, size>>

PacketLength(p) == p.last - p.first + 1

FreeSpace == sendCap - Len(sendBuf)

(* One round of the loop: what fits of the first queued packet. *)
FlushCopyKeepsTotal(t) ==
    LET p == Head(m_PendingSendQueue)
        n == Smaller(PacketLength(p) - p.Offset, FreeSpace)
    IN  /\ At(t, "copy") /\ m_PendingSendQueue # <<>> /\ FreeSpace > 0
        /\ sendBuf' = sendBuf \o [i \in 1..n |-> p.first + p.Offset + i - 1]
        /\ IF p.Offset + n >= PacketLength(p)
           THEN /\ m_PendingTotalBytes' = m_PendingTotalBytes - n
                /\ m_PendingSendQueue' = Tail(m_PendingSendQueue)
           ELSE /\ m_PendingSendQueue' =
                      [m_PendingSendQueue EXCEPT ![1].Offset = p.Offset + n]
                /\ UNCHANGED m_PendingTotalBytes
        /\ UNCHANGED <<recvVars, sendHead, m_bSendInProgress, accepted, msgs, kernel,
                       setup, flags, locks, pc, batch, size>>

FlushCopy(t) ==
    LET p == Head(m_PendingSendQueue)
        n == Smaller(PacketLength(p) - p.Offset, FreeSpace)
    IN  /\ At(t, "copy") /\ m_PendingSendQueue # <<>> /\ FreeSpace > 0
        /\ sendBuf' = sendBuf \o [i \in 1..n |-> p.first + p.Offset + i - 1]
        /\ IF p.Offset + n >= PacketLength(p)
           THEN /\ m_PendingTotalBytes' = m_PendingTotalBytes - PacketLength(p)
                /\ m_PendingSendQueue' = Tail(m_PendingSendQueue)
           ELSE /\ m_PendingSendQueue' =
                      [m_PendingSendQueue EXCEPT ![1].Offset = p.Offset + n]
                /\ UNCHANGED m_PendingTotalBytes
        /\ UNCHANGED <<recvVars, sendHead, m_bSendInProgress, accepted, msgs, kernel,
                       setup, flags, locks, pc, batch, size>>

(* The first contiguous readable span of the send ring. *)
ReadableSpan == Smaller(Len(sendBuf), sendCap - sendHead)

MayPost == sendBuf # <<>>

CanPost == ~m_bSendInProgress /\ sendBuf # <<>>

(* The loop of FlushPendingSendQueue ends. *)
Copied == m_PendingSendQueue = <<>> \/ FreeSpace = 0

(* TryPostSendFromQueue, still under the lock, ends the flush.  A failed   *)
(* RIOSend clears the flag again and is logged: the bytes wait for the     *)
(* next flush.                                                             *)
FlushPost(t) ==
    /\ At(t, "copy") /\ Copied
    /\ \/ /\ CanPost /\ m_RQ
          /\ m_bSendInProgress' = TRUE
          /\ sendOut' = Append(sendOut, ReadableSpan)
          /\ refused' = refused \ {"send"}
       \/ /\ CanPost /\ (~m_RQ \/ PostFailures)
          /\ refused' = refused \cup {"send"}
          /\ UNCHANGED <<m_bSendInProgress, sendOut>>
       \/ ~CanPost /\ UNCHANGED <<m_bSendInProgress, sendOut, refused>>
    /\ m_SendQueueMutex' = {}
    /\ Goto(t, Return(t))
    /\ UNCHANGED <<recvVars, sendHead, sendBuf, m_PendingSendQueue,
                   m_PendingTotalBytes, accepted, msgs, recvOut, cq, reset, wire,
                   received, setup, flags, m_RecvMutex, batch, size>>

-----------------------------------------------------------------------------
(* RIOService::WorkerLoop and OnRioIOCompleted.                            *)

Dequeue(t) ==
    /\ At(t, "idle") /\ t \in Workers /\ cq # <<>>
    /\ batch' = [batch EXCEPT ![t] = cq]
    /\ cq' = <<>>
    /\ Goto(t, "next")
    /\ UNCHANGED <<recvVars, sendVars, recvOut, sendOut, reset, refused, wire, received, setup,
                   flags, locks, size>>

Result(t) == Head(batch[t])

NextResult(t) == batch' = [batch EXCEPT ![t] = Tail(@)]

BatchDone(t) ==
    /\ At(t, "next") /\ batch[t] = <<>>
    /\ Goto(t, "idle")
    /\ UNCHANGED <<recvVars, sendVars, kernel, setup, flags, locks, batch, size>>

OnFailed(t) ==
    /\ At(t, "next") /\ batch[t] # <<>>
    /\ ~Result(t).ok \/ (Result(t).op = "recv" /\ Result(t).n = 0)
    /\ m_bIsDisconnected' = TRUE
    /\ NextResult(t)
    /\ Goto(t, "drop")
    /\ UNCHANGED <<recvVars, sendVars, kernel, setup, m_bReceiveLoopStarted, inMap,
                   locks, size>>

(* RIOInboundSession::OnDisconnected, also called by Backpressure. *)
OnDisconnected(t) ==
    /\ At(t, "drop")
    /\ inMap' = FALSE
    /\ Goto(t, Return(t))
    /\ UNCHANGED <<recvVars, sendVars, kernel, setup, m_bIsDisconnected,
                   m_bReceiveLoopStarted, locks, batch, size>>

OnReceived(t) ==
    /\ At(t, "next") /\ batch[t] # <<>>
    /\ Result(t).ok /\ Result(t).op = "recv" /\ Result(t).n > 0
    /\ m_RecvMutex = {}
    /\ m_RecvMutex' = {t}
    /\ recvSize' = recvSize + Result(t).n
    /\ NextResult(t)
    /\ Goto(t, "frames")
    /\ UNCHANGED <<recvHead, frame, sendVars, kernel, setup, flags, m_SendQueueMutex,
                   size>>

(* ReadReceivedBuffers: a complete frame is popped and dispatched.         *)
(* OnPacketReceived answers an echo, benchmark or admin request and leaves *)
(* any other packet unanswered.                                            *)
ReadPacket(t) ==
    /\ At(t, "frames") /\ frame > 0 /\ recvSize >= frame
    /\ recvSize' = recvSize - frame
    /\ recvHead' = (recvHead + frame) % recvCap
    /\ frame' \in Frames
    /\ CallSend(t) \/ UNCHANGED <<pc, size>>
    /\ UNCHANGED <<sendVars, kernel, setup, flags, locks, batch>>

ReadStopNoRearm(t) ==
    /\ At(t, "frames") /\ (frame = 0 \/ recvSize < frame)
    /\ m_RecvMutex' = {}
    /\ Goto(t, "next")
    /\ UNCHANGED <<recvVars, sendVars, kernel, setup, flags, m_SendQueueMutex, batch, size>>

(* NeedMore, and Invalid too, end the loop; RequestRecv follows. *)
ReadStop(t) ==
    /\ At(t, "frames") /\ (frame = 0 \/ recvSize < frame)
    /\ Goto(t, "arm")
    /\ UNCHANGED <<recvVars, sendVars, kernel, setup, flags, locks, batch, size>>

OnSentNoFlush(t) ==
    /\ At(t, "next") /\ batch[t] # <<>>
    /\ Result(t).ok /\ Result(t).op = "send"
    /\ m_SendQueueMutex = {}
    /\ sendBuf' = SubSeq(sendBuf, Result(t).n + 1, Len(sendBuf))
    /\ sendHead' = (sendHead + Result(t).n) % sendCap
    /\ m_bSendInProgress' = FALSE
    /\ NextResult(t)
    /\ UNCHANGED <<recvVars, m_PendingSendQueue, m_PendingTotalBytes, accepted, msgs,
                   kernel, setup, flags, locks, pc, size>>

OnSent(t) ==
    /\ At(t, "next") /\ batch[t] # <<>>
    /\ Result(t).ok /\ Result(t).op = "send"
    /\ m_SendQueueMutex = {}
    /\ sendBuf' = SubSeq(sendBuf, Result(t).n + 1, Len(sendBuf))
    /\ sendHead' = (sendHead + Result(t).n) % sendCap
    /\ m_bSendInProgress' = FALSE
    /\ NextResult(t)
    /\ Goto(t, "flush")
    /\ UNCHANGED <<recvVars, m_PendingSendQueue, m_PendingTotalBytes, accepted, msgs,
                   kernel, setup, flags, locks, size>>

-----------------------------------------------------------------------------
(* The kernel. *)

Complete(op, ok, n) == cq' = Append(cq, [op |-> op, ok |-> ok, n |-> n])

KernelReceived ==
    /\ recvOut # <<>> /\ ~reset
    /\ \E n \in 0..Smaller(Head(recvOut), MaxRecv - received) :   \* 0: the peer closed
          Complete("recv", TRUE, n) /\ received' = received + n
    /\ recvOut' = Tail(recvOut)
    /\ UNCHANGED <<recvVars, sendVars, sendOut, reset, refused, wire, setup, flags, locks, pc,
                   batch, size>>

KernelSent ==
    /\ sendOut # <<>> /\ ~reset
    /\ \E n \in 1..Head(sendOut) :
          Complete("send", TRUE, n) /\ wire' = wire \o SubSeq(sendBuf, 1, n)
    /\ sendOut' = Tail(sendOut)
    /\ UNCHANGED <<recvVars, sendVars, recvOut, reset, refused, received, setup, flags, locks,
                   pc, batch, size>>

KernelFailed ==
    /\ \/ recvOut # <<>> /\ Complete("recv", FALSE, 0)
          /\ recvOut' = Tail(recvOut) /\ UNCHANGED sendOut
       \/ sendOut # <<>> /\ Complete("send", FALSE, 0)
          /\ sendOut' = Tail(sendOut) /\ UNCHANGED recvOut
    /\ reset' = TRUE
    /\ UNCHANGED <<recvVars, sendVars, refused, wire, received, setup, flags, locks, pc,
                   batch, size>>

Accept(t) ==
    CreateSession(t) \/ Initialize(t) \/ OnAcceptedAdd(t) \/ OnAcceptedStart(t)

Send(t) ==
    \/ SendCheck(t) \/ Backpressure(t) \/ Enqueue(t) \/ FlushLock(t) \/ FlushCopy(t)
    \/ FlushPost(t) \/ OnDisconnected(t)

Receive(t) == RequestRecvCheck(t) \/ RequestRecvPost(t)

Work(t) ==
    \/ Dequeue(t) \/ BatchDone(t) \/ OnFailed(t) \/ OnReceived(t) \/ ReadPacket(t)
    \/ ReadStop(t) \/ OnSent(t)

Step(t) == Accept(t) \/ Send(t) \/ Receive(t) \/ Work(t)

Next ==
    \/ \E t \in Threads : Step(t)
    \/ \E s \in Senders : SendMessage(s)
    \/ KernelReceived \/ KernelSent \/ KernelFailed

Spec == Init /\ [][Next]_vars

(* A send that was posted completes or fails. *)
SendEnds == (KernelSent \/ KernelFailed) /\ sendOut' # sendOut

(* Threads are scheduled, and TCP delivers what it was given or fails.     *)
(* Nothing makes a peer send, and nothing makes an idle receive end.       *)
FairSpec ==
    /\ Spec
    /\ \A t \in Threads : WF_vars(Step(t))
    /\ WF_vars(SendEnds)

-----------------------------------------------------------------------------
TypeOK ==
    /\ {m_bIsDisconnected, m_bReceiveLoopStarted, m_bSendInProgress, m_RQ, inMap,
        reset} \subseteq BOOLEAN
    /\ refused \subseteq {"recv", "send"}
    /\ recvCap \in {0, RecvSlice} /\ sendCap \in {0, SendSlice}
    /\ recvSize \in 0..recvCap /\ recvHead \in 0..RecvSlice - 1 /\ frame \in Frames
    /\ sendBuf \in Seq(Nat) /\ Len(sendBuf) <= sendCap /\ sendHead \in 0..SendSlice - 1
    /\ m_PendingTotalBytes \in Nat
    /\ m_RecvMutex \subseteq Workers /\ m_SendQueueMutex \subseteq Threads
    /\ batch \in [Threads -> Seq(Results)] /\ cq \in Seq(Results)

(* The create callback got what the session needs. *)
CanReceive == m_RQ /\ recvCap > 0
CanSend == m_RQ /\ sendCap > 0

(* Results of op that the kernel queued and no worker has applied yet. *)
Waiting(op) ==
    \/ \E i \in DOMAIN cq : cq[i].op = op
    \/ \E t \in Workers : \E i \in DOMAIN batch[t] : batch[t][i].op = op

(* Bytes already on the wire that OnRioIOCompleted has not consumed. *)
Unconsumed ==
    LET sent == {cq[i].n : i \in {j \in DOMAIN cq : cq[j].op = "send"}} \cup
                UNION {{batch[t][i].n : i \in {j \in DOMAIN batch[t] : batch[t][j].op = "send"}} :
                       t \in Workers}
    IN  IF sent = {} THEN 0 ELSE CHOOSE n \in sent : \A k \in sent : k <= n

(* The peer receives the bytes in the order in which the messages were     *)
(* admitted, none lost, doubled or torn apart: what is on the wire, in the *)
(* send ring and in m_PendingSendQueue is, end to end, the accepted stream *)
(* (the fast path of SendMessage, FlushPendingSendQueue, partial sends and *)
(* the wrap of the ring, under any interleaving of senders and workers).   *)
StreamInOrder ==
    LET inRing == Len(wire) - Unconsumed + Len(sendBuf)
        q == m_PendingSendQueue
    IN  /\ \A i \in DOMAIN wire : wire[i] = i
        /\ \A i \in DOMAIN sendBuf : sendBuf[i] = Len(wire) - Unconsumed + i
        /\ IF q = <<>> THEN inRing = accepted
           ELSE /\ q[1].first + q[1].Offset = inRing + 1
                /\ q[Len(q)].last = accepted
                /\ \A i \in 2..Len(q) : q[i].first = q[i-1].last + 1 /\ q[i].Offset = 0

(* The lock-free backpressure test of SendMessage reads an exact total     *)
(* and bounds the queue: whenever the lock is free, m_PendingTotalBytes is *)
(* the length of the packets in m_PendingSendQueue, a partly copied one    *)
(* counted in full; and each thread that may be between the test and the   *)
(* enqueue (a sender, or the one worker that holds m_RecvMutex) takes it   *)
(* past the limit by at most one packet.                                   *)
PendingAccounted ==
    /\ m_SendQueueMutex = {} =>
          m_PendingTotalBytes =
              IF m_PendingSendQueue = <<>> THEN 0
              ELSE accepted - m_PendingSendQueue[1].first + 1
    /\ m_PendingTotalBytes <=
          MAX_PENDING_BYTES +
          (Cardinality(Senders) + 1) * (CHOOSE m \in MsgSizes : \A k \in MsgSizes : k <= m)

(* The request queue was created for one receive and one send: neither is  *)
(* posted a second time before its completion was taken.                   *)
OneRequest ==
    /\ Len(recvOut) <= 1 /\ Len(sendOut) <= 1
    /\ recvOut # <<>> => ~Waiting("recv")
    /\ sendOut # <<>> => ~Waiting("send")

(* The receive slice is full and its front is no complete packet: an       *)
(* invalid length, or a packet longer than the slice.                      *)
Clogged == recvSize = recvCap /\ (frame = 0 \/ frame > recvCap)

(* When a connected session stops receiving: its slice is clogged          *)
(* (RequestRecv, "No free space"), or RIOReceive refused a request, both   *)
(* of which the code only logs.  In every other state a receive is in the  *)
(* kernel, or its completion waits, or a thread is in the code that posts  *)
(* the next one.                                                           *)
RecvLoopAlive ==
    (m_bReceiveLoopStarted /\ ~m_bIsDisconnected /\ CanReceive) =>
        \/ recvOut # <<>> \/ Waiting("recv") \/ m_RecvMutex # {}
        \/ pc[Acceptor] \in {"arm", "post"}
        \/ Clogged \/ "recv" \in refused

(* The lifetime rule of RIOInboundSession::OnAccepted: the map and the I/O *)
(* callbacks keep the session alive, so none is destroyed with a request,  *)
(* a completion or a handler still going to use it.                        *)
AliveDuringIO ==
    Freed =>
        /\ recvOut = <<>> /\ sendOut = <<>> /\ ~Waiting("recv") /\ ~Waiting("send")
        /\ \A t \in Workers : pc[t] \in {"idle", "next"}

(* No accepted byte is left behind by the flushes: again and again all of  *)
(* them are on the wire, or the session is disconnected, unless it has no  *)
(* request queue or send slice, or RIOSend refused the last request, after *)
(* which the bytes wait for the next SendMessage (TryPostSendFromQueue).   *)
Delivered ==
    []<>(Len(wire) = accepted \/ m_bIsDisconnected \/ ~CanSend \/ "send" \in refused)
=============================================================================
