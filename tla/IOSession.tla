----------------------------- MODULE IOSession -----------------------------
(***************************************************************************)
(* The IOCP session of LibNetworks (IOSession.cpp / IOSession.ixx) with    *)
(* the inbound session of FastPortServer on top of it: receive loop, send  *)
(* queue, disconnect protocol, and the outstanding-I/O counter that        *)
(* decides when OnDisconnected may remove the session from its container.  *)
(*                                                                         *)
(* One session, many threads.  Every thread runs the session's code one    *)
(* shared access (atomic load, store, CAS, fetch_add, buffer call, Winsock *)
(* call) at a time; pc[t] names the access it performs next.  Calls are    *)
(* modelled with two return labels per thread: retS for SendMessage and    *)
(* TryPostSendFromQueue, retD for RequestDisconnect and                    *)
(* TryFireOnDisconnected.  The kernel (Winsock, the completion port) is    *)
(* external: pending operations, then completion packets in FIFO order.    *)
(*                                                                         *)
(* Data: a message is one unit of the send buffer, identified by the order *)
(* of its AllocateWrite; the receive buffer is a number of units and       *)
(* framing chooses any result that number allows.                          *)
(***************************************************************************)
EXTENDS Integers, Sequences, FiniteSets

CONSTANTS
    Acceptor,      \* the thread that runs OnAccepted
    Workers,       \* IOCP worker threads
    Senders,       \* threads that call SendMessage outside a completion handler
    Closers,       \* timer threads running SessionIdleChecker::OnTick
    RecvCapacity,  \* units of the receive buffer
    SendCapacity,  \* units of the send buffer
    MaxMsgs,       \* bound: SendMessage calls are started while fewer were queued
    MaxRecv,       \* bound: receive completions that carry data
    PostFailures   \* may WSARecv / WSASend fail on a socket that is still open

Threads == {Acceptor} \cup Workers \cup Senders \cup Closers

ASSUME ThreadsAssumption ==
    /\ IsFiniteSet(Workers) /\ IsFiniteSet(Senders) /\ IsFiniteSet(Closers)
    /\ Acceptor \notin Workers \cup Senders \cup Closers
    /\ Workers \cap (Senders \cup Closers) = {}
    /\ Senders \cap Closers = {}

ASSUME BoundsAssumption ==
    /\ RecvCapacity \in Nat \ {0}
    /\ SendCapacity \in Nat \ {0}
    /\ MaxMsgs \in Nat
    /\ MaxRecv \in Nat
    /\ PostFailures \in BOOLEAN

VARIABLES
    m_ReceiveLoopStarted, m_RecvInProgress, m_SendInProgress,
    m_DisconnectRequested, m_OutstandingIoCount, m_bOnDisconnectedFired,
    m_LastRecv,    \* m_LastRecvTimeMs # 0
    isZeroByte,    \* m_RecvOverlapped.IsZeroByte
    wsaBufs,       \* m_SendOverlapped.WSABufs: the messages its spans cover
    recvBuf,       \* units in *m_pReceiveBuffer
    sendBuf,       \* messages in *m_pSendBuffer
    written,       \* messages whose bytes are in their reserved span
    nextMsg,       \* identifier of the next message AllocateWrite reserves
    inContainer,   \* the SessionContainer holds the session
    sockOpen,
    kRecv, kSend,  \* pending operations: zero-byte or not; the messages taken
    cq,            \* completion packets queued at the port
    wire,          \* messages of completed sends, in order
    received,      \* receives that carried data
    pc, retS, retD, comp, msg   \* per thread

flags    == <<m_ReceiveLoopStarted, m_RecvInProgress, m_SendInProgress,
              m_DisconnectRequested, m_bOnDisconnectedFired>>
recvVars == <<m_LastRecv, isZeroByte, recvBuf>>
sendVars == <<wsaBufs, sendBuf, written, nextMsg>>
kernel   == <<sockOpen, kRecv, kSend, cq, wire, received>>
locals   == <<retS, retD, comp, msg>>
data     == <<recvVars, sendVars, inContainer>>
vars == <<flags, m_OutstandingIoCount, data, kernel, pc, locals>>

Completions == [op : {"recv", "send"}, ok : BOOLEAN, n : Nat]
NoCompletion == [op |-> "recv", ok |-> FALSE, n |-> 0]

(* Stale bytes of the ring: what a reserved but unwritten span still holds. *)
Stale == 0

RecvLabels == {"acc_add", "sr_check", "sr_cas", "rr_check", "rr_cas", "rv_zero",
               "rv_real", "rv_add", "rv_wsa", "rv_undo", "rr_clr", "hr_commit",
               "hr_check", "hr_drop", "rb_check", "rb_frame", "rb_disp", "hr_done"}
SendLabels == {"sm_check", "sm_alloc", "sm_write", "tp_check", "tp_cas", "tp_read",
               "tp_add", "tp_wsa", "tp_undo", "tp_clr"}
SentLabels == {"hs_clr", "hs_consume", "hs_check", "hs_pend"}
DiscLabels == {"rd_cas", "rd_close", "rd_recv", "rd_send", "rd_load"}
FireLabels == {"fire", "fire_clr", "fire_cb"}
Labels == RecvLabels \cup SendLabels \cup SentLabels \cup DiscLabels \cup FireLabels
            \cup {"wait", "guard", "g_disc", "tick", "ended"}

Init ==
    /\ m_ReceiveLoopStarted = FALSE
    /\ m_RecvInProgress = FALSE
    /\ m_SendInProgress = FALSE
    /\ m_DisconnectRequested = FALSE
    /\ m_OutstandingIoCount = 0
    /\ m_bOnDisconnectedFired = FALSE
    /\ m_LastRecv = FALSE
    /\ isZeroByte = FALSE
    /\ wsaBufs = <<>>
    /\ recvBuf = 0
    /\ sendBuf = <<>>
    /\ written = {}
    /\ nextMsg = 1
    /\ inContainer = FALSE
    /\ sockOpen = TRUE
    /\ kRecv = <<>> /\ kSend = <<>> /\ cq = <<>> /\ wire = <<>>
    /\ received = 0
    /\ pc = [t \in Threads |-> IF t = Acceptor THEN "acc_add" ELSE "wait"]
    /\ retS = [t \in Threads |-> "wait"]
    /\ retD = [t \in Threads |-> "wait"]
    /\ comp = [t \in Threads |-> NoCompletion]
    /\ msg = [t \in Threads |-> 0]

At(t, l)   == pc[t] = l
Goto(t, l) == pc' = [pc EXCEPT ![t] = l]

(* A step that only decides where the thread goes next. *)
Branch(t, l) ==
    /\ Goto(t, l)
    /\ UNCHANGED <<flags, m_OutstandingIoCount, data, kernel, locals>>

(* Where the code goes when the outermost session call of a thread returns: *)
(* a completion handler ends in ~IoCompletionGuard, any other call returns. *)
End(t) == IF t \in Workers THEN "guard" ELSE "wait"

(* RequestDisconnect, called from a place that continues at l. *)
CallDisconnect(t, l) ==
    /\ Goto(t, "rd_cas")
    /\ retD' = [retD EXCEPT ![t] = l]
    /\ UNCHANGED <<retS, comp, msg>>

-----------------------------------------------------------------------------
(* Activation: IOCPInboundSession::OnAccepted, IOSession::StartReceiveLoop. *)

AcceptAdd(t) ==
    /\ At(t, "acc_add")
    /\ inContainer' = TRUE
    /\ Goto(t, "sr_check")
    /\ UNCHANGED <<flags, m_OutstandingIoCount, recvVars, sendVars, kernel, locals>>

StartCheck(t) ==
    /\ At(t, "sr_check")
    /\ Branch(t, IF m_DisconnectRequested THEN End(t) ELSE "sr_cas")

StartCas(t) ==
    /\ At(t, "sr_cas")
    /\ m_ReceiveLoopStarted' = TRUE
    /\ Goto(t, IF m_ReceiveLoopStarted THEN End(t) ELSE "rr_check")
    /\ UNCHANGED <<m_RecvInProgress, m_SendInProgress, m_DisconnectRequested,
                   m_bOnDisconnectedFired, m_OutstandingIoCount, data, kernel, locals>>

-----------------------------------------------------------------------------
(* Receive posting: RequestReceived, PrepareRecvBuffers, RequestRecv and the *)
(* failure tail (store false, RequestDisconnect) its callers share.          *)

ReceivedCheck(t) ==
    /\ At(t, "rr_check")
    /\ Branch(t, IF m_DisconnectRequested THEN End(t) ELSE "rr_cas")

ReceivedCas(t) ==
    /\ At(t, "rr_cas")
    /\ m_RecvInProgress' = TRUE
    /\ Goto(t, IF m_RecvInProgress THEN End(t) ELSE "rv_zero")
    /\ UNCHANGED <<m_ReceiveLoopStarted, m_SendInProgress, m_DisconnectRequested,
                   m_bOnDisconnectedFired, m_OutstandingIoCount, data, kernel, locals>>

PrepareZero(t) ==
    /\ At(t, "rv_zero")
    /\ isZeroByte' = TRUE
    /\ Goto(t, "rv_add")
    /\ UNCHANGED <<flags, m_OutstandingIoCount, m_LastRecv, recvBuf, sendVars,
                   inContainer, kernel, locals>>

(* Mutant: posts the real receive without looking at the free space. *)
PrepareRealUnchecked(t) ==
    /\ At(t, "rv_real")
    /\ isZeroByte' = FALSE
    /\ Goto(t, "rv_add")
    /\ UNCHANGED <<flags, m_OutstandingIoCount, m_LastRecv, recvBuf, sendVars,
                   inContainer, kernel, locals>>

(* A full receive buffer requests the disconnect and makes RequestRecv fail. *)
PrepareReal(t) ==
    /\ At(t, "rv_real")
    /\ isZeroByte' = FALSE
    /\ IF recvBuf = RecvCapacity
         THEN CallDisconnect(t, "rr_clr")
         ELSE Goto(t, "rv_add") /\ UNCHANGED locals
    /\ UNCHANGED <<flags, m_OutstandingIoCount, m_LastRecv, recvBuf, sendVars,
                   inContainer, kernel>>

RecvAdd(t) ==
    /\ At(t, "rv_add")
    /\ m_OutstandingIoCount' = m_OutstandingIoCount + 1
    /\ Goto(t, "rv_wsa")
    /\ UNCHANGED <<flags, data, kernel, locals>>

RecvPosted(t) ==
    /\ At(t, "rv_wsa")
    /\ sockOpen
    /\ kRecv' = Append(kRecv, isZeroByte)
    /\ Goto(t, End(t))
    /\ UNCHANGED <<flags, m_OutstandingIoCount, data,
                   sockOpen, kSend, cq, wire, received, locals>>

RecvPostFailed(t) ==
    /\ At(t, "rv_wsa")
    /\ ~sockOpen \/ PostFailures
    /\ Branch(t, "rv_undo")

RecvUndo(t) ==
    /\ At(t, "rv_undo")
    /\ m_OutstandingIoCount' = m_OutstandingIoCount - 1
    /\ Goto(t, "rr_clr")
    /\ UNCHANGED <<flags, data, kernel, locals>>

RecvFailed(t) ==
    /\ At(t, "rr_clr")
    /\ m_RecvInProgress' = FALSE
    /\ CallDisconnect(t, End(t))
    /\ UNCHANGED <<m_ReceiveLoopStarted, m_SendInProgress, m_DisconnectRequested,
                   m_bOnDisconnectedFired, m_OutstandingIoCount, data, kernel>>

-----------------------------------------------------------------------------
(* Completion dispatch: OnIOCompleted and the receive half of its handlers.  *)
(* From here to its "guard" step the worker owns one unit of the counter.    *)

RecvEntry(c) ==
    IF ~c.ok THEN "rr_clr"
    ELSE IF isZeroByte THEN "rv_real"
    ELSE IF c.n = 0 THEN "rr_clr" ELSE "hr_commit"

Dequeue(t) ==
    /\ At(t, "wait") /\ t \in Workers
    /\ cq # <<>>
    /\ LET c == Head(cq) IN
         /\ Goto(t, IF c.op = "recv" THEN RecvEntry(c) ELSE "hs_clr")
         /\ comp' = [comp EXCEPT ![t] = c]
    /\ cq' = Tail(cq)
    /\ UNCHANGED <<flags, m_OutstandingIoCount, data, sockOpen, kRecv, kSend, wire,
                   received, retS, retD, msg>>

(* ERROR_CONNECTION_ABORTED: the worker breaks out of its loop and never    *)
(* calls the consumer (the later branch that names this error and would is  *)
(* unreachable).  Nothing releases the counter or clears the in-progress    *)
(* flag of the completion it swallowed, which comp[t] keeps.                *)
WorkerAborted(t) ==
    /\ At(t, "wait") /\ t \in Workers
    /\ cq # <<>> /\ ~Head(cq).ok
    /\ comp' = [comp EXCEPT ![t] = Head(cq)]
    /\ Goto(t, "ended")
    /\ cq' = Tail(cq)
    /\ UNCHANGED <<flags, m_OutstandingIoCount, data, sockOpen, kRecv, kSend, wire,
                   received, retS, retD, msg>>

RecvCommit(t) ==
    /\ At(t, "hr_commit")
    /\ recvBuf' = recvBuf + comp[t].n
    /\ m_LastRecv' = TRUE
    /\ Goto(t, "hr_check")
    /\ UNCHANGED <<flags, m_OutstandingIoCount, isZeroByte, sendVars, inContainer,
                   kernel, locals>>

RecvCheck(t) ==
    /\ At(t, "hr_check")
    /\ Branch(t, IF m_DisconnectRequested THEN "hr_drop" ELSE "rb_check")

RecvDrop(t) ==
    /\ At(t, "hr_drop")
    /\ m_RecvInProgress' = FALSE
    /\ Goto(t, "guard")
    /\ UNCHANGED <<m_ReceiveLoopStarted, m_SendInProgress, m_DisconnectRequested,
                   m_bOnDisconnectedFired, m_OutstandingIoCount, data, kernel, locals>>

ReadCheck(t) ==
    /\ At(t, "rb_check")
    /\ Branch(t, IF m_DisconnectRequested THEN "hr_done" ELSE "rb_frame")

(* TryFrameFromBuffer: NeedMore, Invalid, or a packet of n units consumed. *)
ReadNeedMore(t) ==
    /\ At(t, "rb_frame")
    /\ Branch(t, "hr_done")

ReadInvalid(t) ==
    /\ At(t, "rb_frame")
    /\ recvBuf > 0
    /\ CallDisconnect(t, "hr_done")
    /\ UNCHANGED <<flags, m_OutstandingIoCount, data, kernel>>

(* Mutant: consumes one unit more than the frame check admitted. *)
ReadPacketOffByOne(t) ==
    /\ At(t, "rb_frame")
    /\ \E n \in 1..(recvBuf + 1) : recvBuf' = recvBuf - n
    /\ Goto(t, "rb_disp")
    /\ UNCHANGED <<flags, m_OutstandingIoCount, m_LastRecv, isZeroByte, sendVars,
                   inContainer, kernel, locals>>

ReadPacket(t) ==
    /\ At(t, "rb_frame")
    /\ \E n \in 1..recvBuf : recvBuf' = recvBuf - n
    /\ Goto(t, "rb_disp")
    /\ UNCHANGED <<flags, m_OutstandingIoCount, m_LastRecv, isZeroByte, sendVars,
                   inContainer, kernel, locals>>

ReadStop(t) ==
    /\ At(t, "rb_disp")
    /\ m_DisconnectRequested
    /\ Branch(t, "hr_done")

(* OnPacketReceived: an unknown or unparsable packet is logged and ignored, *)
(* an echo, benchmark or admin request answers with one SendMessage.        *)
PacketIgnored(t) ==
    /\ At(t, "rb_disp")
    /\ ~m_DisconnectRequested
    /\ Branch(t, "rb_check")

PacketAnswered(t) ==
    /\ At(t, "rb_disp")
    /\ ~m_DisconnectRequested
    /\ nextMsg <= MaxMsgs
    /\ Goto(t, "sm_check")
    /\ retS' = [retS EXCEPT ![t] = "rb_check"]
    /\ UNCHANGED <<flags, m_OutstandingIoCount, data, kernel, retD, comp, msg>>

(* Mutant: the receive loop is not re-armed. *)
RecvDoneNoRearm(t) ==
    /\ At(t, "hr_done")
    /\ m_RecvInProgress' = FALSE
    /\ Goto(t, "guard")
    /\ UNCHANGED <<m_ReceiveLoopStarted, m_SendInProgress, m_DisconnectRequested,
                   m_bOnDisconnectedFired, m_OutstandingIoCount, data, kernel, locals>>

RecvDone(t) ==
    /\ At(t, "hr_done")
    /\ m_RecvInProgress' = FALSE
    /\ Goto(t, "rr_check")
    /\ UNCHANGED <<m_ReceiveLoopStarted, m_SendInProgress, m_DisconnectRequested,
                   m_bOnDisconnectedFired, m_OutstandingIoCount, data, kernel, locals>>

-----------------------------------------------------------------------------
(* HandleSendCompletion. *)

SentClear(t) ==
    /\ At(t, "hs_clr")
    /\ m_SendInProgress' = FALSE
    /\ IF comp[t].ok
         THEN Goto(t, "hs_consume") /\ UNCHANGED locals
         ELSE CallDisconnect(t, "guard")
    /\ UNCHANGED <<m_ReceiveLoopStarted, m_RecvInProgress, m_DisconnectRequested,
                   m_bOnDisconnectedFired, m_OutstandingIoCount, data, kernel>>

(* Consume does nothing when fewer bytes are queued; its result is ignored. *)
SentConsume(t) ==
    /\ At(t, "hs_consume")
    /\ sendBuf' = IF comp[t].n <= Len(sendBuf)
                    THEN SubSeq(sendBuf, comp[t].n + 1, Len(sendBuf))
                    ELSE sendBuf
    /\ Goto(t, "hs_check")
    /\ UNCHANGED <<flags, m_OutstandingIoCount, recvVars, wsaBufs, written, nextMsg,
                   inContainer, kernel, locals>>

SentCheck(t) ==
    /\ At(t, "hs_check")
    /\ Branch(t, IF m_DisconnectRequested THEN "guard" ELSE "hs_pend")

(* The load of line 508 is the load of line 333 that follows it. *)
SentPending(t) ==
    /\ At(t, "hs_pend")
    /\ Goto(t, IF sendBuf # <<>> THEN "tp_check" ELSE "guard")
    /\ retS' = [retS EXCEPT ![t] = "guard"]
    /\ UNCHANGED <<flags, m_OutstandingIoCount, data, kernel, retD, comp, msg>>

-----------------------------------------------------------------------------
(* SendMessage and TryPostSendFromQueue. *)

SendStart(t) ==
    /\ At(t, "wait") /\ t \in Senders
    /\ ~At(Acceptor, "acc_add")
    /\ nextMsg <= MaxMsgs
    /\ Goto(t, "sm_check")
    /\ retS' = [retS EXCEPT ![t] = "wait"]
    /\ UNCHANGED <<flags, m_OutstandingIoCount, data, kernel, retD, comp, msg>>

SendCheck(t) ==
    /\ At(t, "sm_check")
    /\ Branch(t, IF m_DisconnectRequested THEN retS[t] ELSE "sm_alloc")

(* AllocateWrite moves the head at once: the message is readable unwritten. *)
SendAlloc(t) ==
    /\ At(t, "sm_alloc")
    /\ Len(sendBuf) < SendCapacity
    /\ sendBuf' = Append(sendBuf, nextMsg)
    /\ msg' = [msg EXCEPT ![t] = nextMsg]
    /\ nextMsg' = nextMsg + 1
    /\ Goto(t, "sm_write")
    /\ UNCHANGED <<flags, m_OutstandingIoCount, recvVars, wsaBufs, written,
                   inContainer, kernel, retS, retD, comp>>

SendOverflow(t) ==
    /\ At(t, "sm_alloc")
    /\ Len(sendBuf) = SendCapacity
    /\ CallDisconnect(t, retS[t])
    /\ UNCHANGED <<flags, m_OutstandingIoCount, data, kernel>>

SendWrite(t) ==
    /\ At(t, "sm_write")
    /\ written' = written \cup {msg[t]}
    /\ Goto(t, "tp_check")
    /\ UNCHANGED <<flags, m_OutstandingIoCount, recvVars, wsaBufs, sendBuf, nextMsg,
                   inContainer, kernel, locals>>

TryPostCheck(t) ==
    /\ At(t, "tp_check")
    /\ Branch(t, IF m_DisconnectRequested THEN retS[t] ELSE "tp_cas")

TryPostCas(t) ==
    /\ At(t, "tp_cas")
    /\ m_SendInProgress' = TRUE
    /\ Goto(t, IF m_SendInProgress THEN retS[t] ELSE "tp_read")
    /\ UNCHANGED <<m_ReceiveLoopStarted, m_RecvInProgress, m_DisconnectRequested,
                   m_bOnDisconnectedFired, m_OutstandingIoCount, data, kernel, locals>>

(* GetReadBuffers, and PrepareSendBuffers when there is something to send. *)
TryPostRead(t) ==
    /\ At(t, "tp_read")
    /\ wsaBufs' = IF sendBuf = <<>> THEN wsaBufs ELSE sendBuf
    /\ Goto(t, IF sendBuf = <<>> THEN "tp_clr" ELSE "tp_add")
    /\ UNCHANGED <<flags, m_OutstandingIoCount, recvVars, sendBuf, written, nextMsg,
                   inContainer, kernel, locals>>

TryPostAdd(t) ==
    /\ At(t, "tp_add")
    /\ m_OutstandingIoCount' = m_OutstandingIoCount + 1
    /\ Goto(t, "tp_wsa")
    /\ UNCHANGED <<flags, data, kernel, locals>>

(* The bytes that leave are the ones the spans hold when WSASend takes them. *)
TryPostPosted(t) ==
    /\ At(t, "tp_wsa")
    /\ sockOpen
    /\ kSend' = Append(kSend, [i \in 1..Len(wsaBufs) |->
                          IF wsaBufs[i] \in written THEN wsaBufs[i] ELSE Stale])
    /\ Goto(t, retS[t])
    /\ UNCHANGED <<flags, m_OutstandingIoCount, data, sockOpen, kRecv, cq, wire,
                   received, locals>>

(* Mutant: a failed WSASend is not undone. *)
TryPostFailedNoUndo(t) ==
    /\ At(t, "tp_wsa")
    /\ ~sockOpen \/ PostFailures
    /\ Branch(t, "tp_clr")

TryPostFailed(t) ==
    /\ At(t, "tp_wsa")
    /\ ~sockOpen \/ PostFailures
    /\ Branch(t, "tp_undo")

TryPostUndo(t) ==
    /\ At(t, "tp_undo")
    /\ m_OutstandingIoCount' = m_OutstandingIoCount - 1
    /\ Goto(t, "tp_clr")
    /\ UNCHANGED <<flags, data, kernel, locals>>

(* Mutant: the send that was not posted keeps the in-progress flag. *)
TryPostClearMissing(t) == At(t, "tp_clr") /\ Branch(t, retS[t])

TryPostClear(t) ==
    /\ At(t, "tp_clr")
    /\ m_SendInProgress' = FALSE
    /\ Goto(t, retS[t])
    /\ UNCHANGED <<m_ReceiveLoopStarted, m_RecvInProgress, m_DisconnectRequested,
                   m_bOnDisconnectedFired, m_OutstandingIoCount, data, kernel, locals>>

-----------------------------------------------------------------------------
(* RequestDisconnect, TryFireOnDisconnected, ~IoCompletionGuard. *)

(* Mutant: the in-progress flags are reset before the socket is closed. *)
DiscCasFlagsFirst(t) ==
    /\ At(t, "rd_cas")
    /\ m_DisconnectRequested' = TRUE
    /\ m_RecvInProgress' = (m_RecvInProgress /\ m_DisconnectRequested)
    /\ m_SendInProgress' = (m_SendInProgress /\ m_DisconnectRequested)
    /\ Goto(t, IF m_DisconnectRequested THEN "rd_load" ELSE "rd_close")
    /\ UNCHANGED <<m_ReceiveLoopStarted, m_bOnDisconnectedFired, m_OutstandingIoCount,
                   data, kernel, locals>>

DiscCas(t) ==
    /\ At(t, "rd_cas")
    /\ m_DisconnectRequested' = TRUE
    /\ Goto(t, IF m_DisconnectRequested THEN "rd_load" ELSE "rd_close")
    /\ UNCHANGED <<m_ReceiveLoopStarted, m_RecvInProgress, m_SendInProgress,
                   m_bOnDisconnectedFired, m_OutstandingIoCount, data, kernel, locals>>

(* Shutdown(SD_BOTH) and Close: every posting that follows fails. *)
DiscClose(t) ==
    /\ At(t, "rd_close")
    /\ sockOpen' = FALSE
    /\ Goto(t, "rd_recv")
    /\ UNCHANGED <<flags, m_OutstandingIoCount, data, kRecv, kSend, cq, wire, received,
                   locals>>

DiscClearRecv(t) ==
    /\ At(t, "rd_recv")
    /\ m_RecvInProgress' = FALSE
    /\ Goto(t, "rd_send")
    /\ UNCHANGED <<m_ReceiveLoopStarted, m_SendInProgress, m_DisconnectRequested,
                   m_bOnDisconnectedFired, m_OutstandingIoCount, data, kernel, locals>>

DiscClearSend(t) ==
    /\ At(t, "rd_send")
    /\ m_SendInProgress' = FALSE
    /\ Goto(t, "rd_load")
    /\ UNCHANGED <<m_ReceiveLoopStarted, m_RecvInProgress, m_DisconnectRequested,
                   m_bOnDisconnectedFired, m_OutstandingIoCount, data, kernel, locals>>

(* Mutant: OnDisconnected does not wait for the outstanding operations. *)
DiscLoadIgnoresCount(t) == At(t, "rd_load") /\ Branch(t, "fire")

DiscLoad(t) ==
    /\ At(t, "rd_load")
    /\ Branch(t, IF m_OutstandingIoCount = 0 THEN "fire" ELSE retD[t])

FireCas(t) ==
    /\ At(t, "fire")
    /\ m_bOnDisconnectedFired' = TRUE
    /\ Goto(t, IF m_bOnDisconnectedFired THEN retD[t] ELSE "fire_clr")
    /\ UNCHANGED <<m_ReceiveLoopStarted, m_RecvInProgress, m_SendInProgress,
                   m_DisconnectRequested, m_OutstandingIoCount, data, kernel, locals>>

FireClear(t) ==
    /\ At(t, "fire_clr")
    /\ recvBuf' = 0
    /\ sendBuf' = <<>>
    /\ Goto(t, "fire_cb")
    /\ UNCHANGED <<flags, m_OutstandingIoCount, m_LastRecv, isZeroByte, wsaBufs,
                   written, nextMsg, inContainer, kernel, locals>>

(* IOCPInboundSession::OnDisconnected: the container drops the session. *)
FireCallback(t) ==
    /\ At(t, "fire_cb")
    /\ inContainer' = FALSE
    /\ Goto(t, retD[t])
    /\ UNCHANGED <<flags, m_OutstandingIoCount, recvVars, sendVars, kernel, locals>>

(* Mutant: the last completion does not check for a pending disconnect. *)
GuardReleaseNoLastCheck(t) ==
    /\ At(t, "guard")
    /\ m_OutstandingIoCount' = m_OutstandingIoCount - 1
    /\ Goto(t, "wait")
    /\ UNCHANGED <<flags, data, kernel, locals>>

GuardRelease(t) ==
    /\ At(t, "guard")
    /\ m_OutstandingIoCount' = m_OutstandingIoCount - 1
    /\ Goto(t, IF m_OutstandingIoCount = 1 THEN "g_disc" ELSE "wait")
    /\ UNCHANGED <<flags, data, kernel, locals>>

GuardCheck(t) ==
    /\ At(t, "g_disc")
    /\ Goto(t, IF m_DisconnectRequested THEN "fire" ELSE "wait")
    /\ retD' = [retD EXCEPT ![t] = "wait"]
    /\ UNCHANGED <<flags, m_OutstandingIoCount, data, kernel, retS, comp, msg>>

-----------------------------------------------------------------------------
(* SessionIdleChecker::OnTick as the session sees it: the snapshot holds the *)
(* session, sessions that never received are skipped, and the rest may have  *)
(* passed the threshold.                                                     *)

TickSnapshot(t) ==
    /\ At(t, "wait") /\ t \in Closers
    /\ inContainer
    /\ Branch(t, "tick")

TickSkip(t) ==
    /\ At(t, "tick")
    /\ Branch(t, "wait")

TickIdle(t) ==
    /\ At(t, "tick")
    /\ m_LastRecv
    /\ CallDisconnect(t, "wait")
    /\ UNCHANGED <<flags, m_OutstandingIoCount, data, kernel>>

-----------------------------------------------------------------------------
(* The kernel and the peer (external). *)

Complete(c) == cq' = Append(cq, c)

KernelRecvOk ==
    /\ kRecv # <<>> /\ sockOpen
    /\ \/ Head(kRecv) /\ UNCHANGED received
       \/ ~Head(kRecv) /\ received < MaxRecv /\ received' = received + 1
    /\ Complete([op |-> "recv", ok |-> TRUE, n |-> IF Head(kRecv) THEN 0 ELSE 1])
    /\ kRecv' = Tail(kRecv)
    /\ UNCHANGED <<flags, m_OutstandingIoCount, data, sockOpen, kSend, wire, pc, locals>>

(* The peer closed (zero bytes), reset, or the socket was closed locally. *)
KernelRecvEnd ==
    /\ kRecv # <<>>
    /\ \E ok \in BOOLEAN : Complete([op |-> "recv", ok |-> ok, n |-> 0])
    /\ kRecv' = Tail(kRecv)
    /\ UNCHANGED <<flags, m_OutstandingIoCount, data, sockOpen, kSend, wire, received,
                   pc, locals>>

KernelSendOk ==
    /\ kSend # <<>> /\ sockOpen
    /\ Complete([op |-> "send", ok |-> TRUE, n |-> Len(Head(kSend))])
    /\ wire' = wire \o Head(kSend)
    /\ kSend' = Tail(kSend)
    /\ UNCHANGED <<flags, m_OutstandingIoCount, data, sockOpen, kRecv, received, pc,
                   locals>>

KernelSendEnd ==
    /\ kSend # <<>>
    /\ Complete([op |-> "send", ok |-> FALSE, n |-> 0])
    /\ kSend' = Tail(kSend)
    /\ UNCHANGED <<flags, m_OutstandingIoCount, data, sockOpen, kRecv, wire, received,
                   pc, locals>>

Kernel == KernelRecvOk \/ KernelRecvEnd \/ KernelSendOk \/ KernelSendEnd

-----------------------------------------------------------------------------
(* The steps of a thread that is already inside the session's code. *)
Running(t) ==
    \/ AcceptAdd(t) \/ StartCheck(t) \/ StartCas(t)
    \/ ReceivedCheck(t) \/ ReceivedCas(t) \/ PrepareZero(t) \/ PrepareReal(t)
    \/ RecvAdd(t) \/ RecvPosted(t) \/ RecvPostFailed(t) \/ RecvUndo(t) \/ RecvFailed(t)
    \/ RecvCommit(t) \/ RecvCheck(t) \/ RecvDrop(t) \/ RecvDone(t)
    \/ ReadCheck(t) \/ ReadNeedMore(t) \/ ReadInvalid(t) \/ ReadPacket(t) \/ ReadStop(t)
    \/ PacketIgnored(t) \/ PacketAnswered(t)
    \/ SentClear(t) \/ SentConsume(t) \/ SentCheck(t) \/ SentPending(t)
    \/ SendCheck(t) \/ SendAlloc(t) \/ SendOverflow(t) \/ SendWrite(t)
    \/ TryPostCheck(t) \/ TryPostCas(t) \/ TryPostRead(t) \/ TryPostAdd(t)
    \/ TryPostPosted(t) \/ TryPostFailed(t) \/ TryPostUndo(t) \/ TryPostClear(t)
    \/ DiscCas(t) \/ DiscClose(t) \/ DiscClearRecv(t) \/ DiscClearSend(t) \/ DiscLoad(t)
    \/ FireCas(t) \/ FireClear(t) \/ FireCallback(t)
    \/ GuardRelease(t) \/ GuardCheck(t)
    \/ TickSkip(t) \/ TickIdle(t)

Next ==
    \/ \E t \in Threads :
          Running(t) \/ Dequeue(t) \/ WorkerAborted(t) \/ SendStart(t) \/ TickSnapshot(t)
    \/ Kernel

Spec == Init /\ [][Next]_vars

(* Threads inside the session keep running, a worker that is still alive    *)
(* takes a queued completion, and closing a socket completes everything     *)
(* pending on it.  Nothing is assumed of the peer, of new sends, or of idle *)
(* ticks, and nothing forbids that a failed completion ends its worker.     *)
Fairness ==
    /\ \A t \in Threads : WF_vars(Running(t))
    /\ \A t \in Workers : WF_vars(Dequeue(t))
    /\ WF_vars(~sockOpen /\ KernelRecvEnd)
    /\ WF_vars(~sockOpen /\ KernelSendEnd)

FairSpec == Spec /\ Fairness

-----------------------------------------------------------------------------
(* Properties. *)

TypeFlags ==
    /\ m_ReceiveLoopStarted \in BOOLEAN
    /\ m_RecvInProgress \in BOOLEAN
    /\ m_SendInProgress \in BOOLEAN
    /\ m_DisconnectRequested \in BOOLEAN
    /\ m_bOnDisconnectedFired \in BOOLEAN
    /\ m_LastRecv \in BOOLEAN
    /\ isZeroByte \in BOOLEAN
    /\ inContainer \in BOOLEAN
    /\ sockOpen \in BOOLEAN

TypeData ==
    /\ m_OutstandingIoCount \in Int
    /\ recvBuf \in Nat
    /\ wsaBufs \in Seq(Nat)
    /\ sendBuf \in Seq(Nat)
    /\ written \in SUBSET Nat
    /\ nextMsg \in Nat

TypeKernel ==
    /\ kRecv \in Seq(BOOLEAN)
    /\ kSend \in Seq(Seq(Nat))
    /\ cq \in Seq(Completions)
    /\ wire \in Seq(Nat)
    /\ received \in Nat

TypeThreads ==
    /\ pc \in [Threads -> Labels]
    /\ retS \in [Threads -> {"wait", "guard", "rb_check"}]
    /\ retD \in [Threads -> {"wait", "guard", "rb_check", "hr_done", "rr_clr"}]
    /\ comp \in [Threads -> Completions]
    /\ msg \in [Threads -> Nat]

(* Every flag, buffer, kernel queue and per-thread variable has its type;   *)
(* in particular the receive buffer never holds a negative size.            *)
TypeOK == TypeFlags /\ TypeData /\ TypeKernel /\ TypeThreads

(* Threads between a fetch_add and the posting's success or its undo. *)
PostLabels == {"rv_wsa", "rv_undo", "tp_wsa", "tp_undo"}
Posting    == {t \in Threads : pc[t] \in PostLabels}

(* Workers that have left their loop on an aborted completion. *)
Ended == {t \in Workers : pc[t] = "ended"}

(* Such a worker swallowed the completion of an operation of this kind. *)
Swallowed(op) == \E t \in Ended : comp[t].op = op

(* Workers inside a completion handler whose guard has not released yet: a  *)
(* TryFireOnDisconnected that returns to "wait" was called by the guard.    *)
InHandler(t) ==
    /\ pc[t] \notin {"wait", "g_disc", "ended"}
    /\ ~(pc[t] \in FireLabels /\ retD[t] = "wait")
Guarded == {t \in Workers : InHandler(t)}

(* m_OutstandingIoCount is the operations pending in the kernel, the        *)
(* completions not yet dispatched, the handlers that run, the postings in   *)
(* progress, and one unit for every completion that a worker swallowed when *)
(* it ended (iOService.cpp:53): those units are never released.  Nothing    *)
(* else makes the counter drift, it never goes negative, and the underflow  *)
(* branch of UndoOutstandingOnFailure is unreachable.                       *)
OutstandingExact ==
    m_OutstandingIoCount =
        Len(kRecv) + Len(kSend) + Len(cq) + Cardinality(Posting) + Cardinality(Guarded)
            + Cardinality(Ended)

Queued(op) == {i \in DOMAIN cq : cq[i].op = op}

(* Each of the two OVERLAPPED structures is owned by at most one operation: *)
(* at most one WSARecv and one WSASend are pending or undelivered, also     *)
(* while a disconnect resets the in-progress flags under the posters.       *)
SingleOutstanding ==
    /\ Len(kRecv) + Cardinality(Queued("recv")) <= 1
    /\ Len(kSend) + Cardinality(Queued("send")) <= 1

(* Threads on the receive chain: one of them will post the next WSARecv. *)
InRecvChain(t) ==
    \/ pc[t] \in RecvLabels
    \/ pc[t] \in SendLabels /\ retS[t] = "rb_check"
    \/ pc[t] = "rd_cas"

(* A session that nobody disconnected keeps receiving: a receive is pending *)
(* or queued, or some thread is on its way to post the next one.  The one   *)
(* way to go deaf is a worker that ended with the aborted completion of the *)
(* receive (iOService.cpp:53): the session then stays up with no receive    *)
(* armed and nobody to disconnect it.                                       *)
RecvLoopAlive ==
    ~m_DisconnectRequested =>
        \/ kRecv # <<>>
        \/ Queued("recv") # {}
        \/ \E t \in Threads : InRecvChain(t)
        \/ Swallowed("recv")

(* CommitWrite never fails: a receive is posted only for free space, and    *)
(* nothing else fills the buffer while it is pending (the branch the code   *)
(* calls impossible, CircleBufferQueue.ixx:249).                            *)
CommitFits ==
    \A t \in Threads : pc[t] = "hr_commit" => recvBuf + comp[t].n <= RecvCapacity

(* OnDisconnected, which lets the container drop the session, runs only     *)
(* when no operation is pending, no completion is queued, and no handler is *)
(* inside the session: nothing can touch the session after it is freed.     *)
DrainedAtFire ==
    m_bOnDisconnectedFired =>
        kRecv = <<>> /\ kSend = <<>> /\ cq = <<>> /\ Guarded = {}

(* No message is sent twice: Consume removes what a completed send covered  *)
(* before the next send may read the queue (docs/ARCHITECTURE_IOCP.md:223). *)
SentOnce == \A i, j \in DOMAIN wire : wire[i] = wire[j] /\ wire[i] # Stale => i = j

(* m_SendInProgress never leaks: while it is set, a send is pending, its    *)
(* completion is queued, or a thread is between taking the flag (or the     *)
(* dispatch of the completion) and giving it back, also when WSASend fails, *)
(* when the queue turns out empty, and while a disconnect resets the flag   *)
(* under its owner.  A leaked flag would make every later                   *)
(* TryPostSendFromQueue return: nothing queued would ever leave.  The one   *)
(* leak is a worker that ended with the aborted completion of the send.     *)
SendFlagOwned ==
    m_SendInProgress =>
        \/ kSend # <<>>
        \/ Queued("send") # {}
        \/ \E t \in Threads :
              pc[t] \in {"tp_read", "tp_add", "tp_wsa", "tp_undo", "tp_clr", "hs_clr"}
        \/ Swallowed("send")

(* Once a disconnect is requested the container eventually drops the        *)
(* session: OnDisconnected is not lost, unless a worker ended and took a    *)
(* unit of the counter with it.                                             *)
Reclaimed == m_DisconnectRequested ~> (~inContainer \/ Ended # {})

(* The claim of the plan, without that exception: every pending operation   *)
(* completes, the workers process the completions, and the last one runs    *)
(* OnDisconnected (iosession-lifetime-race.plan.md:19).                     *)
DisconnectReclaims == m_DisconnectRequested ~> ~inContainer
=============================================================================
