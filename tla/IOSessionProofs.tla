-------------------------- MODULE IOSessionProofs --------------------------
(***************************************************************************)
(* Proofs about IOSession, for every buffer size and bound.  For every     *)
(* number of workers, senders and closers: the types, the exactness of the *)
(* outstanding-I/O counter, the single owner of each OVERLAPPED structure, *)
(* the owner of the send flag, the life of the receive loop and the room   *)
(* for every received byte.  When only completion handlers send (the       *)
(* servers of this repository): OnDisconnected runs on a drained session.  *)
(* A worker that ended on an aborted completion keeps its unit of the      *)
(* counter and the token of the completion it swallowed.                   *)
(***************************************************************************)
EXTENDS IOSession, FiniteSetTheorems, SequenceTheorems, TLAPS

USE DEF flags, recvVars, sendVars, data, kernel, locals

-----------------------------------------------------------------------------
(* The inductive strengthening. *)

ActivationLabels ==
    {"acc_add", "sr_check", "sr_cas", "rr_check", "rr_cas", "rv_zero", "rv_add",
     "rv_wsa", "rv_undo", "rr_clr"}

(* A worker inside a handler returns into the handler, never to "wait". *)
WorkerOK(t) ==
    /\ pc[t] \notin {"tick", "acc_add", "sr_check", "sr_cas"}
    /\ pc[t] \in SendLabels => retS[t] # "wait"
    /\ pc[t] \in DiscLabels => retD[t] # "wait"

(* Any other thread runs one outermost call and returns to "wait". *)
OtherOK(t) ==
    /\ pc[t] \in {"wait"} \cup DiscLabels \cup FireLabels
         \cup (IF t = Acceptor THEN ActivationLabels
               ELSE IF t \in Senders THEN SendLabels ELSE {"tick"})
    /\ retS[t] = "wait"
    /\ retD[t] = "wait"

OwnOK(t)  == (t \in Workers => WorkerOK(t)) /\ (t \notin Workers => OtherOK(t))
ThreadInv == \A t \in Threads : OwnOK(t)

(* While the acceptor activates the session, nobody else is inside it. *)
Activating == pc[Acceptor] \in ActivationLabels
AloneInv ==
    Activating =>
        /\ m_LastRecv = FALSE
        /\ m_bOnDisconnectedFired = FALSE
        /\ kRecv = <<>> /\ kSend = <<>> /\ cq = <<>>
        /\ \A u \in Threads \ {Acceptor} : pc[u] \in {"wait", "tick"}

(* A thread that may run the disconnect callback has seen the counter at   *)
(* zero, and it stays there.                                               *)
Firing(t) == pc[t] \in FireLabels \cup {"g_disc"}
FireInv ==
    (m_bOnDisconnectedFired = TRUE \/ \E t \in Threads : Firing(t))
        => m_OutstandingIoCount = 0

(* What one step of thread t does to the labels and to what is counted. *)
OnlyMoves(t) ==
    \A u \in Threads \ {t} :
        pc'[u] = pc[u] /\ retS'[u] = retS[u] /\ retD'[u] = retD[u] /\ comp'[u] = comp[u]

(* The step is not the end of worker t. *)
Survives(t) == pc[t] # "ended" /\ pc'[t] # "ended"

Counting(t) ==
    \/ RecvAdd(t) \/ RecvPosted(t) \/ RecvUndo(t)
    \/ TryPostAdd(t) \/ TryPostPosted(t) \/ TryPostUndo(t)
    \/ GuardRelease(t)

Calm(t) ==
    /\ UNCHANGED <<m_OutstandingIoCount, kRecv, kSend, cq>>
    /\ pc'[t] \in PostLabels <=> pc[t] \in PostLabels
    /\ t \in Workers => (InHandler(t)' <=> InHandler(t))

FireStep(t) ==
    /\ (m_bOnDisconnectedFired' = TRUE \/ Firing(t)') =>
          (m_bOnDisconnectedFired = TRUE \/ Firing(t) \/ m_OutstandingIoCount' = 0)
    /\ \/ m_OutstandingIoCount' = m_OutstandingIoCount
       \/ t \in Workers /\ InHandler(t)
       \/ pc[t] \in PostLabels
       \/ t = Acceptor /\ pc[t] \in ActivationLabels
       \/ t \in Senders

(* What a step of the acceptor leaves alone while it activates. *)
ActStep(t) ==
    pc'[t] \in ActivationLabels =>
        /\ pc[t] \in ActivationLabels
        /\ UNCHANGED <<m_LastRecv, m_bOnDisconnectedFired, kRecv, kSend, cq>>

-----------------------------------------------------------------------------
(* Types. *)

(* Every label a step may go to is a label. *)
LEMMA LabelFacts ==
    /\ "acc_add" \in Labels /\ "sr_check" \in Labels /\ "sr_cas" \in Labels
    /\ "rr_check" \in Labels /\ "rr_cas" \in Labels /\ "rv_zero" \in Labels
    /\ "rv_real" \in Labels /\ "rv_add" \in Labels /\ "rv_wsa" \in Labels
    /\ "rv_undo" \in Labels /\ "rr_clr" \in Labels /\ "hr_commit" \in Labels
    /\ "hr_check" \in Labels /\ "hr_drop" \in Labels /\ "rb_check" \in Labels
    /\ "rb_frame" \in Labels /\ "rb_disp" \in Labels /\ "hr_done" \in Labels
    /\ "sm_check" \in Labels /\ "sm_alloc" \in Labels /\ "sm_write" \in Labels
    /\ "tp_check" \in Labels /\ "tp_cas" \in Labels /\ "tp_read" \in Labels
    /\ "tp_add" \in Labels /\ "tp_wsa" \in Labels /\ "tp_undo" \in Labels
    /\ "tp_clr" \in Labels /\ "hs_clr" \in Labels /\ "hs_consume" \in Labels
    /\ "hs_check" \in Labels /\ "hs_pend" \in Labels /\ "rd_cas" \in Labels
    /\ "rd_close" \in Labels /\ "rd_recv" \in Labels /\ "rd_send" \in Labels
    /\ "rd_load" \in Labels /\ "fire" \in Labels /\ "fire_clr" \in Labels
    /\ "fire_cb" \in Labels /\ "wait" \in Labels /\ "guard" \in Labels
    /\ "g_disc" \in Labels /\ "tick" \in Labels /\ "ended" \in Labels
BY DEF Labels, RecvLabels, SendLabels, SentLabels, DiscLabels, FireLabels

(* Every return label is a label. *)
LEMMA RetLabels ==
    ASSUME TypeThreads, NEW t \in Threads
    PROVE  retS[t] \in Labels /\ retD[t] \in Labels
BY DEF TypeThreads, Labels, RecvLabels

(* The initial state is well typed. *)
LEMMA InitType == Init => TypeOK
<1> SUFFICES ASSUME Init PROVE TypeOK
  OBVIOUS
<1>1. TypeFlags
  BY DEF Init, TypeFlags
<1>2. TypeData
  BY DEF Init, TypeData
<1>3. TypeKernel
  BY DEF Init, TypeKernel
<1>4. TypeThreads
  BY LabelFacts DEF Init, TypeThreads, Completions, NoCompletion
<1> QED
  BY <1>1, <1>2, <1>3, <1>4 DEF TypeOK

(* A step of a running thread keeps the types of the shared state. *)
LEMMA RunShared ==
    ASSUME TypeOK, NEW t \in Threads, Running(t)
    PROVE  TypeFlags' /\ TypeData' /\ TypeKernel'
<1> USE DEF TypeOK, TypeFlags, TypeData, TypeKernel
<1>1. CASE AcceptAdd(t)
  BY <1>1 DEF AcceptAdd
<1>2. CASE StartCheck(t)
  BY <1>2 DEF Branch, StartCheck
<1>3. CASE StartCas(t)
  BY <1>3 DEF StartCas
<1>4. CASE ReceivedCheck(t)
  BY <1>4 DEF Branch, ReceivedCheck
<1>5. CASE ReceivedCas(t)
  BY <1>5 DEF ReceivedCas
<1>6. CASE PrepareZero(t)
  BY <1>6 DEF PrepareZero
<1>7. CASE PrepareReal(t)
  BY <1>7 DEF CallDisconnect, PrepareReal
<1>8. CASE RecvAdd(t)
  BY <1>8 DEF RecvAdd
<1>9. CASE RecvPosted(t)
  BY <1>9 DEF RecvPosted
<1>10. CASE RecvPostFailed(t)
  BY <1>10 DEF Branch, RecvPostFailed
<1>11. CASE RecvUndo(t)
  BY <1>11 DEF RecvUndo
<1>12. CASE RecvFailed(t)
  BY <1>12 DEF CallDisconnect, RecvFailed
<1>13. CASE RecvCommit(t)
  BY <1>13 DEF TypeThreads, Completions, RecvCommit
<1>14. CASE RecvCheck(t)
  BY <1>14 DEF Branch, RecvCheck
<1>15. CASE RecvDrop(t)
  BY <1>15 DEF RecvDrop
<1>16. CASE RecvDone(t)
  BY <1>16 DEF RecvDone
<1>17. CASE ReadCheck(t)
  BY <1>17 DEF Branch, ReadCheck
<1>18. CASE ReadNeedMore(t)
  BY <1>18 DEF Branch, ReadNeedMore
<1>19. CASE ReadInvalid(t)
  BY <1>19 DEF CallDisconnect, ReadInvalid
<1>20. CASE ReadPacket(t)
  BY <1>20 DEF ReadPacket
<1>21. CASE ReadStop(t)
  BY <1>21 DEF Branch, ReadStop
<1>22. CASE PacketIgnored(t)
  BY <1>22 DEF Branch, PacketIgnored
<1>23. CASE PacketAnswered(t)
  BY <1>23 DEF PacketAnswered
<1>24. CASE SentClear(t)
  BY <1>24 DEF CallDisconnect, SentClear
<1>25. CASE SentConsume(t)
  <2>1. TypeFlags' /\ TypeKernel'
    BY <1>25 DEF TypeOK, TypeFlags, TypeKernel, SentConsume
  <2>2. comp[t].n \in Nat /\ sendBuf \in Seq(Nat)
    BY DEF TypeOK, TypeData, TypeThreads, Completions
  <2>3. \A n \in Nat : n <= Len(sendBuf) => SubSeq(sendBuf, n + 1, Len(sendBuf)) \in Seq(Nat)
    BY <2>2
  <2>4. sendBuf' \in Seq(Nat)
    BY <1>25, <2>2, <2>3 DEF SentConsume
  <2>5. TypeData'
    BY <1>25, <2>4 DEF TypeOK, TypeData, SentConsume
  <2> QED BY <2>1, <2>5
<1>26. CASE SentCheck(t)
  BY <1>26 DEF Branch, SentCheck
<1>27. CASE SentPending(t)
  BY <1>27 DEF SentPending
<1>28. CASE SendCheck(t)
  BY <1>28 DEF Branch, SendCheck
<1>29. CASE SendAlloc(t)
  BY <1>29 DEF SendAlloc
<1>30. CASE SendOverflow(t)
  BY <1>30 DEF CallDisconnect, SendOverflow
<1>31. CASE SendWrite(t)
  BY <1>31 DEF TypeThreads, SendWrite
<1>32. CASE TryPostCheck(t)
  BY <1>32 DEF Branch, TryPostCheck
<1>33. CASE TryPostCas(t)
  BY <1>33 DEF TryPostCas
<1>34. CASE TryPostRead(t)
  BY <1>34 DEF TryPostRead
<1>35. CASE TryPostAdd(t)
  BY <1>35 DEF TryPostAdd
<1>36. CASE TryPostPosted(t)
  BY <1>36 DEF Stale, TryPostPosted
<1>37. CASE TryPostFailed(t)
  BY <1>37 DEF Branch, TryPostFailed
<1>38. CASE TryPostUndo(t)
  BY <1>38 DEF TryPostUndo
<1>39. CASE TryPostClear(t)
  BY <1>39 DEF TryPostClear
<1>40. CASE DiscCas(t)
  BY <1>40 DEF DiscCas
<1>41. CASE DiscClose(t)
  BY <1>41 DEF DiscClose
<1>42. CASE DiscClearRecv(t)
  BY <1>42 DEF DiscClearRecv
<1>43. CASE DiscClearSend(t)
  BY <1>43 DEF DiscClearSend
<1>44. CASE DiscLoad(t)
  BY <1>44 DEF Branch, DiscLoad
<1>45. CASE FireCas(t)
  BY <1>45 DEF FireCas
<1>46. CASE FireClear(t)
  BY <1>46 DEF FireClear
<1>47. CASE FireCallback(t)
  BY <1>47 DEF FireCallback
<1>48. CASE GuardRelease(t)
  BY <1>48 DEF GuardRelease
<1>49. CASE GuardCheck(t)
  BY <1>49 DEF GuardCheck
<1>50. CASE TickSkip(t)
  BY <1>50 DEF Branch, TickSkip
<1>51. CASE TickIdle(t)
  BY <1>51 DEF CallDisconnect, TickIdle
<1> QED
  BY <1>1, <1>2, <1>3, <1>4, <1>5, <1>6, <1>7, <1>8, <1>9, <1>10, <1>11, <1>12,
      <1>13, <1>14, <1>15, <1>16, <1>17, <1>18, <1>19, <1>20, <1>21, <1>22, <1>23,
      <1>24, <1>25, <1>26, <1>27, <1>28, <1>29, <1>30, <1>31, <1>32, <1>33, <1>34,
      <1>35, <1>36, <1>37, <1>38, <1>39, <1>40, <1>41, <1>42, <1>43, <1>44, <1>45,
      <1>46, <1>47, <1>48, <1>49, <1>50, <1>51 DEF Running

(* A step of a running thread keeps the types of the threads' own state. *)
LEMMA RunThreads ==
    ASSUME TypeOK, NEW t \in Threads, Running(t)
    PROVE  TypeThreads'
<1> USE DEF TypeOK, TypeThreads
<1>1. CASE AcceptAdd(t)
  BY <1>1, LabelFacts, RetLabels DEF Goto, AcceptAdd
<1>2. CASE StartCheck(t)
  BY <1>2, LabelFacts, RetLabels DEF Goto, Branch, End, StartCheck
<1>3. CASE StartCas(t)
  BY <1>3, LabelFacts, RetLabels DEF Goto, End, StartCas
<1>4. CASE ReceivedCheck(t)
  BY <1>4, LabelFacts, RetLabels DEF Goto, Branch, End, ReceivedCheck
<1>5. CASE ReceivedCas(t)
  BY <1>5, LabelFacts, RetLabels DEF Goto, End, ReceivedCas
<1>6. CASE PrepareZero(t)
  BY <1>6, LabelFacts, RetLabels DEF Goto, PrepareZero
<1>7. CASE PrepareReal(t)
  BY <1>7, LabelFacts, RetLabels DEF Goto, CallDisconnect, PrepareReal
<1>8. CASE RecvAdd(t)
  BY <1>8, LabelFacts, RetLabels DEF Goto, RecvAdd
<1>9. CASE RecvPosted(t)
  BY <1>9, LabelFacts, RetLabels DEF Goto, End, RecvPosted
<1>10. CASE RecvPostFailed(t)
  BY <1>10, LabelFacts, RetLabels DEF Goto, Branch, RecvPostFailed
<1>11. CASE RecvUndo(t)
  BY <1>11, LabelFacts, RetLabels DEF Goto, RecvUndo
<1>12. CASE RecvFailed(t)
  BY <1>12, LabelFacts, RetLabels DEF Goto, CallDisconnect, End, RecvFailed
<1>13. CASE RecvCommit(t)
  BY <1>13, LabelFacts, RetLabels DEF Goto, RecvCommit
<1>14. CASE RecvCheck(t)
  BY <1>14, LabelFacts, RetLabels DEF Goto, Branch, RecvCheck
<1>15. CASE RecvDrop(t)
  BY <1>15, LabelFacts, RetLabels DEF Goto, RecvDrop
<1>16. CASE RecvDone(t)
  BY <1>16, LabelFacts, RetLabels DEF Goto, RecvDone
<1>17. CASE ReadCheck(t)
  BY <1>17, LabelFacts, RetLabels DEF Goto, Branch, ReadCheck
<1>18. CASE ReadNeedMore(t)
  BY <1>18, LabelFacts, RetLabels DEF Goto, Branch, ReadNeedMore
<1>19. CASE ReadInvalid(t)
  BY <1>19, LabelFacts, RetLabels DEF Goto, CallDisconnect, ReadInvalid
<1>20. CASE ReadPacket(t)
  BY <1>20, LabelFacts, RetLabels DEF Goto, ReadPacket
<1>21. CASE ReadStop(t)
  BY <1>21, LabelFacts, RetLabels DEF Goto, Branch, ReadStop
<1>22. CASE PacketIgnored(t)
  BY <1>22, LabelFacts, RetLabels DEF Goto, Branch, PacketIgnored
<1>23. CASE PacketAnswered(t)
  BY <1>23, LabelFacts, RetLabels DEF Goto, PacketAnswered
<1>24. CASE SentClear(t)
  BY <1>24, LabelFacts, RetLabels DEF Goto, CallDisconnect, SentClear
<1>25. CASE SentConsume(t)
  BY <1>25, LabelFacts, RetLabels DEF Goto, SentConsume
<1>26. CASE SentCheck(t)
  BY <1>26, LabelFacts, RetLabels DEF Goto, Branch, SentCheck
<1>27. CASE SentPending(t)
  BY <1>27, LabelFacts, RetLabels DEF Goto, SentPending
<1>28. CASE SendCheck(t)
  BY <1>28, LabelFacts, RetLabels DEF Goto, Branch, SendCheck
<1>29. CASE SendAlloc(t)
  BY <1>29, LabelFacts, RetLabels DEF TypeData, Goto, SendAlloc
<1>30. CASE SendOverflow(t)
  BY <1>30, LabelFacts, RetLabels DEF Goto, CallDisconnect, SendOverflow
<1>31. CASE SendWrite(t)
  BY <1>31, LabelFacts, RetLabels DEF Goto, SendWrite
<1>32. CASE TryPostCheck(t)
  BY <1>32, LabelFacts, RetLabels DEF Goto, Branch, TryPostCheck
<1>33. CASE TryPostCas(t)
  BY <1>33, LabelFacts, RetLabels DEF Goto, TryPostCas
<1>34. CASE TryPostRead(t)
  BY <1>34, LabelFacts, RetLabels DEF Goto, TryPostRead
<1>35. CASE TryPostAdd(t)
  BY <1>35, LabelFacts, RetLabels DEF Goto, TryPostAdd
<1>36. CASE TryPostPosted(t)
  BY <1>36, LabelFacts, RetLabels DEF Goto, TryPostPosted
<1>37. CASE TryPostFailed(t)
  BY <1>37, LabelFacts, RetLabels DEF Goto, Branch, TryPostFailed
<1>38. CASE TryPostUndo(t)
  BY <1>38, LabelFacts, RetLabels DEF Goto, TryPostUndo
<1>39. CASE TryPostClear(t)
  BY <1>39, LabelFacts, RetLabels DEF Goto, TryPostClear
<1>40. CASE DiscCas(t)
  BY <1>40, LabelFacts, RetLabels DEF Goto, DiscCas
<1>41. CASE DiscClose(t)
  BY <1>41, LabelFacts, RetLabels DEF Goto, DiscClose
<1>42. CASE DiscClearRecv(t)
  BY <1>42, LabelFacts, RetLabels DEF Goto, DiscClearRecv
<1>43. CASE DiscClearSend(t)
  BY <1>43, LabelFacts, RetLabels DEF Goto, DiscClearSend
<1>44. CASE DiscLoad(t)
  BY <1>44, LabelFacts, RetLabels DEF Goto, Branch, DiscLoad
<1>45. CASE FireCas(t)
  BY <1>45, LabelFacts, RetLabels DEF Goto, FireCas
<1>46. CASE FireClear(t)
  BY <1>46, LabelFacts, RetLabels DEF Goto, FireClear
<1>47. CASE FireCallback(t)
  BY <1>47, LabelFacts, RetLabels DEF Goto, FireCallback
<1>48. CASE GuardRelease(t)
  BY <1>48, LabelFacts, RetLabels DEF Goto, GuardRelease
<1>49. CASE GuardCheck(t)
  BY <1>49, LabelFacts, RetLabels DEF Goto, GuardCheck
<1>50. CASE TickSkip(t)
  BY <1>50, LabelFacts, RetLabels DEF Goto, Branch, TickSkip
<1>51. CASE TickIdle(t)
  BY <1>51, LabelFacts, RetLabels DEF Goto, CallDisconnect, TickIdle
<1> QED
  BY <1>1, <1>2, <1>3, <1>4, <1>5, <1>6, <1>7, <1>8, <1>9, <1>10, <1>11, <1>12,
      <1>13, <1>14, <1>15, <1>16, <1>17, <1>18, <1>19, <1>20, <1>21, <1>22, <1>23,
      <1>24, <1>25, <1>26, <1>27, <1>28, <1>29, <1>30, <1>31, <1>32, <1>33, <1>34,
      <1>35, <1>36, <1>37, <1>38, <1>39, <1>40, <1>41, <1>42, <1>43, <1>44, <1>45,
      <1>46, <1>47, <1>48, <1>49, <1>50, <1>51 DEF Running

(* A worker that takes a completion packet keeps the types. *)
LEMMA DequeueType ==
    ASSUME TypeOK, NEW t \in Threads, Dequeue(t)
    PROVE  TypeOK'
<1>1. Head(cq) \in Completions /\ Tail(cq) \in Seq(Completions)
  BY DEF Dequeue, TypeOK, TypeKernel
<1>2. TypeFlags' /\ TypeData'
  BY DEF Dequeue, TypeOK, TypeFlags, TypeData
<1>3. TypeKernel'
  BY <1>1 DEF Dequeue, TypeOK, TypeKernel
<1>4. TypeThreads'
  BY <1>1, LabelFacts DEF Dequeue, TypeOK, TypeThreads, Goto, RecvEntry
<1> QED
  BY <1>2, <1>3, <1>4 DEF TypeOK

(* So does swallowing one. *)
LEMMA AbortedType ==
    ASSUME TypeOK, NEW t \in Threads, WorkerAborted(t)
    PROVE  TypeOK'
<1>1. Head(cq) \in Completions /\ Tail(cq) \in Seq(Completions)
  BY DEF WorkerAborted, TypeOK, TypeKernel
<1>2. TypeFlags' /\ TypeData'
  BY DEF WorkerAborted, TypeOK, TypeFlags, TypeData
<1>3. TypeKernel'
  BY <1>1 DEF WorkerAborted, TypeOK, TypeKernel
<1>4. TypeThreads'
  BY <1>1, LabelFacts DEF WorkerAborted, TypeOK, TypeThreads, Goto
<1> QED
  BY <1>2, <1>3, <1>4 DEF TypeOK

(* Starting a send or an idle tick keeps the types. *)
LEMMA StartType ==
    ASSUME TypeOK, NEW t \in Threads, SendStart(t) \/ TickSnapshot(t)
    PROVE  TypeOK'
<1>1. TypeFlags' /\ TypeData' /\ TypeKernel'
  BY DEF SendStart, TickSnapshot, Branch, TypeOK, TypeFlags, TypeData, TypeKernel
<1>2. TypeThreads'
  BY LabelFacts DEF SendStart, TickSnapshot, Branch, Goto, TypeOK, TypeThreads
<1> QED
  BY <1>1, <1>2 DEF TypeOK

(* The kernel moves well-typed operations to well-typed completions. *)
LEMMA KernelType ==
    ASSUME TypeOK, Kernel
    PROVE  TypeOK'
<1>1. TypeFlags' /\ TypeData' /\ TypeThreads'
  BY DEF Kernel, KernelRecvOk, KernelRecvEnd, KernelSendOk, KernelSendEnd,
         TypeOK, TypeFlags, TypeData, TypeThreads
<1>2. CASE KernelRecvOk
  <2> DEFINE c == [op |-> "recv", ok |-> TRUE, n |-> IF Head(kRecv) THEN 0 ELSE 1]
  <2>1. c \in Completions
    BY DEF Completions
  <2> HIDE DEF c
  <2>2. Append(cq, c) \in Seq(Completions)
    BY <2>1 DEF TypeOK, TypeKernel
  <2>3. /\ kRecv # <<>> /\ kRecv' = Tail(kRecv)
        /\ cq' = Append(cq, c)
        /\ received' = received \/ received' = received + 1
        /\ kSend' = kSend /\ wire' = wire
    BY <1>2, Zenon DEF KernelRecvOk, Complete, c
  <2>4. Tail(kRecv) \in Seq(BOOLEAN)
    BY <2>3 DEF TypeOK, TypeKernel
  <2>5. TypeKernel'
    BY <2>2, <2>3, <2>4 DEF TypeOK, TypeKernel
  <2> QED
    BY <1>1, <2>5 DEF TypeOK
<1>3. CASE KernelRecvEnd
  <2>1. Tail(kRecv) \in Seq(BOOLEAN)
    BY <1>3 DEF KernelRecvEnd, TypeOK, TypeKernel
  <2>2. \A ok \in BOOLEAN : [op |-> "recv", ok |-> ok, n |-> 0] \in Completions
    BY DEF Completions
  <2>3. cq' \in Seq(Completions)
    BY <1>3, <2>2 DEF KernelRecvEnd, Complete, TypeOK, TypeKernel
  <2>4. TypeKernel'
    BY <1>3, <2>1, <2>3 DEF KernelRecvEnd, TypeOK, TypeKernel
  <2> QED
    BY <1>1, <2>4 DEF TypeOK
<1>4. CASE KernelSendOk
  <2>1. Head(kSend) \in Seq(Nat) /\ Tail(kSend) \in Seq(Seq(Nat))
    BY <1>4 DEF KernelSendOk, TypeOK, TypeKernel
  <2>2. wire \o Head(kSend) \in Seq(Nat) /\ Len(Head(kSend)) \in Nat
    BY <2>1 DEF TypeOK, TypeKernel
  <2> QED
    BY <1>1, <1>4, <2>1, <2>2 DEF KernelSendOk, Complete, Completions, TypeOK, TypeKernel
<1>5. CASE KernelSendEnd
  <2>1. Tail(kSend) \in Seq(Seq(Nat))
    BY <1>5 DEF KernelSendEnd, TypeOK, TypeKernel
  <2>2. [op |-> "send", ok |-> FALSE, n |-> 0] \in Completions
    BY DEF Completions
  <2>3. TypeKernel'
    BY <1>5, <2>1, <2>2 DEF KernelSendEnd, Complete, TypeOK, TypeKernel
  <2> QED
    BY <1>1, <2>3 DEF TypeOK
<1> QED
  BY <1>1, <1>2, <1>3, <1>4, <1>5 DEF Kernel, TypeOK

(* Every step keeps the types. *)
LEMMA NextType == TypeOK /\ [Next]_vars => TypeOK'
<1> SUFFICES ASSUME TypeOK, [Next]_vars PROVE TypeOK'
  OBVIOUS
<1>1. ASSUME NEW t \in Threads, Running(t) PROVE TypeOK'
  BY <1>1, RunShared, RunThreads DEF TypeOK
<1>2. ASSUME NEW t \in Threads,
             Dequeue(t) \/ WorkerAborted(t) \/ SendStart(t) \/ TickSnapshot(t)
      PROVE  TypeOK'
  BY <1>2, DequeueType, AbortedType, StartType
<1>3. CASE Kernel
  BY <1>3, KernelType
<1>4. CASE UNCHANGED vars
  BY <1>4 DEF vars, TypeOK, TypeFlags, TypeData, TypeKernel, TypeThreads
<1> QED
  BY <1>1, <1>2, <1>3, <1>4 DEF Next

(* The types hold in every reachable state of the session. *)
THEOREM TypeCorrect == Spec => []TypeOK
<1>1. Init => TypeOK
  BY InitType
<1>2. TypeOK /\ [Next]_vars => TypeOK'
  BY NextType
<1> QED
  BY <1>1, <1>2, PTL DEF Spec

-----------------------------------------------------------------------------
(* Labels of the threads. *)

(* The threads other than t keep their placement. *)
LEMMA OthersOK ==
    ASSUME ThreadInv, NEW t \in Threads, OnlyMoves(t), OwnOK(t)'
    PROVE  ThreadInv'
BY DEF ThreadInv, OnlyMoves, OwnOK, WorkerOK, OtherOK

(* A running thread changes only its own labels and keeps them well placed. *)
LEMMA RunOwn ==
    ASSUME TypeOK, NEW t \in Threads, OwnOK(t), Running(t)
    PROVE  OnlyMoves(t) /\ Survives(t) /\ OwnOK(t)'
<1> USE DEF TypeOK, TypeThreads, OnlyMoves, Survives, OwnOK, WorkerOK, OtherOK,
            ActivationLabels, At, SendLabels, DiscLabels, FireLabels
<1>1. CASE AcceptAdd(t)
  BY <1>1 DEF Goto, AcceptAdd
<1>2. CASE StartCheck(t)
  BY <1>2 DEF Goto, Branch, End, StartCheck
<1>3. CASE StartCas(t)
  BY <1>3 DEF Goto, End, StartCas
<1>4. CASE ReceivedCheck(t)
  BY <1>4 DEF Goto, Branch, End, ReceivedCheck
<1>5. CASE ReceivedCas(t)
  BY <1>5 DEF Goto, End, ReceivedCas
<1>6. CASE PrepareZero(t)
  BY <1>6 DEF Goto, PrepareZero
<1>7. CASE PrepareReal(t)
  BY <1>7 DEF Goto, CallDisconnect, PrepareReal
<1>8. CASE RecvAdd(t)
  BY <1>8 DEF Goto, RecvAdd
<1>9. CASE RecvPosted(t)
  BY <1>9 DEF Goto, End, RecvPosted
<1>10. CASE RecvPostFailed(t)
  BY <1>10 DEF Goto, Branch, RecvPostFailed
<1>11. CASE RecvUndo(t)
  BY <1>11 DEF Goto, RecvUndo
<1>12. CASE RecvFailed(t)
  BY <1>12 DEF Goto, CallDisconnect, End, RecvFailed
<1>13. CASE RecvCommit(t)
  BY <1>13 DEF Goto, RecvCommit
<1>14. CASE RecvCheck(t)
  BY <1>14 DEF Goto, Branch, RecvCheck
<1>15. CASE RecvDrop(t)
  BY <1>15 DEF Goto, RecvDrop
<1>16. CASE RecvDone(t)
  BY <1>16 DEF Goto, RecvDone
<1>17. CASE ReadCheck(t)
  BY <1>17 DEF Goto, Branch, ReadCheck
<1>18. CASE ReadNeedMore(t)
  BY <1>18 DEF Goto, Branch, ReadNeedMore
<1>19. CASE ReadInvalid(t)
  BY <1>19 DEF Goto, CallDisconnect, ReadInvalid
<1>20. CASE ReadPacket(t)
  BY <1>20 DEF Goto, ReadPacket
<1>21. CASE ReadStop(t)
  BY <1>21 DEF Goto, Branch, ReadStop
<1>22. CASE PacketIgnored(t)
  BY <1>22 DEF Goto, Branch, PacketIgnored
<1>23. CASE PacketAnswered(t)
  BY <1>23 DEF Goto, PacketAnswered
<1>24. CASE SentClear(t)
  BY <1>24 DEF Goto, CallDisconnect, SentClear
<1>25. CASE SentConsume(t)
  BY <1>25 DEF Goto, SentConsume
<1>26. CASE SentCheck(t)
  BY <1>26 DEF Goto, Branch, SentCheck
<1>27. CASE SentPending(t)
  BY <1>27 DEF Goto, SentPending
<1>28. CASE SendCheck(t)
  BY <1>28 DEF Goto, Branch, SendCheck
<1>29. CASE SendAlloc(t)
  BY <1>29 DEF Goto, SendAlloc
<1>30. CASE SendOverflow(t)
  BY <1>30 DEF Goto, CallDisconnect, SendOverflow
<1>31. CASE SendWrite(t)
  BY <1>31 DEF Goto, SendWrite
<1>32. CASE TryPostCheck(t)
  BY <1>32 DEF Goto, Branch, TryPostCheck
<1>33. CASE TryPostCas(t)
  BY <1>33 DEF Goto, TryPostCas
<1>34. CASE TryPostRead(t)
  BY <1>34 DEF Goto, TryPostRead
<1>35. CASE TryPostAdd(t)
  BY <1>35 DEF Goto, TryPostAdd
<1>36. CASE TryPostPosted(t)
  BY <1>36 DEF Goto, TryPostPosted
<1>37. CASE TryPostFailed(t)
  BY <1>37 DEF Goto, Branch, TryPostFailed
<1>38. CASE TryPostUndo(t)
  BY <1>38 DEF Goto, TryPostUndo
<1>39. CASE TryPostClear(t)
  BY <1>39 DEF Goto, TryPostClear
<1>40. CASE DiscCas(t)
  BY <1>40 DEF Goto, DiscCas
<1>41. CASE DiscClose(t)
  BY <1>41 DEF Goto, DiscClose
<1>42. CASE DiscClearRecv(t)
  BY <1>42 DEF Goto, DiscClearRecv
<1>43. CASE DiscClearSend(t)
  BY <1>43 DEF Goto, DiscClearSend
<1>44. CASE DiscLoad(t)
  BY <1>44 DEF Goto, Branch, DiscLoad
<1>45. CASE FireCas(t)
  BY <1>45 DEF Goto, FireCas
<1>46. CASE FireClear(t)
  BY <1>46 DEF Goto, FireClear
<1>47. CASE FireCallback(t)
  BY <1>47 DEF Goto, FireCallback
<1>48. CASE GuardRelease(t)
  BY <1>48 DEF Goto, GuardRelease
<1>49. CASE GuardCheck(t)
  BY <1>49 DEF Goto, GuardCheck
<1>50. CASE TickSkip(t)
  BY <1>50 DEF Goto, Branch, TickSkip
<1>51. CASE TickIdle(t)
  BY <1>51 DEF Goto, CallDisconnect, TickIdle
<1> QED
  BY <1>1, <1>2, <1>3, <1>4, <1>5, <1>6, <1>7, <1>8, <1>9, <1>10, <1>11, <1>12,
      <1>13, <1>14, <1>15, <1>16, <1>17, <1>18, <1>19, <1>20, <1>21, <1>22, <1>23,
      <1>24, <1>25, <1>26, <1>27, <1>28, <1>29, <1>30, <1>31, <1>32, <1>33, <1>34,
      <1>35, <1>36, <1>37, <1>38, <1>39, <1>40, <1>41, <1>42, <1>43, <1>44, <1>45,
      <1>46, <1>47, <1>48, <1>49, <1>50, <1>51 DEF Running

(* Dispatch, a new send and a new tick place the thread well. *)
LEMMA StartOwn ==
    ASSUME TypeOK, NEW t \in Threads, OwnOK(t),
           Dequeue(t) \/ SendStart(t) \/ TickSnapshot(t)
    PROVE  OnlyMoves(t) /\ Survives(t) /\ OwnOK(t)'
<1> USE DEF TypeOK, TypeThreads, OnlyMoves, Survives, At, OwnOK, WorkerOK, OtherOK, SendLabels,
            DiscLabels, FireLabels, Goto
<1>1. CASE Dequeue(t)
  BY <1>1 DEF Dequeue, RecvEntry
<1>2. CASE SendStart(t)
  BY <1>2, ThreadsAssumption DEF SendStart
<1>3. CASE TickSnapshot(t)
  BY <1>3, ThreadsAssumption DEF TickSnapshot, Branch
<1> QED
  BY <1>1, <1>2, <1>3

(* The end of a worker moves only that worker. *)
LEMMA AbortedOwn ==
    ASSUME TypeOK, NEW t \in Threads, OwnOK(t), WorkerAborted(t)
    PROVE  /\ OnlyMoves(t) /\ OwnOK(t)'
           /\ pc[t] = "wait" /\ pc'[t] = "ended" /\ comp'[t] = Head(cq) /\ t # Acceptor
           /\ cq # <<>> /\ cq' = Tail(cq)
           /\ UNCHANGED <<flags, m_OutstandingIoCount, data, sockOpen, kRecv, kSend, retS, retD>>
<1>1. t # Acceptor
  BY ThreadsAssumption DEF WorkerAborted
<1>2. /\ pc[t] = "wait" /\ pc'[t] = "ended" /\ comp'[t] = Head(cq)
      /\ cq # <<>> /\ cq' = Tail(cq)
      /\ UNCHANGED <<flags, m_OutstandingIoCount, data, sockOpen, kRecv, kSend, retS, retD>>
  BY DEF WorkerAborted, At, Goto, TypeOK, TypeThreads
<1>3. OnlyMoves(t)
  BY <1>2 DEF WorkerAborted, Goto, OnlyMoves, TypeOK, TypeThreads
<1>4. OwnOK(t)'
  BY <1>2 DEF WorkerAborted, OwnOK, WorkerOK, SendLabels, DiscLabels
<1> QED
  BY <1>1, <1>2, <1>3, <1>4

(* Every step keeps every thread well placed. *)
LEMMA NextThreads == TypeOK /\ ThreadInv /\ [Next]_vars => ThreadInv'
<1> SUFFICES ASSUME TypeOK, ThreadInv, [Next]_vars PROVE ThreadInv'
  OBVIOUS
<1>1. ASSUME NEW t \in Threads, Running(t) PROVE ThreadInv'
  <2>1. OwnOK(t)
    BY DEF ThreadInv
  <2> QED
    BY <1>1, <2>1, RunOwn, OthersOK
<1>2. ASSUME NEW t \in Threads, Dequeue(t) \/ SendStart(t) \/ TickSnapshot(t)
      PROVE  ThreadInv'
  <2>1. OwnOK(t)
    BY DEF ThreadInv
  <2> QED
    BY <1>2, <2>1, StartOwn, OthersOK
<1>4. ASSUME NEW t \in Threads, WorkerAborted(t) PROVE ThreadInv'
  <2>1. OwnOK(t)
    BY DEF ThreadInv
  <2> QED
    BY <1>4, <2>1, AbortedOwn, OthersOK
<1>3. CASE Kernel \/ UNCHANGED vars
  BY <1>3 DEF Kernel, KernelRecvOk, KernelRecvEnd, KernelSendOk, KernelSendEnd, vars,
     ThreadInv, OwnOK, WorkerOK, OtherOK
<1> QED
  BY <1>1, <1>2, <1>3, <1>4 DEF Next

-----------------------------------------------------------------------------
(* The counter. *)

(* The steps that do not touch the counter move nothing it counts. *)
LEMMA RunCalm ==
    ASSUME TypeOK, NEW t \in Threads, OwnOK(t), Running(t),
           ~Counting(t)
    PROVE  Calm(t)
<1> USE DEF TypeOK, TypeThreads, OwnOK, WorkerOK, OtherOK, ActivationLabels, At,
            Calm, InHandler, PostLabels, SendLabels, DiscLabels, FireLabels
<1>1. CASE AcceptAdd(t)
  BY <1>1 DEF Goto, AcceptAdd
<1>2. CASE StartCheck(t)
  BY <1>2 DEF Goto, Branch, End, StartCheck
<1>3. CASE StartCas(t)
  BY <1>3 DEF Goto, End, StartCas
<1>4. CASE ReceivedCheck(t)
  BY <1>4 DEF Goto, Branch, End, ReceivedCheck
<1>5. CASE ReceivedCas(t)
  BY <1>5 DEF Goto, End, ReceivedCas
<1>6. CASE PrepareZero(t)
  BY <1>6 DEF Goto, PrepareZero
<1>7. CASE PrepareReal(t)
  BY <1>7 DEF Goto, CallDisconnect, PrepareReal
<1>8. CASE RecvPostFailed(t)
  BY <1>8 DEF Goto, Branch, RecvPostFailed
<1>9. CASE RecvFailed(t)
  BY <1>9 DEF Goto, CallDisconnect, End, RecvFailed
<1>10. CASE RecvCommit(t)
  BY <1>10 DEF Goto, RecvCommit
<1>11. CASE RecvCheck(t)
  BY <1>11 DEF Goto, Branch, RecvCheck
<1>12. CASE RecvDrop(t)
  BY <1>12 DEF Goto, RecvDrop
<1>13. CASE RecvDone(t)
  BY <1>13 DEF Goto, RecvDone
<1>14. CASE ReadCheck(t)
  BY <1>14 DEF Goto, Branch, ReadCheck
<1>15. CASE ReadNeedMore(t)
  BY <1>15 DEF Goto, Branch, ReadNeedMore
<1>16. CASE ReadInvalid(t)
  BY <1>16 DEF Goto, CallDisconnect, ReadInvalid
<1>17. CASE ReadPacket(t)
  BY <1>17 DEF Goto, ReadPacket
<1>18. CASE ReadStop(t)
  BY <1>18 DEF Goto, Branch, ReadStop
<1>19. CASE PacketIgnored(t)
  BY <1>19 DEF Goto, Branch, PacketIgnored
<1>20. CASE PacketAnswered(t)
  BY <1>20 DEF Goto, PacketAnswered
<1>21. CASE SentClear(t)
  BY <1>21 DEF Goto, CallDisconnect, SentClear
<1>22. CASE SentConsume(t)
  BY <1>22 DEF Goto, SentConsume
<1>23. CASE SentCheck(t)
  BY <1>23 DEF Goto, Branch, SentCheck
<1>24. CASE SentPending(t)
  BY <1>24 DEF Goto, SentPending
<1>25. CASE SendCheck(t)
  BY <1>25 DEF Goto, Branch, SendCheck
<1>26. CASE SendAlloc(t)
  BY <1>26 DEF Goto, SendAlloc
<1>27. CASE SendOverflow(t)
  BY <1>27 DEF Goto, CallDisconnect, SendOverflow
<1>28. CASE SendWrite(t)
  BY <1>28 DEF Goto, SendWrite
<1>29. CASE TryPostCheck(t)
  BY <1>29 DEF Goto, Branch, TryPostCheck
<1>30. CASE TryPostCas(t)
  BY <1>30 DEF Goto, TryPostCas
<1>31. CASE TryPostRead(t)
  BY <1>31 DEF Goto, TryPostRead
<1>32. CASE TryPostFailed(t)
  BY <1>32 DEF Goto, Branch, TryPostFailed
<1>33. CASE TryPostClear(t)
  BY <1>33 DEF Goto, TryPostClear
<1>34. CASE DiscCas(t)
  BY <1>34 DEF Goto, DiscCas
<1>35. CASE DiscClose(t)
  BY <1>35 DEF Goto, DiscClose
<1>36. CASE DiscClearRecv(t)
  BY <1>36 DEF Goto, DiscClearRecv
<1>37. CASE DiscClearSend(t)
  BY <1>37 DEF Goto, DiscClearSend
<1>38. CASE DiscLoad(t)
  BY <1>38 DEF Goto, Branch, DiscLoad
<1>39. CASE FireCas(t)
  BY <1>39 DEF Goto, FireCas
<1>40. CASE FireClear(t)
  BY <1>40 DEF Goto, FireClear
<1>41. CASE FireCallback(t)
  BY <1>41 DEF Goto, FireCallback
<1>42. CASE GuardCheck(t)
  BY <1>42 DEF Goto, GuardCheck
<1>43. CASE TickSkip(t)
  BY <1>43 DEF Goto, Branch, TickSkip
<1>44. CASE TickIdle(t)
  BY <1>44 DEF Goto, CallDisconnect, TickIdle
<1> QED
  BY <1>1, <1>2, <1>3, <1>4, <1>5, <1>6, <1>7, <1>8, <1>9, <1>10, <1>11, <1>12,
      <1>13, <1>14, <1>15, <1>16, <1>17, <1>18, <1>19, <1>20, <1>21, <1>22, <1>23,
      <1>24, <1>25, <1>26, <1>27, <1>28, <1>29, <1>30, <1>31, <1>32, <1>33, <1>34,
      <1>35, <1>36, <1>37, <1>38, <1>39, <1>40, <1>41, <1>42, <1>43, <1>44 DEF Running, Counting

(* The counted sets of threads are finite. *)
LEMMA CountedFinite ==
    /\ IsFiniteSet(Posting) /\ Cardinality(Posting) \in Nat
    /\ IsFiniteSet(Guarded) /\ Cardinality(Guarded) \in Nat
    /\ IsFiniteSet(Ended) /\ Cardinality(Ended) \in Nat
<1>1. IsFiniteSet(Threads)
  BY ThreadsAssumption, FS_Singleton, FS_Union DEF Threads
<1>2. IsFiniteSet(Workers)
  BY ThreadsAssumption
<1>3. Posting \subseteq Threads /\ Guarded \subseteq Workers /\ Ended \subseteq Workers
  BY DEF Posting, Guarded, Ended
<1> QED
  BY <1>1, <1>2, <1>3, FS_Subset, FS_CardinalityType

(* A thread that does not start or end a posting leaves Posting alone. *)
LEMMA PostingSame ==
    ASSUME NEW t \in Threads, OnlyMoves(t), pc'[t] \in PostLabels <=> pc[t] \in PostLabels
    PROVE  Posting' = Posting
BY DEF Posting, OnlyMoves

(* A thread that does not enter or leave a handler leaves Guarded alone. *)
LEMMA GuardedSame ==
    ASSUME NEW t \in Threads, OnlyMoves(t), t \in Workers => (InHandler(t)' <=> InHandler(t))
    PROVE  Guarded' = Guarded
BY DEF Guarded, OnlyMoves, InHandler, Threads

(* A thread that is not at its end leaves Ended alone. *)
LEMMA EndedSame ==
    ASSUME NEW t \in Threads, OnlyMoves(t), Survives(t)
    PROVE  Ended' = Ended
BY DEF Ended, OnlyMoves, Survives, Threads

(* The end of a worker counts one more worker. *)
LEMMA EndedEnter ==
    ASSUME NEW t \in Workers, OnlyMoves(t), pc[t] # "ended", pc'[t] = "ended"
    PROVE  Cardinality(Ended') = Cardinality(Ended) + 1
<1>1. Ended' = Ended \cup {t} /\ t \notin Ended
  BY DEF Ended, OnlyMoves, Threads
<1> QED
  BY <1>1, CountedFinite, FS_AddElement

(* Starting a posting counts one more thread. *)
LEMMA PostingEnter ==
    ASSUME NEW t \in Threads, OnlyMoves(t), pc[t] \notin PostLabels, pc'[t] \in PostLabels
    PROVE  Cardinality(Posting') = Cardinality(Posting) + 1
<1>1. Posting' = Posting \cup {t} /\ t \notin Posting
  BY DEF Posting, OnlyMoves
<1> QED
  BY <1>1, CountedFinite, FS_AddElement

(* Ending a posting counts one thread less. *)
LEMMA PostingLeave ==
    ASSUME NEW t \in Threads, OnlyMoves(t), pc[t] \in PostLabels, pc'[t] \notin PostLabels
    PROVE  Cardinality(Posting') = Cardinality(Posting) - 1
<1>1. Posting' = Posting \ {t} /\ t \in Posting
  BY DEF Posting, OnlyMoves
<1> QED
  BY <1>1, CountedFinite, FS_RemoveElement

(* Entering a handler counts one more worker. *)
LEMMA GuardedEnter ==
    ASSUME NEW t \in Workers, OnlyMoves(t), ~InHandler(t), InHandler(t)'
    PROVE  Cardinality(Guarded') = Cardinality(Guarded) + 1
<1>1. Guarded' = Guarded \cup {t} /\ t \notin Guarded
  BY DEF Guarded, OnlyMoves, InHandler, Threads
<1> QED
  BY <1>1, CountedFinite, FS_AddElement

(* Releasing the guard counts one worker less. *)
LEMMA GuardedLeave ==
    ASSUME NEW t \in Workers, OnlyMoves(t), InHandler(t), ~InHandler(t)'
    PROVE  Cardinality(Guarded') = Cardinality(Guarded) - 1
<1>1. Guarded' = Guarded \ {t} /\ t \in Guarded
  BY DEF Guarded, OnlyMoves, InHandler, Threads
<1> QED
  BY <1>1, CountedFinite, FS_RemoveElement

(* The steps that change the counter change what it counts by as much. *)
LEMMA CountingExact ==
    ASSUME TypeOK, OutstandingExact, NEW t \in Threads, OwnOK(t), OnlyMoves(t), Survives(t),
           Counting(t)
    PROVE  OutstandingExact'
<1>0. Ended' = Ended
  BY EndedSame
<1>n. /\ m_OutstandingIoCount \in Int
      /\ Len(kRecv) \in Nat /\ Len(kSend) \in Nat /\ Len(cq) \in Nat
      /\ Cardinality(Posting) \in Nat /\ Cardinality(Guarded) \in Nat
      /\ Cardinality(Ended) \in Nat
  BY CountedFinite DEF TypeOK, TypeData, TypeKernel
<1>p. TypeThreads
  BY DEF TypeOK
<1> USE <1>p DEF TypeThreads, At, Goto
<1>1. CASE RecvAdd(t) \/ TryPostAdd(t)
  <2>1. Cardinality(Posting') = Cardinality(Posting) + 1
    BY <1>1, PostingEnter DEF RecvAdd, TryPostAdd, PostLabels
  <2>2. Guarded' = Guarded
    BY <1>1, GuardedSame DEF RecvAdd, TryPostAdd, InHandler, FireLabels
  <2>3. m_OutstandingIoCount' = m_OutstandingIoCount + 1 /\ UNCHANGED <<kRecv, kSend, cq>>
    BY <1>1 DEF RecvAdd, TryPostAdd
  <2> QED
    BY <1>0, <1>n, <2>1, <2>2, <2>3, SMTT(60) DEF OutstandingExact
<1>2. CASE RecvUndo(t) \/ TryPostUndo(t)
  <2>1. Cardinality(Posting') = Cardinality(Posting) - 1
    BY <1>2, PostingLeave DEF RecvUndo, TryPostUndo, PostLabels
  <2>2. Guarded' = Guarded
    BY <1>2, GuardedSame DEF RecvUndo, TryPostUndo, InHandler, FireLabels
  <2>3. m_OutstandingIoCount' = m_OutstandingIoCount - 1 /\ UNCHANGED <<kRecv, kSend, cq>>
    BY <1>2 DEF RecvUndo, TryPostUndo
  <2> QED
    BY <1>0, <1>n, <2>1, <2>2, <2>3, SMTT(60) DEF OutstandingExact
<1>3. CASE RecvPosted(t)
  <2>1. Cardinality(Posting') = Cardinality(Posting) - 1
    BY <1>3, PostingLeave DEF RecvPosted, PostLabels, End
  <2>2. Guarded' = Guarded
    BY <1>3, GuardedSame DEF RecvPosted, InHandler, FireLabels, End
  <2>3. Len(kRecv') = Len(kRecv) + 1
    BY <1>3 DEF RecvPosted, TypeOK, TypeKernel
  <2> QED
    BY <1>0, <1>n, <1>3, <2>1, <2>2, <2>3, SMTT(60) DEF RecvPosted, OutstandingExact
<1>4. CASE TryPostPosted(t)
  <2>1. Cardinality(Posting') = Cardinality(Posting) - 1
    BY <1>4, PostingLeave DEF TryPostPosted, PostLabels
  <2>2. Guarded' = Guarded
    BY <1>4, GuardedSame DEF TryPostPosted, InHandler, FireLabels, OwnOK, WorkerOK, SendLabels
  <2>3. Len(kSend') = Len(kSend) + 1
    BY <1>4 DEF TryPostPosted, TypeOK, TypeData, TypeKernel
  <2> QED
    BY <1>0, <1>n, <1>4, <2>1, <2>2, <2>3, SMTT(60) DEF TryPostPosted, OutstandingExact
<1>5. CASE GuardRelease(t)
  <2>1. t \in Workers
    BY <1>5 DEF GuardRelease, OwnOK, OtherOK, ActivationLabels, SendLabels, DiscLabels, FireLabels
  <2>2. Posting' = Posting
    BY <1>5, PostingSame DEF GuardRelease, PostLabels
  <2>3. Cardinality(Guarded') = Cardinality(Guarded) - 1
    BY <1>5, <2>1, GuardedLeave DEF GuardRelease, InHandler, FireLabels
  <2> QED
    BY <1>0, <1>n, <1>5, <2>2, <2>3, SMTT(60) DEF GuardRelease, OutstandingExact
<1> QED
  BY <1>1, <1>2, <1>3, <1>4, <1>5 DEF Counting

(* A step that moves nothing counted leaves the equation alone. *)
LEMMA CalmExact ==
    ASSUME OutstandingExact, NEW t \in Threads, OnlyMoves(t), Survives(t), Calm(t)
    PROVE  OutstandingExact'
<1>1. Posting' = Posting /\ Guarded' = Guarded /\ Ended' = Ended
  BY PostingSame, GuardedSame, EndedSame DEF Calm
<1> QED
  BY <1>1 DEF OutstandingExact, Calm

(* Dispatching moves one unit from the queue to the worker. *)
LEMMA DequeueExact ==
    ASSUME TypeOK, OutstandingExact, NEW t \in Threads, OnlyMoves(t), Survives(t), Dequeue(t)
    PROVE  OutstandingExact'
<1>0. Ended' = Ended
  BY EndedSame
<1> USE CountedFinite DEF TypeOK, TypeKernel, TypeThreads, OutstandingExact, At, Goto, Dequeue
<1>1. Posting' = Posting
  BY PostingSame DEF PostLabels, RecvEntry
<1>2. Cardinality(Guarded') = Cardinality(Guarded) + 1
  BY GuardedEnter DEF InHandler, FireLabels, RecvEntry
<1>3. Len(cq') = Len(cq) - 1
  OBVIOUS
<1> QED
  BY <1>0, <1>1, <1>2, <1>3, SMTT(60) DEF TypeData

(* Swallowing moves one unit from the queue to the worker that ends. *)
LEMMA AbortedExact ==
    ASSUME TypeOK, OutstandingExact, NEW t \in Threads, OwnOK(t), WorkerAborted(t)
    PROVE  OutstandingExact'
<1> USE CountedFinite
<1>1. /\ OnlyMoves(t) /\ pc[t] = "wait" /\ pc'[t] = "ended" /\ t \in Workers
      /\ cq # <<>> /\ cq' = Tail(cq) /\ cq \in Seq(Completions)
      /\ m_OutstandingIoCount' = m_OutstandingIoCount /\ kRecv' = kRecv /\ kSend' = kSend
  BY AbortedOwn DEF WorkerAborted, TypeOK, TypeKernel
<1>2. Posting' = Posting
  BY <1>1, PostingSame DEF PostLabels
<1>3. Guarded' = Guarded
  BY <1>1, GuardedSame DEF InHandler
<1>4. Cardinality(Ended') = Cardinality(Ended) + 1
  BY <1>1, EndedEnter
<1>5. Len(cq') = Len(cq) - 1
  BY <1>1
<1>6. Len(kRecv) \in Nat /\ Len(kSend) \in Nat /\ Len(cq) \in Nat /\ m_OutstandingIoCount \in Int
  BY DEF TypeOK, TypeKernel, TypeData
<1> QED
  BY <1>1, <1>2, <1>3, <1>4, <1>5, <1>6, SMTT(60) DEF OutstandingExact

(* Completing an operation moves one unit from the kernel to the queue. *)
LEMMA KernelExact ==
    ASSUME TypeOK, OutstandingExact, Kernel
    PROVE  OutstandingExact'
<1>1. Posting' = Posting /\ Guarded' = Guarded /\ Ended' = Ended
  BY DEF Kernel, KernelRecvOk, KernelRecvEnd, KernelSendOk, KernelSendEnd, Posting,
         Guarded, InHandler, Ended
<1>2. Len(kRecv') + Len(kSend') + Len(cq') = Len(kRecv) + Len(kSend) + Len(cq)
  <2> USE DEF TypeOK, TypeKernel, Complete
  <2>1. CASE KernelRecvOk
    <3>1. kRecv # <<>> /\ kRecv' = Tail(kRecv) /\ kSend' = kSend
      BY <2>1, Zenon DEF KernelRecvOk
    <3>2. PICK c : cq' = Append(cq, c)
      BY <2>1, Zenon DEF KernelRecvOk
    <3>3. Len(kRecv') = Len(kRecv) - 1
      BY <3>1
    <3>4. Len(cq') = Len(cq) + 1
      BY <3>2
    <3> QED
      BY <3>1, <3>3, <3>4
  <2>2. CASE KernelRecvEnd
    BY <2>2 DEF KernelRecvEnd
  <2>3. CASE KernelSendOk
    BY <2>3 DEF KernelSendOk
  <2>4. CASE KernelSendEnd
    BY <2>4 DEF KernelSendEnd
  <2> QED
    BY <2>1, <2>2, <2>3, <2>4 DEF Kernel
<1>3. m_OutstandingIoCount' = m_OutstandingIoCount
  BY DEF Kernel, KernelRecvOk, KernelRecvEnd, KernelSendOk, KernelSendEnd
<1> QED
  BY <1>1, <1>2, <1>3, SMTT(60) DEF OutstandingExact

(* The inductive invariant behind OutstandingExact. *)
CountInv == TypeOK /\ ThreadInv /\ OutstandingExact

(* Initially nothing is counted. *)
LEMMA InitCount == Init => CountInv
<1> SUFFICES ASSUME Init PROVE CountInv
  OBVIOUS
<1>1. ThreadInv
  <2> SUFFICES ASSUME NEW t \in Threads PROVE OwnOK(t)
    BY DEF ThreadInv
  <2>1. /\ pc[t] = IF t = Acceptor THEN "acc_add" ELSE "wait"
        /\ retS[t] = "wait" /\ retD[t] = "wait"
    BY DEF Init
  <2>2. t \in Workers => t # Acceptor
    BY ThreadsAssumption
  <2> QED
    BY <2>1, <2>2 DEF OwnOK, WorkerOK, OtherOK, ActivationLabels, SendLabels, DiscLabels
<1>2. Posting = {} /\ Guarded = {} /\ Ended = {}
  BY ThreadsAssumption DEF Init, Posting, PostLabels, Guarded, InHandler, Ended, Threads
<1>3. OutstandingExact
  BY <1>2, FS_EmptySet DEF Init, OutstandingExact
<1> QED
  BY <1>1, <1>3, InitType DEF CountInv

(* Every step keeps the counter exact. *)
LEMMA NextCount == CountInv /\ [Next]_vars => CountInv'
<1> SUFFICES ASSUME CountInv, [Next]_vars PROVE CountInv'
  OBVIOUS
<1> USE DEF CountInv
<1>1. TypeOK' /\ ThreadInv'
  BY NextType, NextThreads
<1>2. ASSUME NEW t \in Threads, Running(t) PROVE OutstandingExact'
  <2>1. OwnOK(t) /\ OnlyMoves(t) /\ Survives(t)
    BY <1>2, RunOwn DEF ThreadInv
  <2> QED
    BY <1>2, <2>1, RunCalm, CalmExact, CountingExact
<1>3. ASSUME NEW t \in Threads, Dequeue(t) \/ SendStart(t) \/ TickSnapshot(t)
      PROVE  OutstandingExact'
  <2>1. OwnOK(t) /\ OnlyMoves(t) /\ Survives(t)
    BY <1>3, StartOwn DEF ThreadInv
  <2>2. CASE Dequeue(t)
    BY <2>1, <2>2, DequeueExact
  <2>3. CASE SendStart(t) \/ TickSnapshot(t)
    <3>1. t \notin Workers
      BY <2>3, ThreadsAssumption DEF SendStart, TickSnapshot
    <3>2. Calm(t)
      BY <2>3, <3>1 DEF SendStart, TickSnapshot, Branch, Goto, At, Calm, PostLabels, TypeOK,
         TypeThreads
    <3> QED
      BY <2>1, <3>2, CalmExact
  <2> QED
    BY <1>3, <2>2, <2>3
<1>6. ASSUME NEW t \in Threads, WorkerAborted(t) PROVE OutstandingExact'
  BY <1>6, AbortedExact DEF ThreadInv
<1>4. ASSUME Kernel PROVE OutstandingExact'
  BY <1>4, KernelExact
<1>5. ASSUME UNCHANGED vars PROVE OutstandingExact'
  <2>1. UNCHANGED <<m_OutstandingIoCount, kRecv, kSend, cq, pc, retD>>
    BY <1>5 DEF vars
  <2>2. Posting' = Posting /\ Guarded' = Guarded /\ Ended' = Ended
    BY <2>1 DEF Posting, Guarded, InHandler, Ended
  <2> QED
    BY <2>1, <2>2 DEF OutstandingExact
<1> QED
  BY <1>1, <1>2, <1>3, <1>4, <1>5, <1>6 DEF Next

(* m_OutstandingIoCount in every reachable state, whatever the number of    *)
(* threads: the pending, queued, handled and half-posted operations, plus   *)
(* one unit for every completion that a worker swallowed as it ended.  No   *)
(* interleaving of disconnects, failed postings, undos and guards makes it  *)
(* drift otherwise, and it is never below the work that is left.            *)
THEOREM CounterCorrect == Spec => []OutstandingExact
<1>1. Init => CountInv
  BY InitCount
<1>2. CountInv /\ [Next]_vars => CountInv'
  BY NextCount
<1>3. CountInv => OutstandingExact
  BY DEF CountInv
<1> QED
  BY <1>1, <1>2, <1>3, PTL DEF Spec

-----------------------------------------------------------------------------
(* The disconnect callback, when every SendMessage comes from a handler. *)

(* How one step can bring a thread to the disconnect callback or change the counter. *)
LEMMA RunFire ==
    ASSUME TypeOK, NEW t \in Threads, OwnOK(t), Running(t)
    PROVE  FireStep(t)
<1> USE DEF TypeOK, TypeData, TypeThreads, OwnOK, WorkerOK, OtherOK,
            ActivationLabels, At, FireStep, Firing, InHandler, PostLabels,
            SendLabels, DiscLabels, FireLabels
<1>1. CASE AcceptAdd(t)
  BY <1>1 DEF Goto, AcceptAdd
<1>2. CASE StartCheck(t)
  BY <1>2 DEF Goto, Branch, End, StartCheck
<1>3. CASE StartCas(t)
  BY <1>3 DEF Goto, End, StartCas
<1>4. CASE ReceivedCheck(t)
  BY <1>4 DEF Goto, Branch, End, ReceivedCheck
<1>5. CASE ReceivedCas(t)
  BY <1>5 DEF Goto, End, ReceivedCas
<1>6. CASE PrepareZero(t)
  BY <1>6 DEF Goto, PrepareZero
<1>7. CASE PrepareReal(t)
  BY <1>7 DEF Goto, CallDisconnect, PrepareReal
<1>8. CASE RecvAdd(t)
  BY <1>8 DEF Goto, RecvAdd
<1>9. CASE RecvPosted(t)
  BY <1>9 DEF Goto, End, RecvPosted
<1>10. CASE RecvPostFailed(t)
  BY <1>10 DEF Goto, Branch, RecvPostFailed
<1>11. CASE RecvUndo(t)
  BY <1>11 DEF Goto, RecvUndo
<1>12. CASE RecvFailed(t)
  BY <1>12 DEF Goto, CallDisconnect, End, RecvFailed
<1>13. CASE RecvCommit(t)
  BY <1>13 DEF Goto, RecvCommit
<1>14. CASE RecvCheck(t)
  BY <1>14 DEF Goto, Branch, RecvCheck
<1>15. CASE RecvDrop(t)
  BY <1>15 DEF Goto, RecvDrop
<1>16. CASE RecvDone(t)
  BY <1>16 DEF Goto, RecvDone
<1>17. CASE ReadCheck(t)
  BY <1>17 DEF Goto, Branch, ReadCheck
<1>18. CASE ReadNeedMore(t)
  BY <1>18 DEF Goto, Branch, ReadNeedMore
<1>19. CASE ReadInvalid(t)
  BY <1>19 DEF Goto, CallDisconnect, ReadInvalid
<1>20. CASE ReadPacket(t)
  BY <1>20 DEF Goto, ReadPacket
<1>21. CASE ReadStop(t)
  BY <1>21 DEF Goto, Branch, ReadStop
<1>22. CASE PacketIgnored(t)
  BY <1>22 DEF Goto, Branch, PacketIgnored
<1>23. CASE PacketAnswered(t)
  BY <1>23 DEF Goto, PacketAnswered
<1>24. CASE SentClear(t)
  BY <1>24 DEF Goto, CallDisconnect, SentClear
<1>25. CASE SentConsume(t)
  BY <1>25 DEF Goto, SentConsume
<1>26. CASE SentCheck(t)
  BY <1>26 DEF Goto, Branch, SentCheck
<1>27. CASE SentPending(t)
  BY <1>27 DEF Goto, SentPending
<1>28. CASE SendCheck(t)
  BY <1>28 DEF Goto, Branch, SendCheck
<1>29. CASE SendAlloc(t)
  BY <1>29 DEF Goto, SendAlloc
<1>30. CASE SendOverflow(t)
  BY <1>30 DEF Goto, CallDisconnect, SendOverflow
<1>31. CASE SendWrite(t)
  BY <1>31 DEF Goto, SendWrite
<1>32. CASE TryPostCheck(t)
  BY <1>32 DEF Goto, Branch, TryPostCheck
<1>33. CASE TryPostCas(t)
  BY <1>33 DEF Goto, TryPostCas
<1>34. CASE TryPostRead(t)
  BY <1>34 DEF Goto, TryPostRead
<1>35. CASE TryPostAdd(t)
  BY <1>35 DEF Goto, TryPostAdd
<1>36. CASE TryPostPosted(t)
  BY <1>36 DEF Goto, TryPostPosted
<1>37. CASE TryPostFailed(t)
  BY <1>37 DEF Goto, Branch, TryPostFailed
<1>38. CASE TryPostUndo(t)
  BY <1>38 DEF Goto, TryPostUndo
<1>39. CASE TryPostClear(t)
  BY <1>39 DEF Goto, TryPostClear
<1>40. CASE DiscCas(t)
  BY <1>40 DEF Goto, DiscCas
<1>41. CASE DiscClose(t)
  BY <1>41 DEF Goto, DiscClose
<1>42. CASE DiscClearRecv(t)
  BY <1>42 DEF Goto, DiscClearRecv
<1>43. CASE DiscClearSend(t)
  BY <1>43 DEF Goto, DiscClearSend
<1>44. CASE DiscLoad(t)
  BY <1>44 DEF Goto, Branch, DiscLoad
<1>45. CASE FireCas(t)
  BY <1>45 DEF Goto, FireCas
<1>46. CASE FireClear(t)
  BY <1>46 DEF Goto, FireClear
<1>47. CASE FireCallback(t)
  BY <1>47 DEF Goto, FireCallback
<1>48. CASE GuardRelease(t)
  BY <1>48 DEF Goto, GuardRelease
<1>49. CASE GuardCheck(t)
  BY <1>49 DEF Goto, GuardCheck
<1>50. CASE TickSkip(t)
  BY <1>50 DEF Goto, Branch, TickSkip
<1>51. CASE TickIdle(t)
  BY <1>51 DEF Goto, CallDisconnect, TickIdle
<1> QED
  BY <1>1, <1>2, <1>3, <1>4, <1>5, <1>6, <1>7, <1>8, <1>9, <1>10, <1>11, <1>12,
      <1>13, <1>14, <1>15, <1>16, <1>17, <1>18, <1>19, <1>20, <1>21, <1>22, <1>23,
      <1>24, <1>25, <1>26, <1>27, <1>28, <1>29, <1>30, <1>31, <1>32, <1>33, <1>34,
      <1>35, <1>36, <1>37, <1>38, <1>39, <1>40, <1>41, <1>42, <1>43, <1>44, <1>45,
      <1>46, <1>47, <1>48, <1>49, <1>50, <1>51 DEF Running

(* The acceptor leaves its activation only to return, and posts nothing before it does. *)
LEMMA RunAcceptor ==
    ASSUME TypeOK, NEW t \in Threads, t = Acceptor, OwnOK(t), Running(t)
    PROVE  ActStep(t)
<1> USE DEF TypeOK, TypeThreads, OwnOK, OtherOK, ActivationLabels, At, ActStep,
            SendLabels, DiscLabels, FireLabels
<1>1. CASE AcceptAdd(t)
  BY <1>1, ThreadsAssumption DEF Goto, AcceptAdd
<1>2. CASE StartCheck(t)
  BY <1>2, ThreadsAssumption DEF Goto, Branch, End, StartCheck
<1>3. CASE StartCas(t)
  BY <1>3, ThreadsAssumption DEF Goto, End, StartCas
<1>4. CASE ReceivedCheck(t)
  BY <1>4, ThreadsAssumption DEF Goto, Branch, End, ReceivedCheck
<1>5. CASE ReceivedCas(t)
  BY <1>5, ThreadsAssumption DEF Goto, End, ReceivedCas
<1>6. CASE PrepareZero(t)
  BY <1>6, ThreadsAssumption DEF Goto, PrepareZero
<1>7. CASE RecvAdd(t)
  BY <1>7, ThreadsAssumption DEF Goto, RecvAdd
<1>8. CASE RecvPosted(t)
  BY <1>8, ThreadsAssumption DEF Goto, End, RecvPosted
<1>9. CASE RecvPostFailed(t)
  BY <1>9, ThreadsAssumption DEF Goto, Branch, RecvPostFailed
<1>10. CASE RecvUndo(t)
  BY <1>10, ThreadsAssumption DEF Goto, RecvUndo
<1>11. CASE RecvFailed(t)
  BY <1>11, ThreadsAssumption DEF Goto, CallDisconnect, End, RecvFailed
<1>12. CASE DiscCas(t)
  BY <1>12, ThreadsAssumption DEF Goto, DiscCas
<1>13. CASE DiscClose(t)
  BY <1>13, ThreadsAssumption DEF Goto, DiscClose
<1>14. CASE DiscClearRecv(t)
  BY <1>14, ThreadsAssumption DEF Goto, DiscClearRecv
<1>15. CASE DiscClearSend(t)
  BY <1>15, ThreadsAssumption DEF Goto, DiscClearSend
<1>16. CASE DiscLoad(t)
  BY <1>16, ThreadsAssumption DEF Goto, Branch, DiscLoad
<1>17. CASE FireCas(t)
  BY <1>17, ThreadsAssumption DEF Goto, FireCas
<1>18. CASE FireClear(t)
  BY <1>18, ThreadsAssumption DEF Goto, FireClear
<1>19. CASE FireCallback(t)
  BY <1>19, ThreadsAssumption DEF Goto, FireCallback
<1>20. CASE PrepareReal(t) \/ RecvCommit(t) \/ RecvCheck(t) \/ RecvDrop(t) \/ RecvDone(t) \/
        ReadCheck(t) \/ ReadNeedMore(t) \/ ReadInvalid(t) \/ ReadPacket(t) \/ ReadStop(t) \/
        PacketIgnored(t) \/ PacketAnswered(t) \/ SentClear(t) \/ SentConsume(t) \/
        SentCheck(t) \/ SentPending(t) \/ SendCheck(t) \/ SendAlloc(t) \/ SendOverflow(t) \/
        SendWrite(t) \/ TryPostCheck(t) \/ TryPostCas(t) \/ TryPostRead(t) \/ TryPostAdd(t) \/
        TryPostPosted(t) \/ TryPostFailed(t) \/ TryPostUndo(t) \/ TryPostClear(t) \/
        GuardRelease(t) \/ GuardCheck(t) \/ TickSkip(t) \/ TickIdle(t)
  <2>1. pc[t] \notin DiscLabels \cup FireLabels \cup ActivationLabels \cup {"wait"}
    BY <1>20 DEF PrepareReal, RecvCommit, RecvCheck, RecvDrop, RecvDone, ReadCheck,
      ReadNeedMore, ReadInvalid, ReadPacket, ReadStop, PacketIgnored,
      PacketAnswered, SentClear, SentConsume, SentCheck, SentPending, SendCheck,
      SendAlloc, SendOverflow, SendWrite, TryPostCheck, TryPostCas, TryPostRead,
      TryPostAdd, TryPostPosted, TryPostFailed, TryPostUndo, TryPostClear,
      GuardRelease, GuardCheck, TickSkip, TickIdle
  <2>2. t \notin Workers
    BY ThreadsAssumption
  <2> QED
    BY <2>1, <2>2
<1> QED
  BY <1>1, <1>2, <1>3, <1>4, <1>5, <1>6, <1>7, <1>8, <1>9, <1>10, <1>11, <1>12,
      <1>13, <1>14, <1>15, <1>16, <1>17, <1>18, <1>19, <1>20 DEF Running

(* A closer that is at a tick while the session is being activated skips it. *)
LEMMA RunOutside ==
    ASSUME TypeOK, NEW t \in Threads, pc[t] \in {"wait", "tick"}, m_LastRecv = FALSE, Running(t)
    PROVE  TickSkip(t)
BY DEF Running, At, AcceptAdd, StartCheck, StartCas, ReceivedCheck, ReceivedCas,
       PrepareZero, PrepareReal, RecvAdd, RecvPosted, RecvPostFailed, RecvUndo,
       RecvFailed, RecvCommit, RecvCheck, RecvDrop, RecvDone, ReadCheck,
       ReadNeedMore, ReadInvalid, ReadPacket, ReadStop, PacketIgnored,
       PacketAnswered, SentClear, SentConsume, SentCheck, SentPending, SendCheck,
       SendAlloc, SendOverflow, SendWrite, TryPostCheck, TryPostCas, TryPostRead,
       TryPostAdd, TryPostPosted, TryPostFailed, TryPostUndo, TryPostClear, DiscCas,
       DiscClose, DiscClearRecv, DiscClearSend, DiscLoad, FireCas, FireClear,
       FireCallback, GuardRelease, GuardCheck, TickSkip, TickIdle

(* A running thread keeps the activation private. *)
LEMMA RunAlone ==
    ASSUME TypeOK, AloneInv, NEW t \in Threads, OwnOK(t), Running(t)
    PROVE  AloneInv'
<1> SUFFICES ASSUME Activating' PROVE AloneInv'
  BY DEF AloneInv
<1>1. OnlyMoves(t)
  BY RunOwn
<1>2. CASE t = Acceptor
  <2>1. ActStep(t)
    BY <1>2, RunAcceptor
  <2> QED
    BY <1>1, <1>2, <2>1 DEF ActStep, Activating, AloneInv, OnlyMoves
<1>3. CASE t # Acceptor
  <2>1. Activating
    BY <1>1, <1>3 DEF Activating, OnlyMoves, Threads
  <2>2. TickSkip(t)
    BY <1>3, <2>1, RunOutside DEF AloneInv
  <2>3. pc'[t] = "wait" /\ UNCHANGED <<m_LastRecv, m_bOnDisconnectedFired, kRecv, kSend, cq>>
    BY <2>2 DEF TickSkip, Branch, Goto, TypeOK, TypeThreads
  <2> QED
    BY <1>1, <1>3, <2>1, <2>3 DEF AloneInv, OnlyMoves
<1> QED
  BY <1>2, <1>3

(* So does every other step: nothing is queued, and nobody sends. *)
LEMMA NextAlone ==
    ASSUME Senders = {}, TypeOK, ThreadInv, AloneInv, [Next]_vars
    PROVE  AloneInv'
<1>1. ASSUME NEW t \in Threads, Running(t) PROVE AloneInv'
  BY <1>1, RunAlone DEF ThreadInv
<1>2. ASSUME NEW t \in Threads, Dequeue(t) \/ SendStart(t) \/ TickSnapshot(t) PROVE AloneInv'
  <2> SUFFICES ASSUME Activating' PROVE AloneInv'
    BY DEF AloneInv
  <2>1. OnlyMoves(t)
    BY <1>2, StartOwn DEF ThreadInv
  <2>2. t # Acceptor
    BY <1>2, ThreadsAssumption DEF Dequeue, SendStart, TickSnapshot
  <2>3. Activating
    BY <2>1, <2>2 DEF Activating, OnlyMoves, Threads
  <2>4. TickSnapshot(t)
    BY <1>2, <2>3 DEF AloneInv, Dequeue, SendStart
  <2>5. pc'[t] = "tick" /\ UNCHANGED <<m_LastRecv, m_bOnDisconnectedFired, kRecv, kSend, cq>>
    BY <2>4 DEF TickSnapshot, Branch, Goto, TypeOK, TypeThreads
  <2> QED
    BY <2>1, <2>2, <2>3, <2>5 DEF AloneInv, OnlyMoves
<1>5. ASSUME NEW t \in Threads, WorkerAborted(t) PROVE AloneInv'
  <2>1. OnlyMoves(t) /\ t # Acceptor /\ cq # <<>>
    BY <1>5, AbortedOwn DEF ThreadInv
  <2>2. Activating' => Activating
    BY <2>1 DEF Activating, OnlyMoves, Threads
  <2> QED
    BY <2>1, <2>2 DEF AloneInv
<1>3. ASSUME Kernel PROVE AloneInv'
  <2>1. (kRecv # <<>> \/ kSend # <<>>) /\ pc' = pc
    BY <1>3, Zenon DEF Kernel, KernelRecvOk, KernelRecvEnd, KernelSendOk, KernelSendEnd
  <2> QED
    BY <2>1 DEF AloneInv, Activating
<1>4. ASSUME UNCHANGED vars PROVE AloneInv'
  BY <1>4 DEF vars, AloneInv, Activating
<1> QED
  BY <1>1, <1>2, <1>3, <1>4, <1>5 DEF Next

(* When the counter is zero nothing is pending, queued, posted or handled. *)
LEMMA ZeroDrained ==
    ASSUME TypeOK, OutstandingExact, m_OutstandingIoCount = 0
    PROVE  kRecv = <<>> /\ kSend = <<>> /\ cq = <<>> /\ Posting = {} /\ Guarded = {}
<1>1. Len(kRecv) \in Nat /\ Len(kSend) \in Nat /\ Len(cq) \in Nat
  BY DEF TypeOK, TypeKernel
<1>2. /\ Len(kRecv) = 0 /\ Len(kSend) = 0 /\ Len(cq) = 0
      /\ Cardinality(Posting) = 0 /\ Cardinality(Guarded) = 0
  BY <1>1, CountedFinite DEF OutstandingExact
<1>3. kRecv = <<>> /\ kSend = <<>> /\ cq = <<>>
  BY <1>2 DEF TypeOK, TypeKernel
<1>4. Posting = {} /\ Guarded = {}
  BY <1>2, CountedFinite, FS_EmptySet
<1> QED
  BY <1>3, <1>4

(* A running thread keeps the counter at zero once somebody may fire. *)
LEMMA RunFireInv ==
    ASSUME Senders = {}, CountInv, AloneInv, FireInv, NEW t \in Threads, Running(t)
    PROVE  FireInv'
<1>1. OwnOK(t) /\ OnlyMoves(t) /\ FireStep(t)
  BY RunOwn, RunFire DEF CountInv, ThreadInv
<1> SUFFICES ASSUME m_bOnDisconnectedFired' = TRUE \/ \E u \in Threads : Firing(u)'
             PROVE  m_OutstandingIoCount' = 0
  BY DEF FireInv
<1>2. \/ m_bOnDisconnectedFired = TRUE \/ \E u \in Threads : Firing(u)
      \/ m_OutstandingIoCount' = 0
  BY <1>1 DEF FireStep, OnlyMoves, Firing
<1> SUFFICES ASSUME m_bOnDisconnectedFired = TRUE \/ \E u \in Threads : Firing(u)
             PROVE  m_OutstandingIoCount' = m_OutstandingIoCount
  BY <1>2 DEF FireInv
<1>3. Posting = {} /\ Guarded = {}
  BY ZeroDrained DEF FireInv, CountInv
<1>4. ~(t \in Workers /\ InHandler(t)) /\ pc[t] \notin PostLabels
  BY <1>3 DEF Posting, Guarded
<1>5. ~Activating
  BY DEF AloneInv, Activating, Firing, FireLabels, ActivationLabels
<1> QED
  BY <1>1, <1>4, <1>5 DEF FireStep, Activating

(* Every step does. *)
LEMMA NextFire ==
    ASSUME Senders = {}, CountInv, AloneInv, FireInv, [Next]_vars
    PROVE  FireInv'
<1>1. ASSUME NEW t \in Threads, Running(t) PROVE FireInv'
  BY <1>1, RunFireInv
<1>2. ASSUME NEW t \in Threads, Dequeue(t) \/ SendStart(t) \/ TickSnapshot(t) PROVE FireInv'
  <2>1. OnlyMoves(t)
    BY <1>2, StartOwn DEF CountInv, ThreadInv
  <2>2. UNCHANGED <<m_OutstandingIoCount, m_bOnDisconnectedFired>>
    BY <1>2 DEF Dequeue, SendStart, TickSnapshot, Branch
  <2>3. ~Firing(t)'
    BY <1>2 DEF Dequeue, RecvEntry, SendStart, TickSnapshot, Branch, Goto, Firing, FireLabels,
         CountInv, TypeOK, TypeThreads
  <2> QED
    BY <2>1, <2>2, <2>3 DEF FireInv, OnlyMoves, Firing
<1>4. ASSUME NEW t \in Threads, WorkerAborted(t) PROVE FireInv'
  <2>1. /\ OnlyMoves(t) /\ pc'[t] = "ended"
        /\ UNCHANGED <<m_OutstandingIoCount, m_bOnDisconnectedFired>>
    BY <1>4, AbortedOwn DEF CountInv, ThreadInv
  <2>2. ~Firing(t)'
    BY <2>1 DEF Firing, FireLabels
  <2> QED
    BY <2>1, <2>2 DEF FireInv, OnlyMoves, Firing
<1>3. ASSUME Kernel \/ UNCHANGED vars PROVE FireInv'
  <2>1. UNCHANGED <<m_OutstandingIoCount, m_bOnDisconnectedFired, pc>>
    BY <1>3, Zenon DEF vars, Kernel, KernelRecvOk, KernelRecvEnd, KernelSendOk, KernelSendEnd
  <2> QED
    BY <2>1 DEF FireInv, Firing
<1> QED
  BY <1>1, <1>2, <1>3, <1>4 DEF Next

(* The inductive invariant behind DrainedAtFire. *)
DrainInv == CountInv /\ AloneInv /\ FireInv

(* In a server, where SendMessage is called only by completion handlers,    *)
(* the disconnect callback runs on a drained session, whatever the number   *)
(* of workers, idle ticks and failing postings: after it no completion can  *)
(* reach the session that its container let go.                             *)
THEOREM ServerDrained ==
    ASSUME Senders = {}
    PROVE  Spec => []DrainedAtFire
<1>1. Init => DrainInv
  <2> SUFFICES ASSUME Init PROVE AloneInv /\ FireInv
    BY InitCount DEF DrainInv
  <2>1. m_LastRecv = FALSE /\ m_bOnDisconnectedFired = FALSE /\ m_OutstandingIoCount = 0
    BY DEF Init
  <2>2. kRecv = <<>> /\ kSend = <<>> /\ cq = <<>>
    BY DEF Init
  <2>3. \A u \in Threads \ {Acceptor} : pc[u] = "wait"
    BY DEF Init
  <2> QED
    BY <2>1, <2>2, <2>3 DEF AloneInv, FireInv
<1>2. DrainInv /\ [Next]_vars => DrainInv'
  BY NextCount, NextAlone, NextFire DEF DrainInv, CountInv
<1>3. DrainInv => DrainedAtFire
  BY ZeroDrained DEF DrainInv, CountInv, FireInv, DrainedAtFire, TypeOK, TypeFlags
<1> QED
  BY <1>1, <1>2, <1>3, PTL DEF Spec
-----------------------------------------------------------------------------
(* Who owns the two OVERLAPPED structures.  A token is a pending operation, *)
(* its queued completion, a thread between the CAS that took the            *)
(* in-progress flag (or the dispatch) and the store that gives it back, or  *)
(* a worker that ended with the completion and keeps it for ever.           *)

Lost(op, t) == pc[t] = "ended" /\ comp[t].op = op

RecvPending == kRecv # <<>> \/ Queued("recv") # {}
RecvHeld    == RecvLabels \ {"acc_add", "sr_check", "sr_cas", "rr_check", "rr_cas"}
RecvOwner(t) ==
    \/ pc[t] \in RecvHeld
    \/ pc[t] \in SendLabels /\ retS[t] = "rb_check"
    \/ pc[t] \in DiscLabels \cup FireLabels /\ retD[t] \in {"rb_check", "hr_done", "rr_clr"}
    \/ Lost("recv", t)

SendPending == kSend # <<>> \/ Queued("send") # {}
SendHeld    == {"tp_read", "tp_add", "tp_wsa", "tp_undo", "tp_clr", "hs_clr"}
SendOwner(t) == pc[t] \in SendHeld \/ Lost("send", t)

RecvSingle ==
    /\ Len(kRecv) <= 1
    /\ \A i, j \in Queued("recv") : i = j
    /\ kRecv # <<>> => Queued("recv") = {}

SendSingle ==
    /\ Len(kSend) <= 1
    /\ \A i, j \in Queued("send") : i = j
    /\ kSend # <<>> => Queued("send") = {}

(* On an open socket there is at most one token and the flag is set while   *)
(* it exists; a flag that is set has a token.  On a closed socket the flags *)
(* may have been reset under their owners, but nothing can be posted.       *)
RecvToken ==
    /\ RecvSingle
    /\ sockOpen = TRUE =>
         /\ RecvPending => m_RecvInProgress = TRUE /\ \A t \in Threads : ~RecvOwner(t)
         /\ \A t \in Threads : RecvOwner(t) => m_RecvInProgress = TRUE
         /\ \A t, u \in Threads : RecvOwner(t) /\ RecvOwner(u) => t = u
    /\ m_RecvInProgress = TRUE => RecvPending \/ \E t \in Threads : RecvOwner(t)

SendToken ==
    /\ SendSingle
    /\ sockOpen = TRUE =>
         /\ SendPending => m_SendInProgress = TRUE /\ \A t \in Threads : ~SendOwner(t)
         /\ \A t \in Threads : SendOwner(t) => m_SendInProgress = TRUE
         /\ \A t, u \in Threads : SendOwner(t) /\ SendOwner(u) => t = u
    /\ m_SendInProgress = TRUE => SendPending \/ \E t \in Threads : SendOwner(t)

(* The order inside RequestDisconnect: the request, the close, the resets.  *)
DiscOK(t) ==
    /\ pc[t] \in {"rd_recv", "rd_send"} => sockOpen = FALSE
    /\ pc[t] \in {"rd_close", "rd_load", "hr_drop"} \cup FireLabels
         => m_DisconnectRequested = TRUE
DiscInv ==
    /\ sockOpen = FALSE => m_DisconnectRequested = TRUE
    /\ \A t \in Threads : DiscOK(t)
    /\ pc[Acceptor] \in {"acc_add", "sr_check", "sr_cas"} => m_ReceiveLoopStarted = FALSE

(* What one step of thread t does to a token. *)
RecvMove(t) ==
    \/ /\ UNCHANGED <<kRecv, cq, m_RecvInProgress>>
       /\ RecvOwner(t)' <=> RecvOwner(t)
    \/ /\ UNCHANGED <<kRecv, cq>> /\ ~RecvOwner(t) /\ RecvOwner(t)'
       /\ m_RecvInProgress = FALSE /\ m_RecvInProgress' = TRUE
    \/ /\ UNCHANGED <<kRecv, cq>> /\ RecvOwner(t) /\ ~RecvOwner(t)'
       /\ m_RecvInProgress' = FALSE
    \/ /\ kRecv' = Append(kRecv, isZeroByte) /\ UNCHANGED <<cq, m_RecvInProgress>>
       /\ RecvOwner(t) /\ ~RecvOwner(t)' /\ sockOpen = TRUE
    \/ /\ UNCHANGED <<kRecv, cq>> /\ sockOpen = FALSE /\ m_RecvInProgress' = FALSE
       /\ RecvOwner(t)' <=> RecvOwner(t)

SendMove(t) ==
    \/ /\ UNCHANGED <<kSend, cq, m_SendInProgress>>
       /\ SendOwner(t)' <=> SendOwner(t)
    \/ /\ UNCHANGED <<kSend, cq>> /\ ~SendOwner(t) /\ SendOwner(t)'
       /\ m_SendInProgress = FALSE /\ m_SendInProgress' = TRUE
    \/ /\ UNCHANGED <<kSend, cq>> /\ SendOwner(t) /\ ~SendOwner(t)'
       /\ m_SendInProgress' = FALSE
    \/ /\ \E x : kSend' = Append(kSend, x)
       /\ UNCHANGED <<cq, m_SendInProgress>>
       /\ SendOwner(t) /\ ~SendOwner(t)' /\ sockOpen = TRUE
    \/ /\ UNCHANGED <<kSend, cq>> /\ sockOpen = FALSE /\ m_SendInProgress' = FALSE
       /\ SendOwner(t)' <=> SendOwner(t)

(* What one step of thread t does to the disconnect and to the receive chain. *)
DiscMove(t) ==
    /\ m_DisconnectRequested = TRUE => m_DisconnectRequested' = TRUE
    /\ sockOpen = FALSE => sockOpen' = FALSE
    /\ sockOpen' = FALSE => sockOpen = FALSE \/ m_DisconnectRequested' = TRUE
    /\ m_ReceiveLoopStarted' = m_ReceiveLoopStarted \/ t = Acceptor
    /\ t = Acceptor /\ pc'[t] \in {"acc_add", "sr_check", "sr_cas"} =>
          /\ pc[t] \in {"acc_add", "sr_check", "sr_cas"}
          /\ m_ReceiveLoopStarted' = m_ReceiveLoopStarted

ChainMove(t) ==
    InRecvChain(t) =>
        \/ InRecvChain(t)'
        \/ kRecv' # <<>>
        \/ m_RecvInProgress' = TRUE
        \/ m_DisconnectRequested' = TRUE

(* How a running thread moves the receive token. *)
LEMMA RunRecv ==
    ASSUME TypeOK, DiscInv, NEW t \in Threads, OwnOK(t), Running(t)
    PROVE  RecvMove(t)
<1> USE DEF TypeOK, TypeFlags, TypeThreads, DiscInv, DiscOK, At, RecvMove, RecvOwner, Lost, RecvHeld,
            RecvLabels, SendLabels, DiscLabels, FireLabels
<1>1. CASE AcceptAdd(t)
  BY <1>1 DEF Goto, AcceptAdd
<1>2. CASE StartCheck(t)
  BY <1>2 DEF Goto, Branch, End, StartCheck
<1>3. CASE StartCas(t)
  BY <1>3 DEF Goto, End, StartCas
<1>4. CASE ReceivedCheck(t)
  BY <1>4 DEF Goto, Branch, End, ReceivedCheck
<1>5. CASE ReceivedCas(t)
  BY <1>5 DEF Goto, End, ReceivedCas
<1>6. CASE PrepareZero(t)
  BY <1>6 DEF Goto, PrepareZero
<1>7. CASE PrepareReal(t)
  BY <1>7 DEF Goto, CallDisconnect, PrepareReal
<1>8. CASE RecvAdd(t)
  BY <1>8 DEF Goto, RecvAdd
<1>9. CASE RecvPosted(t)
  BY <1>9 DEF Goto, End, RecvPosted
<1>10. CASE RecvPostFailed(t)
  BY <1>10 DEF Goto, Branch, RecvPostFailed
<1>11. CASE RecvUndo(t)
  BY <1>11 DEF Goto, RecvUndo
<1>12. CASE RecvFailed(t)
  BY <1>12 DEF Goto, CallDisconnect, End, RecvFailed
<1>13. CASE RecvCommit(t)
  BY <1>13 DEF Goto, RecvCommit
<1>14. CASE RecvCheck(t)
  BY <1>14 DEF Goto, Branch, RecvCheck
<1>15. CASE RecvDrop(t)
  BY <1>15 DEF Goto, RecvDrop
<1>16. CASE RecvDone(t)
  BY <1>16 DEF Goto, RecvDone
<1>17. CASE ReadCheck(t)
  BY <1>17 DEF Goto, Branch, ReadCheck
<1>18. CASE ReadNeedMore(t)
  BY <1>18 DEF Goto, Branch, ReadNeedMore
<1>19. CASE ReadInvalid(t)
  BY <1>19 DEF Goto, CallDisconnect, ReadInvalid
<1>20. CASE ReadPacket(t)
  BY <1>20 DEF Goto, ReadPacket
<1>21. CASE ReadStop(t)
  BY <1>21 DEF Goto, Branch, ReadStop
<1>22. CASE PacketIgnored(t)
  BY <1>22 DEF Goto, Branch, PacketIgnored
<1>23. CASE PacketAnswered(t)
  BY <1>23 DEF Goto, PacketAnswered
<1>24. CASE SentClear(t)
  BY <1>24 DEF Goto, CallDisconnect, SentClear
<1>25. CASE SentConsume(t)
  BY <1>25 DEF Goto, SentConsume
<1>26. CASE SentCheck(t)
  BY <1>26 DEF Goto, Branch, SentCheck
<1>27. CASE SentPending(t)
  BY <1>27 DEF Goto, SentPending
<1>28. CASE SendCheck(t)
  BY <1>28 DEF Goto, Branch, SendCheck
<1>29. CASE SendAlloc(t)
  BY <1>29 DEF Goto, SendAlloc
<1>30. CASE SendOverflow(t)
  BY <1>30 DEF Goto, CallDisconnect, SendOverflow
<1>31. CASE SendWrite(t)
  BY <1>31 DEF Goto, SendWrite
<1>32. CASE TryPostCheck(t)
  BY <1>32 DEF Goto, Branch, TryPostCheck
<1>33. CASE TryPostCas(t)
  BY <1>33 DEF Goto, TryPostCas
<1>34. CASE TryPostRead(t)
  BY <1>34 DEF Goto, TryPostRead
<1>35. CASE TryPostAdd(t)
  BY <1>35 DEF Goto, TryPostAdd
<1>36. CASE TryPostPosted(t)
  BY <1>36 DEF Goto, TryPostPosted
<1>37. CASE TryPostFailed(t)
  BY <1>37 DEF Goto, Branch, TryPostFailed
<1>38. CASE TryPostUndo(t)
  BY <1>38 DEF Goto, TryPostUndo
<1>39. CASE TryPostClear(t)
  BY <1>39 DEF Goto, TryPostClear
<1>40. CASE DiscCas(t)
  BY <1>40 DEF Goto, DiscCas
<1>41. CASE DiscClose(t)
  BY <1>41 DEF Goto, DiscClose
<1>42. CASE DiscClearRecv(t)
  BY <1>42 DEF Goto, DiscClearRecv
<1>43. CASE DiscClearSend(t)
  BY <1>43 DEF Goto, DiscClearSend
<1>44. CASE DiscLoad(t)
  BY <1>44 DEF Goto, Branch, DiscLoad
<1>45. CASE FireCas(t)
  BY <1>45 DEF Goto, FireCas
<1>46. CASE FireClear(t)
  BY <1>46 DEF Goto, FireClear
<1>47. CASE FireCallback(t)
  BY <1>47 DEF Goto, FireCallback
<1>48. CASE GuardRelease(t)
  BY <1>48 DEF Goto, GuardRelease
<1>49. CASE GuardCheck(t)
  BY <1>49 DEF Goto, GuardCheck
<1>50. CASE TickSkip(t)
  BY <1>50 DEF Goto, Branch, TickSkip
<1>51. CASE TickIdle(t)
  BY <1>51 DEF Goto, CallDisconnect, TickIdle
<1> QED
  BY <1>1, <1>2, <1>3, <1>4, <1>5, <1>6, <1>7, <1>8, <1>9, <1>10, <1>11, <1>12, <1>13,
      <1>14, <1>15, <1>16, <1>17, <1>18, <1>19, <1>20, <1>21, <1>22, <1>23, <1>24,
      <1>25, <1>26, <1>27, <1>28, <1>29, <1>30, <1>31, <1>32, <1>33, <1>34, <1>35,
      <1>36, <1>37, <1>38, <1>39, <1>40, <1>41, <1>42, <1>43, <1>44, <1>45, <1>46,
      <1>47, <1>48, <1>49, <1>50, <1>51 DEF Running

(* How a running thread moves the send token. *)
LEMMA RunSend ==
    ASSUME TypeOK, DiscInv, NEW t \in Threads, OwnOK(t), Running(t)
    PROVE  SendMove(t)
<1> USE DEF TypeOK, TypeFlags, TypeThreads, DiscInv, DiscOK, At, SendMove, SendOwner, Lost, SendHeld
<1>1. CASE AcceptAdd(t)
  BY <1>1 DEF Goto, AcceptAdd
<1>2. CASE StartCheck(t)
  BY <1>2 DEF Goto, Branch, End, StartCheck
<1>3. CASE StartCas(t)
  BY <1>3 DEF Goto, End, StartCas
<1>4. CASE ReceivedCheck(t)
  BY <1>4 DEF Goto, Branch, End, ReceivedCheck
<1>5. CASE ReceivedCas(t)
  BY <1>5 DEF Goto, End, ReceivedCas
<1>6. CASE PrepareZero(t)
  BY <1>6 DEF Goto, PrepareZero
<1>7. CASE PrepareReal(t)
  BY <1>7 DEF Goto, CallDisconnect, PrepareReal
<1>8. CASE RecvAdd(t)
  BY <1>8 DEF Goto, RecvAdd
<1>9. CASE RecvPosted(t)
  BY <1>9 DEF Goto, End, RecvPosted
<1>10. CASE RecvPostFailed(t)
  BY <1>10 DEF Goto, Branch, RecvPostFailed
<1>11. CASE RecvUndo(t)
  BY <1>11 DEF Goto, RecvUndo
<1>12. CASE RecvFailed(t)
  BY <1>12 DEF Goto, CallDisconnect, End, RecvFailed
<1>13. CASE RecvCommit(t)
  BY <1>13 DEF Goto, RecvCommit
<1>14. CASE RecvCheck(t)
  BY <1>14 DEF Goto, Branch, RecvCheck
<1>15. CASE RecvDrop(t)
  BY <1>15 DEF Goto, RecvDrop
<1>16. CASE RecvDone(t)
  BY <1>16 DEF Goto, RecvDone
<1>17. CASE ReadCheck(t)
  BY <1>17 DEF Goto, Branch, ReadCheck
<1>18. CASE ReadNeedMore(t)
  BY <1>18 DEF Goto, Branch, ReadNeedMore
<1>19. CASE ReadInvalid(t)
  BY <1>19 DEF Goto, CallDisconnect, ReadInvalid
<1>20. CASE ReadPacket(t)
  BY <1>20 DEF Goto, ReadPacket
<1>21. CASE ReadStop(t)
  BY <1>21 DEF Goto, Branch, ReadStop
<1>22. CASE PacketIgnored(t)
  BY <1>22 DEF Goto, Branch, PacketIgnored
<1>23. CASE PacketAnswered(t)
  BY <1>23 DEF Goto, PacketAnswered
<1>24. CASE SentClear(t)
  BY <1>24 DEF Goto, CallDisconnect, SentClear
<1>25. CASE SentConsume(t)
  BY <1>25 DEF Goto, SentConsume
<1>26. CASE SentCheck(t)
  BY <1>26 DEF Goto, Branch, SentCheck
<1>27. CASE SentPending(t)
  BY <1>27 DEF Goto, SentPending
<1>28. CASE SendCheck(t)
  BY <1>28 DEF Goto, Branch, SendCheck
<1>29. CASE SendAlloc(t)
  BY <1>29 DEF Goto, SendAlloc
<1>30. CASE SendOverflow(t)
  BY <1>30 DEF Goto, CallDisconnect, SendOverflow
<1>31. CASE SendWrite(t)
  BY <1>31 DEF Goto, SendWrite
<1>32. CASE TryPostCheck(t)
  BY <1>32 DEF Goto, Branch, TryPostCheck
<1>33. CASE TryPostCas(t)
  BY <1>33 DEF Goto, TryPostCas
<1>34. CASE TryPostRead(t)
  BY <1>34 DEF Goto, TryPostRead
<1>35. CASE TryPostAdd(t)
  BY <1>35 DEF Goto, TryPostAdd
<1>36. CASE TryPostPosted(t)
  BY <1>36 DEF Goto, TryPostPosted
<1>37. CASE TryPostFailed(t)
  BY <1>37 DEF Goto, Branch, TryPostFailed
<1>38. CASE TryPostUndo(t)
  BY <1>38 DEF Goto, TryPostUndo
<1>39. CASE TryPostClear(t)
  BY <1>39 DEF Goto, TryPostClear
<1>40. CASE DiscCas(t)
  BY <1>40 DEF Goto, DiscCas
<1>41. CASE DiscClose(t)
  BY <1>41 DEF Goto, DiscClose
<1>42. CASE DiscClearRecv(t)
  BY <1>42 DEF Goto, DiscClearRecv
<1>43. CASE DiscClearSend(t)
  BY <1>43 DEF Goto, DiscClearSend
<1>44. CASE DiscLoad(t)
  BY <1>44 DEF Goto, Branch, DiscLoad
<1>45. CASE FireCas(t)
  BY <1>45 DEF Goto, FireCas
<1>46. CASE FireClear(t)
  BY <1>46 DEF Goto, FireClear
<1>47. CASE FireCallback(t)
  BY <1>47 DEF Goto, FireCallback
<1>48. CASE GuardRelease(t)
  BY <1>48 DEF Goto, GuardRelease
<1>49. CASE GuardCheck(t)
  BY <1>49 DEF Goto, GuardCheck
<1>50. CASE TickSkip(t)
  BY <1>50 DEF Goto, Branch, TickSkip
<1>51. CASE TickIdle(t)
  BY <1>51 DEF Goto, CallDisconnect, TickIdle
<1> QED
  BY <1>1, <1>2, <1>3, <1>4, <1>5, <1>6, <1>7, <1>8, <1>9, <1>10, <1>11, <1>12, <1>13,
      <1>14, <1>15, <1>16, <1>17, <1>18, <1>19, <1>20, <1>21, <1>22, <1>23, <1>24,
      <1>25, <1>26, <1>27, <1>28, <1>29, <1>30, <1>31, <1>32, <1>33, <1>34, <1>35,
      <1>36, <1>37, <1>38, <1>39, <1>40, <1>41, <1>42, <1>43, <1>44, <1>45, <1>46,
      <1>47, <1>48, <1>49, <1>50, <1>51 DEF Running

(* How a running thread moves the disconnect. *)
LEMMA RunDisc ==
    ASSUME TypeOK, DiscInv, NEW t \in Threads, OwnOK(t), Running(t)
    PROVE  DiscMove(t)
<1> USE DEF TypeOK, TypeFlags, TypeThreads, DiscInv, DiscOK, OwnOK, WorkerOK, OtherOK, At, DiscMove,
            SendLabels, DiscLabels, FireLabels
<1>1. CASE AcceptAdd(t)
  BY <1>1 DEF Goto, AcceptAdd
<1>2. CASE StartCheck(t)
  BY <1>2 DEF Goto, Branch, End, StartCheck
<1>3. CASE StartCas(t)
  BY <1>3 DEF Goto, End, StartCas
<1>4. CASE ReceivedCheck(t)
  BY <1>4 DEF Goto, Branch, End, ReceivedCheck
<1>5. CASE ReceivedCas(t)
  BY <1>5 DEF Goto, End, ReceivedCas
<1>6. CASE PrepareZero(t)
  BY <1>6 DEF Goto, PrepareZero
<1>7. CASE PrepareReal(t)
  BY <1>7 DEF Goto, CallDisconnect, PrepareReal
<1>8. CASE RecvAdd(t)
  BY <1>8 DEF Goto, RecvAdd
<1>9. CASE RecvPosted(t)
  BY <1>9 DEF Goto, End, RecvPosted
<1>10. CASE RecvPostFailed(t)
  BY <1>10 DEF Goto, Branch, RecvPostFailed
<1>11. CASE RecvUndo(t)
  BY <1>11 DEF Goto, RecvUndo
<1>12. CASE RecvFailed(t)
  BY <1>12 DEF Goto, CallDisconnect, End, RecvFailed
<1>13. CASE RecvCommit(t)
  BY <1>13 DEF Goto, RecvCommit
<1>14. CASE RecvCheck(t)
  BY <1>14 DEF Goto, Branch, RecvCheck
<1>15. CASE RecvDrop(t)
  BY <1>15 DEF Goto, RecvDrop
<1>16. CASE RecvDone(t)
  BY <1>16 DEF Goto, RecvDone
<1>17. CASE ReadCheck(t)
  BY <1>17 DEF Goto, Branch, ReadCheck
<1>18. CASE ReadNeedMore(t)
  BY <1>18 DEF Goto, Branch, ReadNeedMore
<1>19. CASE ReadInvalid(t)
  BY <1>19 DEF Goto, CallDisconnect, ReadInvalid
<1>20. CASE ReadPacket(t)
  BY <1>20 DEF Goto, ReadPacket
<1>21. CASE ReadStop(t)
  BY <1>21 DEF Goto, Branch, ReadStop
<1>22. CASE PacketIgnored(t)
  BY <1>22 DEF Goto, Branch, PacketIgnored
<1>23. CASE PacketAnswered(t)
  BY <1>23 DEF Goto, PacketAnswered
<1>24. CASE SentClear(t)
  BY <1>24 DEF Goto, CallDisconnect, SentClear
<1>25. CASE SentConsume(t)
  BY <1>25 DEF Goto, SentConsume
<1>26. CASE SentCheck(t)
  BY <1>26 DEF Goto, Branch, SentCheck
<1>27. CASE SentPending(t)
  BY <1>27 DEF Goto, SentPending
<1>28. CASE SendCheck(t)
  BY <1>28 DEF Goto, Branch, SendCheck
<1>29. CASE SendAlloc(t)
  BY <1>29 DEF Goto, SendAlloc
<1>30. CASE SendOverflow(t)
  BY <1>30 DEF Goto, CallDisconnect, SendOverflow
<1>31. CASE SendWrite(t)
  BY <1>31 DEF Goto, SendWrite
<1>32. CASE TryPostCheck(t)
  BY <1>32 DEF Goto, Branch, TryPostCheck
<1>33. CASE TryPostCas(t)
  BY <1>33 DEF Goto, TryPostCas
<1>34. CASE TryPostRead(t)
  BY <1>34 DEF Goto, TryPostRead
<1>35. CASE TryPostAdd(t)
  BY <1>35 DEF Goto, TryPostAdd
<1>36. CASE TryPostPosted(t)
  BY <1>36 DEF Goto, TryPostPosted
<1>37. CASE TryPostFailed(t)
  BY <1>37 DEF Goto, Branch, TryPostFailed
<1>38. CASE TryPostUndo(t)
  BY <1>38 DEF Goto, TryPostUndo
<1>39. CASE TryPostClear(t)
  BY <1>39 DEF Goto, TryPostClear
<1>40. CASE DiscCas(t)
  BY <1>40 DEF Goto, DiscCas
<1>41. CASE DiscClose(t)
  BY <1>41 DEF Goto, DiscClose
<1>42. CASE DiscClearRecv(t)
  BY <1>42 DEF Goto, DiscClearRecv
<1>43. CASE DiscClearSend(t)
  BY <1>43 DEF Goto, DiscClearSend
<1>44. CASE DiscLoad(t)
  BY <1>44 DEF Goto, Branch, DiscLoad
<1>45. CASE FireCas(t)
  BY <1>45 DEF Goto, FireCas
<1>46. CASE FireClear(t)
  BY <1>46 DEF Goto, FireClear
<1>47. CASE FireCallback(t)
  BY <1>47 DEF Goto, FireCallback
<1>48. CASE GuardRelease(t)
  BY <1>48 DEF Goto, GuardRelease
<1>49. CASE GuardCheck(t)
  BY <1>49 DEF Goto, GuardCheck
<1>50. CASE TickSkip(t)
  BY <1>50 DEF Goto, Branch, TickSkip
<1>51. CASE TickIdle(t)
  BY <1>51 DEF Goto, CallDisconnect, TickIdle
<1> QED
  BY <1>1, <1>2, <1>3, <1>4, <1>5, <1>6, <1>7, <1>8, <1>9, <1>10, <1>11, <1>12, <1>13,
      <1>14, <1>15, <1>16, <1>17, <1>18, <1>19, <1>20, <1>21, <1>22, <1>23, <1>24,
      <1>25, <1>26, <1>27, <1>28, <1>29, <1>30, <1>31, <1>32, <1>33, <1>34, <1>35,
      <1>36, <1>37, <1>38, <1>39, <1>40, <1>41, <1>42, <1>43, <1>44, <1>45, <1>46,
      <1>47, <1>48, <1>49, <1>50, <1>51 DEF Running

(* A running thread keeps the order of the disconnect. *)
LEMMA RunDiscOK ==
    ASSUME TypeOK, DiscInv, NEW t \in Threads, OwnOK(t), Running(t)
    PROVE  DiscOK(t)'
<1> USE DEF TypeOK, TypeFlags, TypeThreads, DiscInv, DiscOK, At, FireLabels
<1>1. CASE AcceptAdd(t)
  BY <1>1 DEF Goto, AcceptAdd
<1>2. CASE StartCheck(t)
  BY <1>2 DEF Goto, Branch, End, StartCheck
<1>3. CASE StartCas(t)
  BY <1>3 DEF Goto, End, StartCas
<1>4. CASE ReceivedCheck(t)
  BY <1>4 DEF Goto, Branch, End, ReceivedCheck
<1>5. CASE ReceivedCas(t)
  BY <1>5 DEF Goto, End, ReceivedCas
<1>6. CASE PrepareZero(t)
  BY <1>6 DEF Goto, PrepareZero
<1>7. CASE PrepareReal(t)
  BY <1>7 DEF Goto, CallDisconnect, PrepareReal
<1>8. CASE RecvAdd(t)
  BY <1>8 DEF Goto, RecvAdd
<1>9. CASE RecvPosted(t)
  BY <1>9 DEF Goto, End, RecvPosted
<1>10. CASE RecvPostFailed(t)
  BY <1>10 DEF Goto, Branch, RecvPostFailed
<1>11. CASE RecvUndo(t)
  BY <1>11 DEF Goto, RecvUndo
<1>12. CASE RecvFailed(t)
  BY <1>12 DEF Goto, CallDisconnect, End, RecvFailed
<1>13. CASE RecvCommit(t)
  BY <1>13 DEF Goto, RecvCommit
<1>14. CASE RecvCheck(t)
  BY <1>14 DEF Goto, Branch, RecvCheck
<1>15. CASE RecvDrop(t)
  BY <1>15 DEF Goto, RecvDrop
<1>16. CASE RecvDone(t)
  BY <1>16 DEF Goto, RecvDone
<1>17. CASE ReadCheck(t)
  BY <1>17 DEF Goto, Branch, ReadCheck
<1>18. CASE ReadNeedMore(t)
  BY <1>18 DEF Goto, Branch, ReadNeedMore
<1>19. CASE ReadInvalid(t)
  BY <1>19 DEF Goto, CallDisconnect, ReadInvalid
<1>20. CASE ReadPacket(t)
  BY <1>20 DEF Goto, ReadPacket
<1>21. CASE ReadStop(t)
  BY <1>21 DEF Goto, Branch, ReadStop
<1>22. CASE PacketIgnored(t)
  BY <1>22 DEF Goto, Branch, PacketIgnored
<1>23. CASE PacketAnswered(t)
  BY <1>23 DEF Goto, PacketAnswered
<1>24. CASE SentClear(t)
  BY <1>24 DEF Goto, CallDisconnect, SentClear
<1>25. CASE SentConsume(t)
  BY <1>25 DEF Goto, SentConsume
<1>26. CASE SentCheck(t)
  BY <1>26 DEF Goto, Branch, SentCheck
<1>27. CASE SentPending(t)
  BY <1>27 DEF Goto, SentPending
<1>28. CASE SendCheck(t)
  BY <1>28 DEF Goto, Branch, SendCheck
<1>29. CASE SendAlloc(t)
  BY <1>29 DEF Goto, SendAlloc
<1>30. CASE SendOverflow(t)
  BY <1>30 DEF Goto, CallDisconnect, SendOverflow
<1>31. CASE SendWrite(t)
  BY <1>31 DEF Goto, SendWrite
<1>32. CASE TryPostCheck(t)
  BY <1>32 DEF Goto, Branch, TryPostCheck
<1>33. CASE TryPostCas(t)
  BY <1>33 DEF Goto, TryPostCas
<1>34. CASE TryPostRead(t)
  BY <1>34 DEF Goto, TryPostRead
<1>35. CASE TryPostAdd(t)
  BY <1>35 DEF Goto, TryPostAdd
<1>36. CASE TryPostPosted(t)
  BY <1>36 DEF Goto, TryPostPosted
<1>37. CASE TryPostFailed(t)
  BY <1>37 DEF Goto, Branch, TryPostFailed
<1>38. CASE TryPostUndo(t)
  BY <1>38 DEF Goto, TryPostUndo
<1>39. CASE TryPostClear(t)
  BY <1>39 DEF Goto, TryPostClear
<1>40. CASE DiscCas(t)
  BY <1>40 DEF Goto, DiscCas
<1>41. CASE DiscClose(t)
  BY <1>41 DEF Goto, DiscClose
<1>42. CASE DiscClearRecv(t)
  BY <1>42 DEF Goto, DiscClearRecv
<1>43. CASE DiscClearSend(t)
  BY <1>43 DEF Goto, DiscClearSend
<1>44. CASE DiscLoad(t)
  BY <1>44 DEF Goto, Branch, DiscLoad
<1>45. CASE FireCas(t)
  BY <1>45 DEF Goto, FireCas
<1>46. CASE FireClear(t)
  BY <1>46 DEF Goto, FireClear
<1>47. CASE FireCallback(t)
  BY <1>47 DEF Goto, FireCallback
<1>48. CASE GuardRelease(t)
  BY <1>48 DEF Goto, GuardRelease
<1>49. CASE GuardCheck(t)
  BY <1>49 DEF Goto, GuardCheck
<1>50. CASE TickSkip(t)
  BY <1>50 DEF Goto, Branch, TickSkip
<1>51. CASE TickIdle(t)
  BY <1>51 DEF Goto, CallDisconnect, TickIdle
<1> QED
  BY <1>1, <1>2, <1>3, <1>4, <1>5, <1>6, <1>7, <1>8, <1>9, <1>10, <1>11, <1>12, <1>13,
      <1>14, <1>15, <1>16, <1>17, <1>18, <1>19, <1>20, <1>21, <1>22, <1>23, <1>24,
      <1>25, <1>26, <1>27, <1>28, <1>29, <1>30, <1>31, <1>32, <1>33, <1>34, <1>35,
      <1>36, <1>37, <1>38, <1>39, <1>40, <1>41, <1>42, <1>43, <1>44, <1>45, <1>46,
      <1>47, <1>48, <1>49, <1>50, <1>51 DEF Running

(* A thread leaves the receive chain only when another token or a disconnect is there. *)
LEMMA RunChain ==
    ASSUME TypeOK, DiscInv, NEW t \in Threads, OwnOK(t), Running(t)
    PROVE  ChainMove(t)
<1> USE DEF TypeOK, TypeFlags, TypeThreads, TypeKernel, DiscInv, DiscOK, OwnOK, WorkerOK, OtherOK,
            At, ChainMove, InRecvChain, RecvLabels, SendLabels, FireLabels
<1>1. CASE AcceptAdd(t)
  BY <1>1 DEF Goto, AcceptAdd
<1>2. CASE StartCheck(t)
  BY <1>2 DEF Goto, Branch, End, StartCheck
<1>3. CASE StartCas(t)
  BY <1>3 DEF Goto, End, StartCas, ActivationLabels, DiscLabels
<1>4. CASE ReceivedCheck(t)
  BY <1>4 DEF Goto, Branch, End, ReceivedCheck
<1>5. CASE ReceivedCas(t)
  BY <1>5 DEF Goto, End, ReceivedCas
<1>6. CASE PrepareZero(t)
  BY <1>6 DEF Goto, PrepareZero
<1>7. CASE PrepareReal(t)
  BY <1>7 DEF Goto, CallDisconnect, PrepareReal
<1>8. CASE RecvAdd(t)
  BY <1>8 DEF Goto, RecvAdd
<1>9. CASE RecvPosted(t)
  <2>1. kRecv' = Append(kRecv, isZeroByte)
    BY <1>9 DEF RecvPosted
  <2>2. kRecv' # <<>>
    BY <2>1
  <2> QED
    BY <2>2
<1>10. CASE RecvPostFailed(t)
  BY <1>10 DEF Goto, Branch, RecvPostFailed
<1>11. CASE RecvUndo(t)
  BY <1>11 DEF Goto, RecvUndo
<1>12. CASE RecvFailed(t)
  BY <1>12 DEF Goto, CallDisconnect, End, RecvFailed
<1>13. CASE RecvCommit(t)
  BY <1>13 DEF Goto, RecvCommit
<1>14. CASE RecvCheck(t)
  BY <1>14 DEF Goto, Branch, RecvCheck
<1>15. CASE RecvDrop(t)
  BY <1>15 DEF Goto, RecvDrop
<1>16. CASE RecvDone(t)
  BY <1>16 DEF Goto, RecvDone
<1>17. CASE ReadCheck(t)
  BY <1>17 DEF Goto, Branch, ReadCheck
<1>18. CASE ReadNeedMore(t)
  BY <1>18 DEF Goto, Branch, ReadNeedMore
<1>19. CASE ReadInvalid(t)
  BY <1>19 DEF Goto, CallDisconnect, ReadInvalid
<1>20. CASE ReadPacket(t)
  BY <1>20 DEF Goto, ReadPacket
<1>21. CASE ReadStop(t)
  BY <1>21 DEF Goto, Branch, ReadStop
<1>22. CASE PacketIgnored(t)
  BY <1>22 DEF Goto, Branch, PacketIgnored
<1>23. CASE PacketAnswered(t)
  BY <1>23 DEF Goto, PacketAnswered
<1>24. CASE SentClear(t)
  BY <1>24 DEF Goto, CallDisconnect, SentClear
<1>25. CASE SentConsume(t)
  BY <1>25 DEF Goto, SentConsume
<1>26. CASE SentCheck(t)
  BY <1>26 DEF Goto, Branch, SentCheck
<1>27. CASE SentPending(t)
  BY <1>27 DEF Goto, SentPending
<1>28. CASE SendCheck(t)
  BY <1>28 DEF Goto, Branch, SendCheck
<1>29. CASE SendAlloc(t)
  BY <1>29 DEF Goto, SendAlloc
<1>30. CASE SendOverflow(t)
  BY <1>30 DEF Goto, CallDisconnect, SendOverflow
<1>31. CASE SendWrite(t)
  BY <1>31 DEF Goto, SendWrite
<1>32. CASE TryPostCheck(t)
  BY <1>32 DEF Goto, Branch, TryPostCheck
<1>33. CASE TryPostCas(t)
  BY <1>33 DEF Goto, TryPostCas
<1>34. CASE TryPostRead(t)
  BY <1>34 DEF Goto, TryPostRead
<1>35. CASE TryPostAdd(t)
  BY <1>35 DEF Goto, TryPostAdd
<1>36. CASE TryPostPosted(t)
  BY <1>36 DEF Goto, TryPostPosted
<1>37. CASE TryPostFailed(t)
  BY <1>37 DEF Goto, Branch, TryPostFailed
<1>38. CASE TryPostUndo(t)
  BY <1>38 DEF Goto, TryPostUndo
<1>39. CASE TryPostClear(t)
  BY <1>39 DEF Goto, TryPostClear
<1>40. CASE DiscCas(t)
  BY <1>40 DEF Goto, DiscCas
<1>41. CASE DiscClose(t)
  BY <1>41 DEF Goto, DiscClose
<1>42. CASE DiscClearRecv(t)
  BY <1>42 DEF Goto, DiscClearRecv
<1>43. CASE DiscClearSend(t)
  BY <1>43 DEF Goto, DiscClearSend
<1>44. CASE DiscLoad(t)
  BY <1>44 DEF Goto, Branch, DiscLoad
<1>45. CASE FireCas(t)
  BY <1>45 DEF Goto, FireCas
<1>46. CASE FireClear(t)
  BY <1>46 DEF Goto, FireClear
<1>47. CASE FireCallback(t)
  BY <1>47 DEF Goto, FireCallback
<1>48. CASE GuardRelease(t)
  BY <1>48 DEF Goto, GuardRelease
<1>49. CASE GuardCheck(t)
  BY <1>49 DEF Goto, GuardCheck
<1>50. CASE TickSkip(t)
  BY <1>50 DEF Goto, Branch, TickSkip
<1>51. CASE TickIdle(t)
  BY <1>51 DEF Goto, CallDisconnect, TickIdle
<1> QED
  BY <1>1, <1>2, <1>3, <1>4, <1>5, <1>6, <1>7, <1>8, <1>9, <1>10, <1>11, <1>12, <1>13,
      <1>14, <1>15, <1>16, <1>17, <1>18, <1>19, <1>20, <1>21, <1>22, <1>23, <1>24,
      <1>25, <1>26, <1>27, <1>28, <1>29, <1>30, <1>31, <1>32, <1>33, <1>34, <1>35,
      <1>36, <1>37, <1>38, <1>39, <1>40, <1>41, <1>42, <1>43, <1>44, <1>45, <1>46,
      <1>47, <1>48, <1>49, <1>50, <1>51 DEF Running

(* A sequence of at most one element has an empty tail. *)
LEMMA TailOne ==
    ASSUME NEW S, NEW s \in Seq(S), s # <<>>, Len(s) <= 1
    PROVE  Tail(s) = <<>>
<1>1. Tail(s) \in Seq(S) /\ Len(Tail(s)) = Len(s) - 1 /\ Len(s) \in Nat
  BY HeadTailProperties
<1>2. Len(Tail(s)) \in Nat
  BY <1>1
<1>3. Len(Tail(s)) = 0
  BY <1>1, <1>2
<1> QED
  BY <1>1, <1>3, EmptySeq

(* Appending a completion adds one index to the completions of its kind. *)
LEMMA QueuedAppend ==
    ASSUME TypeOK, NEW c, cq' = Append(cq, c)
    PROVE  /\ Queued("recv")' = Queued("recv") \cup (IF c.op = "recv" THEN {Len(cq) + 1} ELSE {})
           /\ Queued("send")' = Queued("send") \cup (IF c.op = "send" THEN {Len(cq) + 1} ELSE {})
<1>1. cq \in Seq(Completions)
  BY DEF TypeOK, TypeKernel
<1>2. /\ DOMAIN cq = 1..Len(cq) /\ DOMAIN cq' = 1..(Len(cq) + 1)
      /\ Len(cq) \in Nat
      /\ \A i \in 1..Len(cq) : cq'[i] = cq[i]
      /\ cq'[Len(cq) + 1] = c
  BY <1>1
<1> QED
  BY <1>2 DEF Queued

(* Dispatching the first completion moves the others up. *)
LEMMA QueuedTail ==
    ASSUME TypeOK, cq # <<>>, cq' = Tail(cq)
    PROVE  /\ \A i \in Queued("recv")' : i + 1 \in Queued("recv") /\ i \in Nat \ {0}
           /\ \A i \in Queued("send")' : i + 1 \in Queued("send") /\ i \in Nat \ {0}
           /\ \A i \in Queued("recv") \ {1} : i - 1 \in Queued("recv")'
           /\ \A i \in Queued("send") \ {1} : i - 1 \in Queued("send")'
           /\ 1 \in Queued("recv") <=> Head(cq).op = "recv"
           /\ 1 \in Queued("send") <=> Head(cq).op = "send"
<1>1. cq \in Seq(Completions)
  BY DEF TypeOK, TypeKernel
<1>2. /\ DOMAIN cq = 1..Len(cq) /\ DOMAIN cq' = 1..(Len(cq) - 1)
      /\ Len(cq) \in Nat \ {0}
      /\ \A i \in 1..(Len(cq) - 1) : cq'[i] = cq[i + 1]
      /\ Head(cq) = cq[1]
  BY <1>1
<1> QED
  BY <1>2 DEF Queued

(* A queued completion is a receive or a send, never both. *)
LEMMA QueuedKinds ==
    ASSUME TypeOK
    PROVE  /\ Queued("recv") \cap Queued("send") = {}
           /\ Queued("recv") \subseteq Nat \ {0} /\ Queued("send") \subseteq Nat \ {0}
           /\ cq # <<>> => Head(cq).op \in {"recv", "send"}
<1>1. cq \in Seq(Completions)
  BY DEF TypeOK, TypeKernel
<1>2. DOMAIN cq = 1..Len(cq) /\ Len(cq) \in Nat
  BY <1>1
<1>3. cq # <<>> => Head(cq) \in Completions
  BY <1>1
<1> QED
  BY <1>2, <1>3 DEF Queued, Completions

(* What the kernel queues names the kind of the operation it completes. *)
LEMMA KernelPosts ==
    /\ KernelRecvOk \/ KernelRecvEnd => \E c : cq' = Append(cq, c) /\ c.op = "recv"
    /\ KernelSendOk \/ KernelSendEnd => \E c : cq' = Append(cq, c) /\ c.op = "send"
<1>1. ASSUME KernelRecvOk PROVE \E c : cq' = Append(cq, c) /\ c.op = "recv"
  <2>1. PICK x : cq' = Append(cq, [op |-> "recv", ok |-> TRUE, n |-> x])
    BY <1>1, Zenon DEF KernelRecvOk, Complete
  <2> QED
    BY <2>1
<1>2. ASSUME KernelRecvEnd PROVE \E c : cq' = Append(cq, c) /\ c.op = "recv"
  <2>1. PICK ok \in BOOLEAN : cq' = Append(cq, [op |-> "recv", ok |-> ok, n |-> 0])
    BY <1>2, Zenon DEF KernelRecvEnd, Complete
  <2> QED
    BY <2>1
<1>3. ASSUME KernelSendOk PROVE \E c : cq' = Append(cq, c) /\ c.op = "send"
  <2>1. cq' = Append(cq, [op |-> "send", ok |-> TRUE, n |-> Len(Head(kSend))])
    BY <1>3, Zenon DEF KernelSendOk, Complete
  <2> QED
    BY <2>1
<1>4. ASSUME KernelSendEnd PROVE \E c : cq' = Append(cq, c) /\ c.op = "send"
  <2>1. cq' = Append(cq, [op |-> "send", ok |-> FALSE, n |-> 0])
    BY <1>4, Zenon DEF KernelSendEnd, Complete
  <2> QED
    BY <2>1
<1> QED
  BY <1>1, <1>2, <1>3, <1>4

(* A step of a running thread keeps the receive token single. *)
LEMMA RunRecvToken ==
    ASSUME TypeOK, RecvToken, NEW t \in Threads, OnlyMoves(t), RecvMove(t), DiscMove(t), TypeOK'
    PROVE  RecvToken'
<1>1. \A u \in Threads \ {t} : RecvOwner(u)' <=> RecvOwner(u)
  BY DEF OnlyMoves, RecvOwner, Lost
<1>2. kRecv \in Seq(BOOLEAN) /\ sockOpen \in BOOLEAN /\ sockOpen' \in BOOLEAN
  BY DEF TypeOK, TypeKernel, TypeFlags
<1>3. sockOpen' = TRUE => sockOpen = TRUE
  BY <1>2 DEF DiscMove
<1>4. CASE UNCHANGED <<kRecv, cq>>
  <2>1. (RecvSingle' <=> RecvSingle) /\ (RecvPending' <=> RecvPending)
    BY <1>4 DEF RecvSingle, RecvPending, Queued
  <2>2. CASE m_RecvInProgress' = m_RecvInProgress /\ (RecvOwner(t)' <=> RecvOwner(t))
    BY <1>1, <1>3, <2>1, <2>2 DEF RecvToken
  <2>3. CASE ~RecvOwner(t) /\ RecvOwner(t)' /\ m_RecvInProgress = FALSE /\ m_RecvInProgress' = TRUE
    BY <1>1, <1>3, <2>1, <2>3 DEF RecvToken
  <2>4. CASE RecvOwner(t) /\ ~RecvOwner(t)' /\ m_RecvInProgress' = FALSE
    BY <1>1, <1>3, <2>1, <2>4 DEF RecvToken
  <2>5. CASE sockOpen = FALSE /\ m_RecvInProgress' = FALSE /\ (RecvOwner(t)' <=> RecvOwner(t))
    BY <1>1, <1>3, <2>1, <2>5 DEF RecvToken
  <2>6. CASE kRecv' = Append(kRecv, isZeroByte)
    BY <1>2, <1>4, <2>6
  <2> QED
    BY <1>4, <2>2, <2>3, <2>4, <2>5, <2>6 DEF RecvMove
<1>5. CASE /\ kRecv' = Append(kRecv, isZeroByte) /\ UNCHANGED <<cq, m_RecvInProgress>>
           /\ RecvOwner(t) /\ ~RecvOwner(t)' /\ sockOpen = TRUE
  <2>1. ~RecvPending /\ m_RecvInProgress = TRUE /\ \A u \in Threads \ {t} : ~RecvOwner(u)
    BY <1>5 DEF RecvToken
  <2>2. Queued("recv")' = {}
    BY <1>5, <2>1 DEF RecvPending, Queued
  <2>3. kRecv' # <<>> /\ Len(kRecv') = 1
    BY <1>2, <1>5, <2>1 DEF RecvPending
  <2>4. RecvSingle' /\ RecvPending'
    BY <2>2, <2>3 DEF RecvSingle, RecvPending
  <2> QED
    BY <1>1, <1>5, <2>1, <2>4 DEF RecvToken
<1> QED
  BY <1>4, <1>5 DEF RecvMove

(* So does the kernel: a completion takes the token of its operation. *)
LEMMA KernelRecvToken ==
    ASSUME TypeOK, RecvToken, Kernel
    PROVE  RecvToken'
<1>1. UNCHANGED <<pc, retS, retD, comp, m_RecvInProgress, sockOpen>>
  BY Zenon DEF Kernel, KernelRecvOk, KernelRecvEnd, KernelSendOk, KernelSendEnd
<1>2. \A u \in Threads : RecvOwner(u)' <=> RecvOwner(u)
  BY <1>1 DEF RecvOwner, Lost
<1>3. kRecv \in Seq(BOOLEAN)
  BY DEF TypeOK, TypeKernel
<1>4. CASE KernelRecvOk \/ KernelRecvEnd
  <2>1. kRecv # <<>> /\ kRecv' = Tail(kRecv)
    BY <1>4, Zenon DEF KernelRecvOk, KernelRecvEnd
  <2>2. PICK c : cq' = Append(cq, c) /\ c.op = "recv"
    BY <1>4, KernelPosts
  <2>3. kRecv' = <<>> /\ Len(kRecv') = 0
    <3>1. Len(kRecv) <= 1
      BY DEF RecvToken, RecvSingle
    <3>2. Tail(kRecv) = <<>>
      BY <1>3, <2>1, <3>1, TailOne
    <3> QED
      BY <2>1, <3>2
  <2>4. Queued("recv")' = {Len(cq) + 1}
    BY <2>1, <2>2, QueuedAppend DEF RecvToken, RecvSingle
  <2>5. RecvSingle'
    BY <2>3, <2>4 DEF RecvSingle
  <2>6. RecvPending' /\ RecvPending
    BY <2>1, <2>4 DEF RecvPending
  <2> QED
    BY <1>1, <1>2, <2>5, <2>6 DEF RecvToken
<1>5. CASE KernelSendOk \/ KernelSendEnd
  <2>1. PICK c : cq' = Append(cq, c) /\ c.op = "send"
    BY <1>5, KernelPosts
  <2>2. kRecv' = kRecv
    BY <1>5, Zenon DEF KernelSendOk, KernelSendEnd
  <2>3. Queued("recv")' = Queued("recv")
    BY <2>1, QueuedAppend
  <2>4. (RecvSingle' <=> RecvSingle) /\ (RecvPending' <=> RecvPending)
    BY <2>2, <2>3 DEF RecvSingle, RecvPending
  <2> QED
    BY <1>1, <1>2, <2>4 DEF RecvToken
<1> QED
  BY <1>4, <1>5 DEF Kernel

(* The first completion passes its token to the worker that takes it. *)
LEMMA TakeRecvToken ==
    ASSUME TypeOK, RecvToken, NEW t \in Threads, OnlyMoves(t), cq # <<>>, cq' = Tail(cq),
           UNCHANGED <<m_RecvInProgress, sockOpen, kRecv>>,
           ~RecvOwner(t), RecvOwner(t)' <=> Head(cq).op = "recv"
    PROVE  RecvToken'
<1>1. \A u \in Threads \ {t} : RecvOwner(u)' <=> RecvOwner(u)
  BY DEF OnlyMoves, RecvOwner, Lost
<1>2. UNCHANGED <<m_RecvInProgress, sockOpen, kRecv>> /\ cq # <<>> /\ cq' = Tail(cq)
  OBVIOUS
<1>3. ~RecvOwner(t) /\ (RecvOwner(t)' <=> Head(cq).op = "recv")
  OBVIOUS
<1>4. CASE Head(cq).op = "recv"
  <2>1. RecvOwner(t)'
    BY <1>3, <1>4
  <2>2. 1 \in Queued("recv") /\ Queued("recv")' = {}
    BY <1>2, <1>4, QueuedTail DEF RecvToken, RecvSingle
  <2>3. kRecv' = <<>> /\ Len(kRecv') = 0
    BY <1>2, <2>2 DEF RecvToken, RecvSingle
  <2>4. RecvPending /\ ~RecvPending' /\ RecvSingle'
    BY <2>2, <2>3 DEF RecvSingle, RecvPending
  <2> QED
    BY <1>1, <1>2, <2>1, <2>4 DEF RecvToken
<1>5. CASE Head(cq).op = "send"
  <2>1. ~RecvOwner(t)'
    BY <1>3, <1>5
  <2>2. 1 \notin Queued("recv")
    BY <1>2, <1>5, QueuedTail
  <2>3. /\ \A i, j \in Queued("recv")' : i = j
        /\ Queued("recv") = {} <=> Queued("recv")' = {}
    <3>1. /\ \A i \in Queued("recv")' : i + 1 \in Queued("recv") /\ i \in Nat \ {0}
          /\ \A i \in Queued("recv") : i - 1 \in Queued("recv")'
      BY <1>2, <2>2, QueuedTail
    <3>2. \A i, j \in Queued("recv") : i = j
      BY DEF RecvToken, RecvSingle
    <3>3. ASSUME NEW i \in Queued("recv")', NEW j \in Queued("recv")' PROVE i = j
      <4>1. i + 1 \in Queued("recv") /\ j + 1 \in Queued("recv") /\ i \in Nat /\ j \in Nat
        BY <3>1, <3>3
      <4>2. i + 1 = j + 1
        BY <3>2, <4>1
      <4> QED
        BY <4>1, <4>2
    <3> QED
      BY <3>1, <3>3
  <2>4. RecvSingle' /\ (RecvPending' <=> RecvPending)
    BY <1>2, <2>3 DEF RecvSingle, RecvPending, RecvToken
  <2> QED
    BY <1>1, <1>2, <1>3, <2>1, <2>4 DEF RecvToken
<1> QED
  BY <1>2, <1>4, <1>5, QueuedKinds

(* The dispatch hands the token to the handler. *)
LEMMA DequeueRecvToken ==
    ASSUME TypeOK, RecvToken, NEW t \in Threads, OnlyMoves(t), Dequeue(t)
    PROVE  RecvToken'
<1>1. cq # <<>> /\ cq' = Tail(cq) /\ UNCHANGED <<m_RecvInProgress, sockOpen, kRecv, retS, retD>>
  BY DEF Dequeue
<1>2. pc[t] = "wait" /\ ~RecvOwner(t)
  BY DEF Dequeue, At, RecvOwner, Lost, RecvHeld, RecvLabels, SendLabels,
         DiscLabels, FireLabels
<1>3. Head(cq).op \in {"recv", "send"}
  BY <1>1, QueuedKinds
<1>4. pc'[t] = IF Head(cq).op = "recv" THEN RecvEntry(Head(cq)) ELSE "hs_clr"
  BY DEF Dequeue, Goto, TypeOK, TypeThreads
<1>5. RecvOwner(t)' <=> Head(cq).op = "recv"
  BY <1>1, <1>3, <1>4 DEF RecvEntry, RecvOwner, Lost, RecvHeld, RecvLabels, SendLabels,
         DiscLabels, FireLabels
<1> QED
  BY <1>1, <1>2, <1>5, TakeRecvToken

(* A worker that ends keeps the token for ever. *)
LEMMA AbortedRecvToken ==
    ASSUME TypeOK, RecvToken, NEW t \in Threads, OwnOK(t), WorkerAborted(t)
    PROVE  RecvToken'
<1>1. /\ OnlyMoves(t) /\ pc[t] = "wait" /\ pc'[t] = "ended" /\ comp'[t] = Head(cq)
      /\ cq # <<>> /\ cq' = Tail(cq)
      /\ UNCHANGED <<m_RecvInProgress, sockOpen, kRecv>>
  BY AbortedOwn
<1>2. ~RecvOwner(t) /\ (RecvOwner(t)' <=> Head(cq).op = "recv")
  BY <1>1 DEF RecvOwner, Lost, RecvHeld, RecvLabels, SendLabels,
         DiscLabels, FireLabels
<1> QED
  BY <1>1, <1>2, TakeRecvToken

(* A step of a running thread keeps the send token single. *)
LEMMA RunSendToken ==
    ASSUME TypeOK, SendToken, NEW t \in Threads, OnlyMoves(t), SendMove(t), DiscMove(t), TypeOK'
    PROVE  SendToken'
<1>1. \A u \in Threads \ {t} : SendOwner(u)' <=> SendOwner(u)
  BY DEF OnlyMoves, SendOwner, Lost
<1>2. kSend \in Seq(Seq(Nat)) /\ sockOpen \in BOOLEAN /\ sockOpen' \in BOOLEAN
  BY DEF TypeOK, TypeKernel, TypeFlags
<1>3. sockOpen' = TRUE => sockOpen = TRUE
  BY <1>2 DEF DiscMove
<1>4. CASE UNCHANGED <<kSend, cq>>
  <2>1. (SendSingle' <=> SendSingle) /\ (SendPending' <=> SendPending)
    BY <1>4 DEF SendSingle, SendPending, Queued
  <2>2. CASE m_SendInProgress' = m_SendInProgress /\ (SendOwner(t)' <=> SendOwner(t))
    BY <1>1, <1>3, <2>1, <2>2 DEF SendToken
  <2>3. CASE ~SendOwner(t) /\ SendOwner(t)' /\ m_SendInProgress = FALSE /\ m_SendInProgress' = TRUE
    BY <1>1, <1>3, <2>1, <2>3 DEF SendToken
  <2>4. CASE SendOwner(t) /\ ~SendOwner(t)' /\ m_SendInProgress' = FALSE
    BY <1>1, <1>3, <2>1, <2>4 DEF SendToken
  <2>5. CASE sockOpen = FALSE /\ m_SendInProgress' = FALSE /\ (SendOwner(t)' <=> SendOwner(t))
    BY <1>1, <1>3, <2>1, <2>5 DEF SendToken
  <2>6. CASE \E x : kSend' = Append(kSend, x)
    BY <1>2, <1>4, <2>6
  <2> QED
    BY <1>4, <2>2, <2>3, <2>4, <2>5, <2>6 DEF SendMove
<1>5. CASE /\ \E x : kSend' = Append(kSend, x)
           /\ UNCHANGED <<cq, m_SendInProgress>>
           /\ SendOwner(t) /\ ~SendOwner(t)' /\ sockOpen = TRUE
  <2>1. ~SendPending /\ m_SendInProgress = TRUE /\ \A u \in Threads \ {t} : ~SendOwner(u)
    BY <1>5 DEF SendToken
  <2>2. Queued("send")' = {}
    BY <1>5, <2>1 DEF SendPending, Queued
  <2>3. kSend' # <<>> /\ Len(kSend') = 1
    BY <1>2, <1>5, <2>1 DEF SendPending
  <2>4. SendSingle' /\ SendPending'
    BY <2>2, <2>3 DEF SendSingle, SendPending
  <2> QED
    BY <1>1, <1>5, <2>1, <2>4 DEF SendToken
<1> QED
  BY <1>4, <1>5 DEF SendMove

(* So does the kernel: a completion takes the token of its operation. *)
LEMMA KernelSendToken ==
    ASSUME TypeOK, SendToken, Kernel
    PROVE  SendToken'
<1>1. UNCHANGED <<pc, retS, retD, comp, m_SendInProgress, sockOpen>>
  BY Zenon DEF Kernel, KernelSendOk, KernelSendEnd, KernelRecvOk, KernelRecvEnd
<1>2. \A u \in Threads : SendOwner(u)' <=> SendOwner(u)
  BY <1>1 DEF SendOwner, Lost
<1>3. kSend \in Seq(Seq(Nat))
  BY DEF TypeOK, TypeKernel
<1>4. CASE KernelSendOk \/ KernelSendEnd
  <2>1. kSend # <<>> /\ kSend' = Tail(kSend)
    BY <1>4, Zenon DEF KernelSendOk, KernelSendEnd
  <2>2. PICK c : cq' = Append(cq, c) /\ c.op = "send"
    BY <1>4, KernelPosts
  <2>3. kSend' = <<>> /\ Len(kSend') = 0
    <3>1. Len(kSend) <= 1
      BY DEF SendToken, SendSingle
    <3>2. Tail(kSend) = <<>>
      BY <1>3, <2>1, <3>1, TailOne
    <3> QED
      BY <2>1, <3>2
  <2>4. Queued("send")' = {Len(cq) + 1}
    BY <2>1, <2>2, QueuedAppend DEF SendToken, SendSingle
  <2>5. SendSingle'
    BY <2>3, <2>4 DEF SendSingle
  <2>6. SendPending' /\ SendPending
    BY <2>1, <2>4 DEF SendPending
  <2> QED
    BY <1>1, <1>2, <2>5, <2>6 DEF SendToken
<1>5. CASE KernelRecvOk \/ KernelRecvEnd
  <2>1. PICK c : cq' = Append(cq, c) /\ c.op = "recv"
    BY <1>5, KernelPosts
  <2>2. kSend' = kSend
    BY <1>5, Zenon DEF KernelRecvOk, KernelRecvEnd
  <2>3. Queued("send")' = Queued("send")
    BY <2>1, QueuedAppend
  <2>4. (SendSingle' <=> SendSingle) /\ (SendPending' <=> SendPending)
    BY <2>2, <2>3 DEF SendSingle, SendPending
  <2> QED
    BY <1>1, <1>2, <2>4 DEF SendToken
<1> QED
  BY <1>4, <1>5 DEF Kernel

(* The first completion passes its token to the worker that takes it. *)
LEMMA TakeSendToken ==
    ASSUME TypeOK, SendToken, NEW t \in Threads, OnlyMoves(t), cq # <<>>, cq' = Tail(cq),
           UNCHANGED <<m_SendInProgress, sockOpen, kSend>>,
           ~SendOwner(t), SendOwner(t)' <=> Head(cq).op = "send"
    PROVE  SendToken'
<1>1. \A u \in Threads \ {t} : SendOwner(u)' <=> SendOwner(u)
  BY DEF OnlyMoves, SendOwner, Lost
<1>2. UNCHANGED <<m_SendInProgress, sockOpen, kSend>> /\ cq # <<>> /\ cq' = Tail(cq)
  OBVIOUS
<1>3. ~SendOwner(t) /\ (SendOwner(t)' <=> Head(cq).op = "send")
  OBVIOUS
<1>4. CASE Head(cq).op = "send"
  <2>1. SendOwner(t)'
    BY <1>3, <1>4
  <2>2. 1 \in Queued("send") /\ Queued("send")' = {}
    BY <1>2, <1>4, QueuedTail DEF SendToken, SendSingle
  <2>3. kSend' = <<>> /\ Len(kSend') = 0
    BY <1>2, <2>2 DEF SendToken, SendSingle
  <2>4. SendPending /\ ~SendPending' /\ SendSingle'
    BY <2>2, <2>3 DEF SendSingle, SendPending
  <2> QED
    BY <1>1, <1>2, <2>1, <2>4 DEF SendToken
<1>5. CASE Head(cq).op = "recv"
  <2>1. ~SendOwner(t)'
    BY <1>3, <1>5
  <2>2. 1 \notin Queued("send")
    BY <1>2, <1>5, QueuedTail
  <2>3. /\ \A i, j \in Queued("send")' : i = j
        /\ Queued("send") = {} <=> Queued("send")' = {}
    <3>1. /\ \A i \in Queued("send")' : i + 1 \in Queued("send") /\ i \in Nat \ {0}
          /\ \A i \in Queued("send") : i - 1 \in Queued("send")'
      BY <1>2, <2>2, QueuedTail
    <3>2. \A i, j \in Queued("send") : i = j
      BY DEF SendToken, SendSingle
    <3>3. ASSUME NEW i \in Queued("send")', NEW j \in Queued("send")' PROVE i = j
      <4>1. i + 1 \in Queued("send") /\ j + 1 \in Queued("send") /\ i \in Nat /\ j \in Nat
        BY <3>1, <3>3
      <4>2. i + 1 = j + 1
        BY <3>2, <4>1
      <4> QED
        BY <4>1, <4>2
    <3> QED
      BY <3>1, <3>3
  <2>4. SendSingle' /\ (SendPending' <=> SendPending)
    BY <1>2, <2>3 DEF SendSingle, SendPending, SendToken
  <2> QED
    BY <1>1, <1>2, <1>3, <2>1, <2>4 DEF SendToken
<1> QED
  BY <1>2, <1>4, <1>5, QueuedKinds

(* The dispatch hands the token to the handler. *)
LEMMA DequeueSendToken ==
    ASSUME TypeOK, SendToken, NEW t \in Threads, OnlyMoves(t), Dequeue(t)
    PROVE  SendToken'
<1>1. cq # <<>> /\ cq' = Tail(cq) /\ UNCHANGED <<m_SendInProgress, sockOpen, kSend, retS, retD>>
  BY DEF Dequeue
<1>2. pc[t] = "wait" /\ ~SendOwner(t)
  BY DEF Dequeue, At, SendOwner, Lost, SendHeld
<1>3. Head(cq).op \in {"recv", "send"}
  BY <1>1, QueuedKinds
<1>4. pc'[t] = IF Head(cq).op = "recv" THEN RecvEntry(Head(cq)) ELSE "hs_clr"
  BY DEF Dequeue, Goto, TypeOK, TypeThreads
<1>5. SendOwner(t)' <=> Head(cq).op = "send"
  BY <1>1, <1>3, <1>4 DEF RecvEntry, SendOwner, Lost, SendHeld
<1> QED
  BY <1>1, <1>2, <1>5, TakeSendToken

(* A worker that ends keeps the token for ever. *)
LEMMA AbortedSendToken ==
    ASSUME TypeOK, SendToken, NEW t \in Threads, OwnOK(t), WorkerAborted(t)
    PROVE  SendToken'
<1>1. /\ OnlyMoves(t) /\ pc[t] = "wait" /\ pc'[t] = "ended" /\ comp'[t] = Head(cq)
      /\ cq # <<>> /\ cq' = Tail(cq)
      /\ UNCHANGED <<m_SendInProgress, sockOpen, kSend>>
  BY AbortedOwn
<1>2. ~SendOwner(t) /\ (SendOwner(t)' <=> Head(cq).op = "send")
  BY <1>1 DEF SendOwner, Lost, SendHeld
<1> QED
  BY <1>1, <1>2, TakeSendToken

(* A new send or tick moves no token and no disconnect. *)
LEMMA StartMoves ==
    ASSUME TypeOK, NEW t \in Threads, SendStart(t) \/ TickSnapshot(t)
    PROVE  RecvMove(t) /\ SendMove(t) /\ DiscMove(t) /\ DiscOK(t)' /\ ChainMove(t)
<1>0. pc \in [Threads -> Labels] /\ retS[t] \in {"wait", "guard", "rb_check"}
  BY DEF TypeOK, TypeThreads
<1>1. /\ UNCHANGED <<m_ReceiveLoopStarted, m_RecvInProgress, m_SendInProgress,
                     m_DisconnectRequested, sockOpen, kRecv, kSend, cq, retD>>
      /\ pc[t] = "wait" /\ t # Acceptor
  BY ThreadsAssumption DEF SendStart, TickSnapshot, Branch, At
<1>2. \/ pc'[t] = "sm_check" /\ retS'[t] = "wait"
      \/ pc'[t] = "tick"
  BY <1>0 DEF SendStart, TickSnapshot, Branch, Goto, TypeOK, TypeThreads
<1>3. RecvMove(t)
  BY <1>1, <1>2 DEF RecvMove, RecvOwner, Lost, RecvHeld, RecvLabels, SendLabels, DiscLabels, FireLabels
<1>4. SendMove(t)
  BY <1>1, <1>2 DEF SendMove, SendOwner, Lost, SendHeld
<1>5. DiscMove(t) /\ DiscOK(t)' /\ ChainMove(t)
  BY <1>1, <1>2 DEF DiscMove, DiscOK, ChainMove, InRecvChain, RecvLabels, SendLabels, FireLabels
<1> QED
  BY <1>3, <1>4, <1>5

(* Every step keeps the order of the disconnect. *)
LEMMA MoveDisc ==
    ASSUME TypeOK, TypeOK', DiscInv, NEW t \in Threads, OnlyMoves(t), DiscMove(t), DiscOK(t)'
    PROVE  DiscInv'
<1>1. /\ sockOpen \in BOOLEAN /\ sockOpen' \in BOOLEAN
      /\ m_DisconnectRequested \in BOOLEAN /\ m_DisconnectRequested' \in BOOLEAN
  BY DEF TypeOK, TypeFlags
<1>2. sockOpen' = FALSE => m_DisconnectRequested' = TRUE
  BY DEF DiscMove, DiscInv
<1>3. ASSUME NEW u \in Threads PROVE DiscOK(u)'
  <2>1. CASE u # t
    BY <2>1 DEF OnlyMoves, DiscInv, DiscOK, DiscMove
  <2> QED
    BY <2>1
<1>4. pc'[Acceptor] \in {"acc_add", "sr_check", "sr_cas"} => m_ReceiveLoopStarted' = FALSE
  <2>1. CASE t = Acceptor
    BY <2>1 DEF DiscMove, DiscInv
  <2>2. CASE t # Acceptor
    BY <2>2 DEF OnlyMoves, DiscMove, DiscInv, Threads
  <2> QED
    BY <2>1, <2>2
<1> QED
  BY <1>2, <1>3, <1>4 DEF DiscInv

(* The dispatch and the kernel do too. *)
LEMMA DequeueDisc ==
    ASSUME TypeOK, DiscInv, NEW t \in Threads, OnlyMoves(t), Dequeue(t)
    PROVE  DiscInv'
<1>1. /\ UNCHANGED <<m_ReceiveLoopStarted, m_DisconnectRequested, sockOpen>>
      /\ t # Acceptor
  BY ThreadsAssumption DEF Dequeue
<1>2. DiscOK(t)'
  BY DEF Dequeue, Goto, RecvEntry, DiscOK, FireLabels, TypeOK, TypeThreads
<1>3. \A u \in Threads : DiscOK(u)'
  BY <1>1, <1>2 DEF OnlyMoves, DiscInv, DiscOK
<1> QED
  BY <1>1, <1>3 DEF DiscInv, OnlyMoves, Threads

(* So does the end of a worker. *)
LEMMA AbortedDisc ==
    ASSUME TypeOK, DiscInv, NEW t \in Threads, OwnOK(t), WorkerAborted(t)
    PROVE  DiscInv'
<1>1. /\ UNCHANGED <<m_ReceiveLoopStarted, m_DisconnectRequested, sockOpen>>
      /\ OnlyMoves(t) /\ pc'[t] = "ended" /\ t # Acceptor
  BY AbortedOwn
<1>2. DiscOK(t)'
  BY <1>1 DEF DiscOK, FireLabels
<1>3. \A u \in Threads : DiscOK(u)'
  BY <1>1, <1>2 DEF OnlyMoves, DiscInv, DiscOK
<1> QED
  BY <1>1, <1>3 DEF DiscInv, OnlyMoves, Threads

(* The invariant of the tokens. *)
TokenInv == TypeOK /\ ThreadInv /\ DiscInv /\ RecvToken /\ SendToken

(* What the steps that are not a step of one thread leave alone. *)
LEMMA StutterToken ==
    ASSUME TokenInv, UNCHANGED vars
    PROVE  DiscInv' /\ RecvToken' /\ SendToken'
<1> USE DEF vars
<1>1. DiscInv'
  BY DEF TokenInv, DiscInv, DiscOK
<1>2. RecvToken'
  BY DEF TokenInv, RecvToken, RecvSingle, RecvPending, RecvOwner, Lost, Queued
<1>3. SendToken'
  BY DEF TokenInv, SendToken, SendSingle, SendPending, SendOwner, Lost, Queued
<1> QED
  BY <1>1, <1>2, <1>3

(* Every step keeps the tokens. *)
LEMMA NextToken == TokenInv /\ [Next]_vars => TokenInv'
<1> SUFFICES ASSUME TokenInv, [Next]_vars PROVE TokenInv'
  OBVIOUS
<1>0. TypeOK /\ ThreadInv /\ DiscInv /\ RecvToken /\ SendToken
  BY DEF TokenInv
<1>1. TypeOK' /\ ThreadInv'
  BY <1>0, NextType, NextThreads
<1>2. ASSUME NEW t \in Threads, Running(t) PROVE DiscInv' /\ RecvToken' /\ SendToken'
  <2>1. OwnOK(t) /\ OnlyMoves(t)
    BY <1>0, <1>2, RunOwn DEF ThreadInv
  <2>2. RecvMove(t) /\ SendMove(t) /\ DiscMove(t) /\ DiscOK(t)'
    BY <1>0, <1>2, <2>1, RunRecv, RunSend, RunDisc, RunDiscOK
  <2> QED
    BY <1>0, <1>1, <2>1, <2>2, MoveDisc, RunRecvToken, RunSendToken
<1>3. ASSUME NEW t \in Threads, SendStart(t) \/ TickSnapshot(t)
      PROVE  DiscInv' /\ RecvToken' /\ SendToken'
  <2>1. OnlyMoves(t)
    BY <1>0, <1>3, StartOwn DEF ThreadInv
  <2>2. RecvMove(t) /\ SendMove(t) /\ DiscMove(t) /\ DiscOK(t)'
    BY <1>0, <1>3, StartMoves
  <2> QED
    BY <1>0, <1>1, <2>1, <2>2, MoveDisc, RunRecvToken, RunSendToken
<1>4. ASSUME NEW t \in Threads, Dequeue(t) PROVE DiscInv' /\ RecvToken' /\ SendToken'
  <2>1. OnlyMoves(t)
    BY <1>0, <1>4, StartOwn DEF ThreadInv
  <2> QED
    BY <1>0, <1>4, <2>1, DequeueDisc, DequeueRecvToken, DequeueSendToken
<1>7. ASSUME NEW t \in Threads, WorkerAborted(t) PROVE DiscInv' /\ RecvToken' /\ SendToken'
  BY <1>0, <1>7, AbortedDisc, AbortedRecvToken, AbortedSendToken DEF ThreadInv
<1>5. ASSUME Kernel PROVE DiscInv' /\ RecvToken' /\ SendToken'
  <2>1. UNCHANGED <<m_ReceiveLoopStarted, m_DisconnectRequested, sockOpen, pc>>
    BY <1>5, Zenon DEF Kernel, KernelRecvOk, KernelRecvEnd, KernelSendOk, KernelSendEnd
  <2>2. DiscInv'
    BY <1>0, <2>1 DEF DiscInv, DiscOK
  <2> QED
    BY <1>0, <1>5, <2>2, KernelRecvToken, KernelSendToken
<1>6. ASSUME UNCHANGED vars PROVE DiscInv' /\ RecvToken' /\ SendToken'
  BY <1>6, StutterToken
<1> QED
  BY <1>1, <1>2, <1>3, <1>4, <1>5, <1>6, <1>7 DEF Next, TokenInv

(* Initially there is no token and nobody disconnects. *)
LEMMA InitToken == Init => TokenInv
<1> SUFFICES ASSUME Init PROVE TokenInv
  OBVIOUS
<1>1. TypeOK /\ ThreadInv
  BY InitCount DEF CountInv
<1>2. kRecv = <<>> /\ kSend = <<>> /\ cq = <<>> /\ Queued("recv") = {} /\ Queued("send") = {}
  BY DEF Init, Queued
<1>3. ASSUME NEW t \in Threads PROVE ~RecvOwner(t) /\ ~SendOwner(t) /\ DiscOK(t)
  <2>1. pc[t] \in {"acc_add", "wait"}
    BY DEF Init
  <2> QED
    BY <2>1 DEF RecvOwner, Lost, RecvHeld, RecvLabels, SendLabels, DiscLabels, FireLabels, SendOwner,
       SendHeld, DiscOK
<1>4. RecvSingle /\ ~RecvPending /\ SendSingle /\ ~SendPending
  BY <1>2 DEF RecvSingle, RecvPending, SendSingle, SendPending
<1>5. /\ m_RecvInProgress = FALSE /\ m_SendInProgress = FALSE /\ sockOpen = TRUE
      /\ m_ReceiveLoopStarted = FALSE
  BY DEF Init
<1>6. RecvToken /\ SendToken
  BY <1>3, <1>4, <1>5 DEF RecvToken, SendToken
<1>7. DiscInv
  BY <1>3, <1>5 DEF DiscInv
<1> QED
  BY <1>1, <1>6, <1>7 DEF TokenInv

(* A set without two elements counts for at most one. *)
LEMMA AtMostOne ==
    ASSUME NEW S, \A i, j \in S : i = j
    PROVE  Cardinality(S) \in Nat /\ Cardinality(S) <= 1 /\ (S = {} => Cardinality(S) = 0)
<1>1. CASE S = {}
  BY <1>1, FS_EmptySet
<1>2. CASE S # {}
  <2>1. PICK x : x \in S
    BY <1>2
  <2>2. S = {x}
    BY <2>1
  <2> QED
    BY <1>2, <2>2, FS_Singleton
<1> QED
  BY <1>1, <1>2

(* Each OVERLAPPED structure belongs to at most one operation, for every    *)
(* number of workers, senders and closers: also while RequestDisconnect     *)
(* resets the in-progress flags under a thread that is about to post,       *)
(* because the socket is closed before the flags are reset.                 *)
THEOREM OverlappedOwnedOnce == Spec => []SingleOutstanding
<1>1. Init => TokenInv
  BY InitToken
<1>2. TokenInv /\ [Next]_vars => TokenInv'
  BY NextToken
<1>3. TokenInv => SingleOutstanding
  <2> SUFFICES ASSUME TokenInv PROVE SingleOutstanding
    OBVIOUS
  <2>0. Len(kRecv) \in Nat /\ Len(kSend) \in Nat /\ Len(<<>>) = 0
    BY DEF TokenInv, TypeOK, TypeKernel
  <2>1. RecvSingle /\ SendSingle
    BY DEF TokenInv, RecvToken, SendToken
  <2>2. Len(kRecv) + Cardinality(Queued("recv")) <= 1
    <3>1. Cardinality(Queued("recv")) \in Nat /\ Cardinality(Queued("recv")) <= 1
      BY <2>1, AtMostOne DEF RecvSingle
    <3>2. CASE kRecv = <<>>
      BY <2>0, <3>1, <3>2
    <3>3. CASE kRecv # <<>>
      <4>1. Cardinality(Queued("recv")) = 0 /\ Len(kRecv) <= 1
        BY <2>1, <3>3, AtMostOne DEF RecvSingle
      <4> QED
        BY <2>0, <4>1
    <3> QED
      BY <3>2, <3>3
  <2>3. Len(kSend) + Cardinality(Queued("send")) <= 1
    <3>1. Cardinality(Queued("send")) \in Nat /\ Cardinality(Queued("send")) <= 1
      BY <2>1, AtMostOne DEF SendSingle
    <3>2. CASE kSend = <<>>
      BY <2>0, <3>1, <3>2
    <3>3. CASE kSend # <<>>
      <4>1. Cardinality(Queued("send")) = 0 /\ Len(kSend) <= 1
        BY <2>1, <3>3, AtMostOne DEF SendSingle
      <4> QED
        BY <2>0, <4>1
    <3> QED
      BY <3>2, <3>3
  <2> QED
    BY <2>2, <2>3 DEF SingleOutstanding
<1> QED
  BY <1>1, <1>2, <1>3, PTL DEF Spec

(* m_SendInProgress has an owner whenever it is set, whatever the number of *)
(* threads: no path through TryPostSendFromQueue, no failed WSASend and no  *)
(* disconnect leaves it set behind, so nothing but a worker that ended with *)
(* its aborted send can stop later messages from being posted.              *)
THEOREM SendFlagHasOwner == Spec => []SendFlagOwned
<1>1. Init => TokenInv
  BY InitToken
<1>2. TokenInv /\ [Next]_vars => TokenInv'
  BY NextToken
<1>3. TokenInv => SendFlagOwned
  <2>1. TokenInv => \A t \in Threads : Lost("send", t) => t \in Ended /\ comp[t].op = "send"
    BY DEF TokenInv, ThreadInv, OwnOK, OtherOK, Lost, Ended, ActivationLabels, SendLabels,
           DiscLabels, FireLabels
  <2> QED
    BY <2>1 DEF TokenInv, TypeOK, TypeFlags, SendToken, SendPending, SendOwner, SendHeld,
       SendFlagOwned, Swallowed
<1> QED
  BY <1>1, <1>2, <1>3, PTL DEF Spec

-----------------------------------------------------------------------------
(* The receive loop. *)

AliveInv ==
    m_DisconnectRequested = FALSE =>
        RecvPending \/ \E t \in Threads : InRecvChain(t) \/ Lost("recv", t)

(* While nobody disconnects, an owner of the receive token is on the chain  *)
(* unless it is a worker that ended.                                        *)
LEMMA OwnerInChain ==
    ASSUME DiscInv, m_DisconnectRequested = FALSE, NEW t \in Threads, RecvOwner(t)
    PROVE  InRecvChain(t) \/ Lost("recv", t)
<1>1. pc[t] \notin {"rd_close", "rd_load", "rd_recv", "rd_send"} \cup FireLabels
  BY DEF DiscInv, DiscOK
<1> QED
  BY <1>1 DEF RecvOwner, RecvHeld, InRecvChain, DiscLabels, FireLabels

(* A token that the flag announces keeps the loop alive. *)
LEMMA FlagAlive ==
    TokenInv /\ m_RecvInProgress = TRUE => AliveInv
BY OwnerInChain DEF TokenInv, RecvToken, AliveInv

(* A step of one thread keeps the loop alive. *)
LEMMA MoveAlive ==
    ASSUME TokenInv, TokenInv', AliveInv, NEW t \in Threads, OnlyMoves(t), RecvMove(t),
           DiscMove(t), ChainMove(t), Survives(t)
    PROVE  AliveInv'
<1> SUFFICES ASSUME m_DisconnectRequested' = FALSE
             PROVE  RecvPending' \/ \E u \in Threads : InRecvChain(u)' \/ Lost("recv", u)'
  BY DEF AliveInv
<1>1. m_DisconnectRequested = FALSE
  BY DEF DiscMove, TokenInv, TypeOK, TypeFlags
<1>2. CASE RecvPending
  <2>1. CASE UNCHANGED <<kRecv, cq>>
    BY <1>2, <2>1 DEF RecvPending, Queued
  <2>2. CASE kRecv' = Append(kRecv, isZeroByte)
    <3>1. kRecv \in Seq(BOOLEAN)
      BY DEF TokenInv, TypeOK, TypeKernel
    <3>2. kRecv' # <<>>
      BY <2>2, <3>1
    <3> QED
      BY <3>2 DEF RecvPending
  <2> QED
    BY <2>1, <2>2 DEF RecvMove
<1>3. ASSUME NEW u \in Threads, InRecvChain(u) \/ Lost("recv", u), u # t
      PROVE  RecvPending' \/ \E v \in Threads : InRecvChain(v)' \/ Lost("recv", v)'
  BY <1>3 DEF OnlyMoves, InRecvChain, Lost
<1>5. ~Lost("recv", t)
  BY DEF Survives, Lost
<1>4. CASE InRecvChain(t)
  <2>1. CASE m_RecvInProgress' = TRUE
    <3>1. (TokenInv /\ m_RecvInProgress = TRUE => AliveInv)'
      BY FlagAlive, PTL
    <3> QED
      BY <2>1, <3>1 DEF AliveInv
  <2> QED
    BY <1>4, <2>1 DEF ChainMove, RecvPending
<1> QED
  BY <1>1, <1>2, <1>3, <1>4, <1>5 DEF AliveInv

(* Every step keeps the loop alive. *)
LEMMA NextAlive == TokenInv /\ AliveInv /\ [Next]_vars => AliveInv'
<1> SUFFICES ASSUME TokenInv, AliveInv, [Next]_vars PROVE AliveInv'
  OBVIOUS
<1>0. TypeOK /\ ThreadInv /\ DiscInv /\ TokenInv'
  BY NextToken DEF TokenInv
<1>1. ASSUME NEW t \in Threads, Running(t) PROVE AliveInv'
  <2>1. OwnOK(t) /\ OnlyMoves(t) /\ Survives(t)
    BY <1>0, <1>1, RunOwn DEF ThreadInv
  <2>2. RecvMove(t) /\ DiscMove(t) /\ ChainMove(t)
    BY <1>0, <1>1, <2>1, RunRecv, RunDisc, RunChain
  <2> QED
    BY <1>0, <2>1, <2>2, MoveAlive
<1>2. ASSUME NEW t \in Threads, SendStart(t) \/ TickSnapshot(t) PROVE AliveInv'
  <2>1. OnlyMoves(t) /\ Survives(t)
    BY <1>0, <1>2, StartOwn DEF ThreadInv
  <2> QED
    BY <1>0, <1>2, <2>1, StartMoves, MoveAlive
<1>3. ASSUME NEW t \in Threads, Dequeue(t) PROVE AliveInv'
  <2>1. OnlyMoves(t) /\ pc[t] = "wait"
    BY <1>0, <1>3, StartOwn DEF ThreadInv, Dequeue, At
  <2>2. UNCHANGED <<m_DisconnectRequested, kRecv, retS>> /\ cq # <<>> /\ cq' = Tail(cq)
    BY <1>3 DEF Dequeue
  <2>3. CASE Head(cq).op = "recv"
    <3>1. InRecvChain(t)'
      BY <1>0, <1>3, <2>3 DEF Dequeue, Goto, RecvEntry, InRecvChain, RecvLabels, TypeOK,
         TypeThreads
    <3> QED
      BY <3>1 DEF AliveInv
  <2>4. CASE Head(cq).op = "send"
    <3>1. \A i \in Queued("recv") : i - 1 \in Queued("recv")'
      BY <1>0, <2>2, <2>4, QueuedTail
    <3>2. RecvPending => RecvPending'
      BY <2>2, <3>1 DEF RecvPending
    <3>3. ~InRecvChain(t) /\ ~Lost("recv", t)
      BY <2>1 DEF InRecvChain, RecvLabels, SendLabels, Lost
    <3>4. \A u \in Threads : InRecvChain(u) \/ Lost("recv", u)
                                => InRecvChain(u)' \/ Lost("recv", u)'
      BY <2>1, <3>3 DEF OnlyMoves, InRecvChain, Lost
    <3> QED
      BY <2>2, <3>2, <3>4 DEF AliveInv
  <2> QED
    BY <1>0, <2>2, <2>3, <2>4, QueuedKinds
<1>6. ASSUME NEW t \in Threads, WorkerAborted(t) PROVE AliveInv'
  <2>1. /\ OnlyMoves(t) /\ pc[t] = "wait" /\ pc'[t] = "ended" /\ comp'[t] = Head(cq)
        /\ cq # <<>> /\ cq' = Tail(cq)
        /\ UNCHANGED <<m_DisconnectRequested, kRecv, retS>>
    BY <1>0, <1>6, AbortedOwn DEF ThreadInv
  <2>2. CASE Head(cq).op = "recv"
    BY <2>1, <2>2 DEF AliveInv, Lost
  <2>3. CASE Head(cq).op = "send"
    <3>1. \A i \in Queued("recv") : i - 1 \in Queued("recv")'
      BY <1>0, <2>1, <2>3, QueuedTail
    <3>2. RecvPending => RecvPending'
      BY <2>1, <3>1 DEF RecvPending
    <3>3. ~InRecvChain(t) /\ ~Lost("recv", t)
      BY <2>1 DEF InRecvChain, RecvLabels, SendLabels, Lost
    <3>4. \A u \in Threads : InRecvChain(u) \/ Lost("recv", u)
                                => InRecvChain(u)' \/ Lost("recv", u)'
      BY <2>1, <3>3 DEF OnlyMoves, InRecvChain, Lost
    <3> QED
      BY <2>1, <3>2, <3>4 DEF AliveInv
  <2> QED
    BY <1>0, <2>1, <2>2, <2>3, QueuedKinds
<1>4. ASSUME Kernel PROVE AliveInv'
  <2>1. UNCHANGED <<m_DisconnectRequested, pc, retS, comp>>
    BY <1>4, Zenon DEF Kernel, KernelRecvOk, KernelRecvEnd, KernelSendOk, KernelSendEnd
  <2>2. RecvPending => m_RecvInProgress' = TRUE \/ RecvPending'
    <3>1. CASE KernelRecvOk \/ KernelRecvEnd
      <4>1. PICK c : cq' = Append(cq, c) /\ c.op = "recv"
        BY <1>0, <3>1, KernelPosts
      <4>2. Queued("recv")' # {}
        BY <1>0, <4>1, QueuedAppend
      <4> QED
        BY <4>2 DEF RecvPending
    <3>2. CASE KernelSendOk \/ KernelSendEnd
      <4>1. PICK c : cq' = Append(cq, c) /\ c.op = "send"
        BY <1>0, <3>2, KernelPosts
      <4>2. Queued("recv")' = Queued("recv") /\ kRecv' = kRecv
        BY <1>0, <3>2, <4>1, QueuedAppend DEF KernelSendOk, KernelSendEnd
      <4> QED
        BY <4>2 DEF RecvPending
    <3> QED
      BY <1>4, <3>1, <3>2, Zenon DEF Kernel
  <2>3. m_RecvInProgress' = TRUE => AliveInv'
    <3>1. (TokenInv /\ m_RecvInProgress = TRUE => AliveInv)'
      BY FlagAlive, PTL
    <3> QED
      BY <1>0, <3>1
  <2>4. \A u \in Threads : InRecvChain(u)' \/ Lost("recv", u)' <=> InRecvChain(u) \/ Lost("recv", u)
    BY <2>1 DEF InRecvChain, Lost
  <2> QED
    BY <2>1, <2>2, <2>3, <2>4 DEF AliveInv
<1>5. ASSUME UNCHANGED vars PROVE AliveInv'
  BY <1>5 DEF vars, AliveInv, RecvPending, Queued, InRecvChain, Lost
<1> QED
  BY <1>1, <1>2, <1>3, <1>4, <1>5, <1>6 DEF Next

(* A session that nobody disconnected goes deaf in one way only, whatever   *)
(* the number of threads and whichever postings fail: a worker ended with   *)
(* its aborted receive.  Otherwise the flag that makes a second             *)
(* RequestReceived return is set only while a receive is under way.         *)
THEOREM ReceiveLoopAlive == Spec => []RecvLoopAlive
<1>1. Init => TokenInv /\ AliveInv
  <2> SUFFICES ASSUME Init PROVE AliveInv
    BY InitToken
  <2>1. pc[Acceptor] = "acc_add" /\ Acceptor \in Threads
    BY DEF Init, Threads
  <2> QED
    BY <2>1 DEF AliveInv, InRecvChain, RecvLabels
<1>2. TokenInv /\ AliveInv /\ [Next]_vars => (TokenInv /\ AliveInv)'
  BY NextToken, NextAlive
<1>3. TokenInv /\ AliveInv => RecvLoopAlive
  <2>1. TokenInv => \A t \in Threads : Lost("recv", t) => t \in Ended /\ comp[t].op = "recv"
    BY DEF TokenInv, ThreadInv, OwnOK, OtherOK, Lost, Ended, ActivationLabels, SendLabels,
           DiscLabels, FireLabels
  <2> QED
    BY <2>1 DEF TokenInv, TypeOK, TypeFlags, AliveInv, RecvLoopAlive, RecvPending, Swallowed
<1> QED
  BY <1>1, <1>2, <1>3, PTL DEF Spec

-----------------------------------------------------------------------------
(* The receive buffer. *)

RoomLabels == {"rv_add", "rv_wsa"}

(* At most one receive that may carry data is on its way to CommitWrite. *)
CommitInv ==
    /\ RecvPending => \A t \in Threads : pc[t] # "hr_commit"
    /\ \A t, u \in Threads : pc[t] = "hr_commit" /\ pc[u] = "hr_commit" => t = u

(* A real receive on its way to the kernel, in it, or completed has room.   *)
(* On a closed socket the posting fails, so its room need not last.         *)
PostRoom  == \A t \in Threads : pc[t] \in RoomLabels /\ isZeroByte = FALSE => recvBuf < RecvCapacity
FitInv ==
    /\ recvBuf <= RecvCapacity
    /\ sockOpen = TRUE => PostRoom
    /\ \A i \in DOMAIN kRecv : kRecv[i] = FALSE => recvBuf < RecvCapacity
    /\ \A i \in Queued("recv") : cq[i].n = 0 \/ (cq[i].n = 1 /\ recvBuf < RecvCapacity)
    /\ CommitFits

RoomInv == TokenInv /\ CommitInv /\ FitInv

(* What a step of thread t other than CommitWrite does to the room. *)
FitMove(t) ==
    /\ recvBuf' \in Nat /\ recvBuf' <= recvBuf
    /\ comp' = comp
    /\ pc'[t] # "hr_commit"
    /\ pc'[t] \in RoomLabels /\ isZeroByte' = FALSE =>
          recvBuf' < RecvCapacity \/ (pc[t] \in RoomLabels /\ isZeroByte = FALSE)
    /\ isZeroByte' = isZeroByte \/ isZeroByte' = TRUE \/ RecvOwner(t)
    /\ cq' = cq
    /\ \/ kRecv' = kRecv
       \/ kRecv' = Append(kRecv, isZeroByte) /\ pc[t] = "rv_wsa" /\ sockOpen = TRUE

(* A running thread never takes room from a receive that was promised it. *)
LEMMA RunFit ==
    ASSUME TypeOK, recvBuf <= RecvCapacity, NEW t \in Threads, Running(t), ~RecvCommit(t)
    PROVE  FitMove(t)
<1> USE DEF TypeOK, TypeFlags, TypeData, TypeThreads, At, FitMove, RoomLabels,
            RecvOwner, RecvHeld, RecvLabels
<1>0. /\ retS[t] \notin RoomLabels \cup {"hr_commit"}
      /\ retD[t] \notin RoomLabels \cup {"hr_commit"}
  BY DEF RoomLabels
<1>1. CASE AcceptAdd(t)
  BY <1>1 DEF Goto, AcceptAdd
<1>2. CASE StartCheck(t)
  BY <1>2 DEF Goto, Branch, End, StartCheck
<1>3. CASE StartCas(t)
  BY <1>3 DEF Goto, End, StartCas
<1>4. CASE ReceivedCheck(t)
  BY <1>4 DEF Goto, Branch, End, ReceivedCheck
<1>5. CASE ReceivedCas(t)
  BY <1>5 DEF Goto, End, ReceivedCas
<1>6. CASE PrepareZero(t)
  BY <1>6 DEF Goto, PrepareZero
<1>7. CASE PrepareReal(t)
  BY <1>7, BoundsAssumption DEF Goto, CallDisconnect, PrepareReal
<1>8. CASE RecvAdd(t)
  BY <1>8 DEF Goto, RecvAdd
<1>9. CASE RecvPosted(t)
  BY <1>9 DEF Goto, End, RecvPosted
<1>10. CASE RecvPostFailed(t)
  BY <1>10 DEF Goto, Branch, RecvPostFailed
<1>11. CASE RecvUndo(t)
  BY <1>11 DEF Goto, RecvUndo
<1>12. CASE RecvFailed(t)
  BY <1>12 DEF Goto, CallDisconnect, End, RecvFailed
<1>13. CASE RecvCheck(t)
  BY <1>13 DEF Goto, Branch, RecvCheck
<1>14. CASE RecvDrop(t)
  BY <1>14 DEF Goto, RecvDrop
<1>15. CASE RecvDone(t)
  BY <1>15 DEF Goto, RecvDone
<1>16. CASE ReadCheck(t)
  BY <1>16 DEF Goto, Branch, ReadCheck
<1>17. CASE ReadNeedMore(t)
  BY <1>17 DEF Goto, Branch, ReadNeedMore
<1>18. CASE ReadInvalid(t)
  BY <1>18 DEF Goto, CallDisconnect, ReadInvalid
<1>19. CASE ReadPacket(t)
  BY <1>19 DEF Goto, ReadPacket
<1>20. CASE ReadStop(t)
  BY <1>20 DEF Goto, Branch, ReadStop
<1>21. CASE PacketIgnored(t)
  BY <1>21 DEF Goto, Branch, PacketIgnored
<1>22. CASE PacketAnswered(t)
  BY <1>22 DEF Goto, PacketAnswered
<1>23. CASE SentClear(t)
  BY <1>23 DEF Goto, CallDisconnect, SentClear
<1>24. CASE SentConsume(t)
  BY <1>24 DEF Goto, SentConsume
<1>25. CASE SentCheck(t)
  BY <1>25 DEF Goto, Branch, SentCheck
<1>26. CASE SentPending(t)
  BY <1>26 DEF Goto, SentPending
<1>27. CASE SendCheck(t)
  BY <1>27, <1>0 DEF Goto, Branch, SendCheck
<1>28. CASE SendAlloc(t)
  BY <1>28 DEF Goto, SendAlloc
<1>29. CASE SendOverflow(t)
  BY <1>29 DEF Goto, CallDisconnect, SendOverflow
<1>30. CASE SendWrite(t)
  BY <1>30 DEF Goto, SendWrite
<1>31. CASE TryPostCheck(t)
  BY <1>31, <1>0 DEF Goto, Branch, TryPostCheck
<1>32. CASE TryPostCas(t)
  BY <1>32, <1>0 DEF Goto, TryPostCas
<1>33. CASE TryPostRead(t)
  BY <1>33 DEF Goto, TryPostRead
<1>34. CASE TryPostAdd(t)
  BY <1>34 DEF Goto, TryPostAdd
<1>35. CASE TryPostPosted(t)
  BY <1>35, <1>0 DEF Goto, TryPostPosted
<1>36. CASE TryPostFailed(t)
  BY <1>36 DEF Goto, Branch, TryPostFailed
<1>37. CASE TryPostUndo(t)
  BY <1>37 DEF Goto, TryPostUndo
<1>38. CASE TryPostClear(t)
  BY <1>38, <1>0 DEF Goto, TryPostClear
<1>39. CASE DiscCas(t)
  BY <1>39 DEF Goto, DiscCas
<1>40. CASE DiscClose(t)
  BY <1>40 DEF Goto, DiscClose
<1>41. CASE DiscClearRecv(t)
  BY <1>41 DEF Goto, DiscClearRecv
<1>42. CASE DiscClearSend(t)
  BY <1>42 DEF Goto, DiscClearSend
<1>43. CASE DiscLoad(t)
  BY <1>43, <1>0 DEF Goto, Branch, DiscLoad
<1>44. CASE FireCas(t)
  BY <1>44, <1>0 DEF Goto, FireCas
<1>45. CASE FireClear(t)
  BY <1>45 DEF Goto, FireClear
<1>46. CASE FireCallback(t)
  BY <1>46, <1>0 DEF Goto, FireCallback
<1>47. CASE GuardRelease(t)
  BY <1>47 DEF Goto, GuardRelease
<1>48. CASE GuardCheck(t)
  BY <1>48 DEF Goto, GuardCheck
<1>49. CASE TickSkip(t)
  BY <1>49 DEF Goto, Branch, TickSkip
<1>50. CASE TickIdle(t)
  BY <1>50 DEF Goto, CallDisconnect, TickIdle
<1> QED
  BY <1>1, <1>2, <1>3, <1>4, <1>5, <1>6, <1>7, <1>8, <1>9, <1>10, <1>11, <1>12, <1>13,
      <1>14, <1>15, <1>16, <1>17, <1>18, <1>19, <1>20, <1>21, <1>22, <1>23, <1>24,
      <1>25, <1>26, <1>27, <1>28, <1>29, <1>30, <1>31, <1>32, <1>33, <1>34, <1>35,
      <1>36, <1>37, <1>38, <1>39, <1>40, <1>41, <1>42, <1>43, <1>44, <1>45, <1>46,
      <1>47, <1>48, <1>49, <1>50 DEF Running

(* A thread at one of these labels owns the receive token. *)
LEMMA RoomOwner ==
    ASSUME NEW t \in Threads, pc[t] \in RoomLabels \cup {"hr_commit"}
    PROVE  RecvOwner(t)
BY DEF RecvOwner, RecvHeld, RecvLabels, RoomLabels

(* Such a step keeps the room. *)
LEMMA MoveFit ==
    ASSUME RoomInv, NEW t \in Threads, OnlyMoves(t), FitMove(t), DiscMove(t), TypeOK'
    PROVE  CommitInv' /\ FitInv'
<1>0. /\ recvBuf \in Nat /\ recvBuf' \in Nat /\ RecvCapacity \in Nat /\ kRecv \in Seq(BOOLEAN)
      /\ sockOpen \in BOOLEAN /\ sockOpen' \in BOOLEAN /\ isZeroByte' \in BOOLEAN
      /\ \A u \in Threads : comp[u].n \in Nat
  BY BoundsAssumption DEF RoomInv, TokenInv, TypeOK, TypeData, TypeFlags, TypeKernel, TypeThreads,
     Completions
<1>1. recvBuf' <= recvBuf /\ comp' = comp /\ cq' = cq /\ pc'[t] # "hr_commit"
  BY DEF FitMove
<1>2. sockOpen' = TRUE => sockOpen = TRUE
  BY <1>0 DEF DiscMove
<1>3. sockOpen = TRUE => \A u, v \in Threads : RecvOwner(u) /\ RecvOwner(v) => u = v
  BY DEF RoomInv, TokenInv, RecvToken
<1>4. \A u \in Threads : pc'[u] = "hr_commit" => pc[u] = "hr_commit" /\ u # t
  BY <1>1 DEF OnlyMoves
<1>5. CommitInv'
  <2>1. \A u, v \in Threads : pc'[u] = "hr_commit" /\ pc'[v] = "hr_commit" => u = v
    BY <1>4 DEF RoomInv, CommitInv
  <2>2. ASSUME RecvPending', NEW u \in Threads, pc'[u] = "hr_commit" PROVE FALSE
    <3>1. pc[u] = "hr_commit" /\ u # t
      BY <1>4, <2>2
    <3>2. CASE kRecv' = kRecv
      <4>1. RecvPending
        BY <1>1, <2>2, <3>2 DEF RecvPending, Queued
      <4> QED
        BY <3>1, <4>1 DEF RoomInv, CommitInv
    <3>3. CASE pc[t] = "rv_wsa" /\ sockOpen = TRUE
      <4>1. RecvOwner(t) /\ RecvOwner(u)
        BY <3>1, <3>3, RoomOwner DEF RoomLabels
      <4> QED
        BY <1>3, <3>1, <3>3, <4>1
    <3> QED
      BY <3>2, <3>3 DEF FitMove
  <2> QED
    BY <2>1, <2>2 DEF CommitInv
<1>6. recvBuf' <= RecvCapacity
  BY <1>0, <1>1 DEF RoomInv, FitInv
<1>7. ASSUME sockOpen' = TRUE, NEW u \in Threads, pc'[u] \in RoomLabels, isZeroByte' = FALSE
      PROVE  recvBuf' < RecvCapacity
  <2>1. sockOpen = TRUE /\ PostRoom
    BY <1>2, <1>7 DEF RoomInv, FitInv
  <2>2. \A v \in Threads : pc[v] \in RoomLabels /\ isZeroByte = FALSE => recvBuf < RecvCapacity
    BY <2>1 DEF PostRoom
  <2>3. CASE u = t
    <3>1. recvBuf' < RecvCapacity \/ (pc[t] \in RoomLabels /\ isZeroByte = FALSE)
      BY <1>7, <2>3 DEF FitMove
    <3>2. CASE pc[t] \in RoomLabels /\ isZeroByte = FALSE
      <4>1. recvBuf < RecvCapacity
        BY <2>2, <3>2
      <4> QED
        BY <1>0, <1>1, <4>1
    <3> QED
      BY <3>1, <3>2
  <2>4. CASE u # t
    <3>1. pc[u] \in RoomLabels
      BY <1>7, <2>4 DEF OnlyMoves
    <3>2. RecvOwner(u)
      BY <3>1, RoomOwner
    <3>3. ~RecvOwner(t)
      BY <1>3, <2>1, <2>4, <3>2
    <3>4. isZeroByte = FALSE
      BY <1>7, <3>3 DEF FitMove
    <3>5. recvBuf < RecvCapacity
      BY <2>2, <3>1, <3>4
    <3> QED
      BY <1>0, <1>1, <3>5
  <2> QED
    BY <2>3, <2>4
<1>8. ASSUME NEW i \in DOMAIN kRecv', kRecv'[i] = FALSE PROVE recvBuf' < RecvCapacity
  <2>1. recvBuf < RecvCapacity
    <3>1. CASE kRecv' = kRecv
      BY <1>8, <3>1 DEF RoomInv, FitInv
    <3>2. CASE kRecv' = Append(kRecv, isZeroByte) /\ pc[t] = "rv_wsa" /\ sockOpen = TRUE
      <4>1. (i \in DOMAIN kRecv /\ kRecv'[i] = kRecv[i]) \/ kRecv'[i] = isZeroByte
        BY <1>0, <1>8, <3>2
      <4>2. CASE i \in DOMAIN kRecv /\ kRecv'[i] = kRecv[i]
        BY <1>8, <4>2 DEF RoomInv, FitInv
      <4>3. CASE kRecv'[i] = isZeroByte
        <5>1. PostRoom
          BY <3>2 DEF RoomInv, FitInv
        <5> QED
          BY <1>8, <3>2, <4>3, <5>1 DEF PostRoom, RoomLabels
      <4> QED
        BY <4>1, <4>2, <4>3
    <3> QED
      BY <3>1, <3>2 DEF FitMove
  <2> QED
    BY <1>0, <1>1, <2>1
<1>9. ASSUME NEW i \in Queued("recv")' PROVE cq'[i].n = 0 \/ (cq'[i].n = 1 /\ recvBuf' < RecvCapacity)
  <2>1. i \in Queued("recv") /\ cq'[i] = cq[i]
    BY <1>1, <1>9 DEF Queued
  <2>2. cq[i].n = 0 \/ (cq[i].n = 1 /\ recvBuf < RecvCapacity)
    BY <2>1 DEF RoomInv, FitInv
  <2>3. recvBuf < RecvCapacity => recvBuf' < RecvCapacity
    BY <1>0, <1>1
  <2> QED
    BY <2>1, <2>2, <2>3
<1>10. ASSUME NEW u \in Threads, pc'[u] = "hr_commit" PROVE recvBuf' + comp'[u].n <= RecvCapacity
  <2>1. recvBuf + comp[u].n <= RecvCapacity
    BY <1>4, <1>10 DEF RoomInv, FitInv, CommitFits
  <2>2. comp'[u].n = comp[u].n /\ comp[u].n \in Nat
    BY <1>0, <1>1
  <2>3. recvBuf \in Nat /\ recvBuf' \in Nat /\ RecvCapacity \in Nat /\ recvBuf' <= recvBuf
    BY <1>0, <1>1
  <2> QED
    BY <2>1, <2>2, <2>3
<1>11. FitInv'
  BY <1>6, <1>7, <1>8, <1>9, <1>10 DEF FitInv, PostRoom, CommitFits
<1> QED
  BY <1>5, <1>11

(* CommitWrite uses the room of the only receive there is. *)
LEMMA CommitFit ==
    ASSUME RoomInv, NEW t \in Threads, OnlyMoves(t), RecvCommit(t)
    PROVE  CommitInv' /\ FitInv'
<1>0. /\ recvBuf \in Nat /\ RecvCapacity \in Nat /\ comp[t].n \in Nat
  BY BoundsAssumption DEF RoomInv, TokenInv, TypeOK, TypeData, TypeThreads, Completions
<1>1. /\ pc[t] = "hr_commit" /\ pc'[t] = "hr_check" /\ recvBuf' = recvBuf + comp[t].n
      /\ UNCHANGED <<isZeroByte, kRecv, cq, sockOpen, comp>>
  BY DEF RecvCommit, At, Goto, RoomInv, TokenInv, TypeOK, TypeThreads
<1>2. recvBuf' <= RecvCapacity
  BY <1>0, <1>1 DEF RoomInv, FitInv, CommitFits
<1>3. \A u \in Threads : pc'[u] # "hr_commit"
  BY <1>1 DEF OnlyMoves, RoomInv, CommitInv
<1>4. kRecv' = <<>> /\ Queued("recv")' = {}
  BY <1>1 DEF RoomInv, CommitInv, RecvPending, Queued
<1>5. sockOpen' = TRUE => \A u \in Threads : pc'[u] \notin RoomLabels
  <2> SUFFICES ASSUME sockOpen' = TRUE, NEW u \in Threads, pc'[u] \in RoomLabels PROVE FALSE
    OBVIOUS
  <2>1. u # t /\ pc[u] \in RoomLabels
    BY <1>1 DEF OnlyMoves, RoomLabels
  <2>2. RecvOwner(t) /\ RecvOwner(u)
    BY <1>1, <2>1, RoomOwner
  <2> QED
    BY <1>1, <2>1, <2>2 DEF RoomInv, TokenInv, RecvToken
<1>6. DOMAIN kRecv' = {}
  BY <1>4
<1> QED
  BY <1>2, <1>3, <1>4, <1>5, <1>6 DEF CommitInv, FitInv, PostRoom, CommitFits

(* The dispatch hands the room of a completed receive to its worker. *)
LEMMA DequeueFit ==
    ASSUME RoomInv, NEW t \in Threads, OnlyMoves(t), Dequeue(t)
    PROVE  CommitInv' /\ FitInv'
<1>0. TypeOK /\ recvBuf \in Nat /\ RecvCapacity \in Nat
  BY BoundsAssumption DEF RoomInv, TokenInv, TypeOK, TypeData
<1>1. /\ UNCHANGED <<recvBuf, isZeroByte, kRecv, sockOpen>>
      /\ cq # <<>> /\ cq' = Tail(cq) /\ comp'[t] = Head(cq)
      /\ pc'[t] = IF Head(cq).op = "recv" THEN RecvEntry(Head(cq)) ELSE "hs_clr"
      /\ \A u \in Threads \ {t} : comp'[u] = comp[u]
  BY <1>0 DEF Dequeue, Goto, TypeOK, TypeThreads
<1>2. pc'[t] \notin RoomLabels
  BY <1>1 DEF RecvEntry, RoomLabels
<1>3. \A i \in Queued("recv")' : i + 1 \in Queued("recv") /\ cq'[i] = cq[i + 1]
  <2>1. cq \in Seq(Completions)
    BY <1>0 DEF TypeOK, TypeKernel
  <2>2. \A i \in 1..(Len(cq) - 1) : cq'[i] = cq[i + 1]
    BY <1>1, <2>1
  <2>3. DOMAIN cq' = 1..(Len(cq) - 1)
    BY <1>1, <2>1
  <2> QED
    BY <1>0, <1>1, <2>2, <2>3, QueuedTail DEF Queued
<1>4. \A i \in Queued("recv")' : cq'[i].n = 0 \/ (cq'[i].n = 1 /\ recvBuf' < RecvCapacity)
  BY <1>1, <1>3 DEF RoomInv, FitInv
<1>5. sockOpen' = TRUE => PostRoom'
  BY <1>1, <1>2 DEF RoomInv, FitInv, PostRoom, OnlyMoves
<1>6. recvBuf' <= RecvCapacity /\ \A i \in DOMAIN kRecv' : kRecv'[i] = FALSE => recvBuf' < RecvCapacity
  BY <1>1 DEF RoomInv, FitInv
<1>7. CASE pc'[t] # "hr_commit"
  <2>1. \A u \in Threads : pc'[u] = "hr_commit" => pc[u] = "hr_commit" /\ u # t
    BY <1>7 DEF OnlyMoves
  <2>2. RecvPending' => RecvPending
    BY <1>1, <1>3 DEF RecvPending
  <2>3. CommitInv'
    BY <2>1, <2>2 DEF RoomInv, CommitInv
  <2>4. CommitFits'
    BY <1>1, <2>1 DEF RoomInv, FitInv, CommitFits
  <2> QED
    BY <1>4, <1>5, <1>6, <2>3, <2>4 DEF FitInv
<1>8. CASE pc'[t] = "hr_commit"
  <2>1. Head(cq).op = "recv" /\ Head(cq).n # 0
    BY <1>1, <1>8 DEF RecvEntry
  <2>2. 1 \in Queued("recv") /\ cq[1] = Head(cq)
    BY <1>0, <1>1, <2>1, QueuedTail
  <2>3. Head(cq).n = 1 /\ recvBuf < RecvCapacity
    BY <2>1, <2>2 DEF RoomInv, FitInv
  <2>4. \A u \in Threads : pc[u] # "hr_commit"
    BY <2>2 DEF RoomInv, CommitInv, RecvPending
  <2>5. \A u \in Threads : pc'[u] = "hr_commit" => u = t
    BY <2>4 DEF OnlyMoves
  <2>6. ~RecvPending'
    <3>1. \A i, j \in Queued("recv") : i = j
      BY DEF RoomInv, TokenInv, RecvToken, RecvSingle
    <3>2. Queued("recv")' = {}
      BY <1>0, <1>1, <2>2, <3>1, QueuedTail
    <3>3. kRecv' = <<>>
      BY <1>1, <2>2 DEF RoomInv, TokenInv, RecvToken, RecvSingle
    <3> QED
      BY <3>2, <3>3 DEF RecvPending
  <2>7. recvBuf' + comp'[t].n <= RecvCapacity
    BY <1>0, <1>1, <2>3
  <2>8. CommitInv' /\ CommitFits'
    BY <2>5, <2>6, <2>7 DEF CommitInv, CommitFits
  <2> QED
    BY <1>4, <1>5, <1>6, <2>8 DEF FitInv
<1> QED
  BY <1>7, <1>8

(* The end of a worker frees nothing and promises nothing. *)
LEMMA AbortedFit ==
    ASSUME RoomInv, NEW t \in Threads, OwnOK(t), WorkerAborted(t)
    PROVE  CommitInv' /\ FitInv'
<1>0. TypeOK
  BY DEF RoomInv, TokenInv
<1>1. /\ UNCHANGED <<recvBuf, isZeroByte, kRecv, sockOpen>>
      /\ OnlyMoves(t) /\ cq # <<>> /\ cq' = Tail(cq) /\ pc'[t] = "ended"
  BY <1>0, AbortedOwn
<1>2. \A i \in Queued("recv")' : i + 1 \in Queued("recv") /\ cq'[i] = cq[i + 1]
  <2>1. cq \in Seq(Completions)
    BY <1>0 DEF TypeOK, TypeKernel
  <2>2. \A i \in 1..(Len(cq) - 1) : cq'[i] = cq[i + 1]
    BY <1>1, <2>1
  <2>3. DOMAIN cq' = 1..(Len(cq) - 1)
    BY <1>1, <2>1
  <2> QED
    BY <1>0, <1>1, <2>2, <2>3, QueuedTail DEF Queued
<1>3. \A i \in Queued("recv")' : cq'[i].n = 0 \/ (cq'[i].n = 1 /\ recvBuf' < RecvCapacity)
  BY <1>1, <1>2 DEF RoomInv, FitInv
<1>4. \A u \in Threads : pc'[u] = "hr_commit" => pc[u] = "hr_commit" /\ comp'[u] = comp[u]
  BY <1>1 DEF OnlyMoves
<1>5. RecvPending' => RecvPending
  BY <1>1, <1>2 DEF RecvPending
<1>6. CommitInv'
  BY <1>4, <1>5 DEF RoomInv, CommitInv
<1>7. CommitFits'
  BY <1>1, <1>4 DEF RoomInv, FitInv, CommitFits
<1>8. sockOpen' = TRUE => PostRoom'
  BY <1>1 DEF RoomInv, FitInv, PostRoom, OnlyMoves, RoomLabels
<1>9. recvBuf' <= RecvCapacity /\ \A i \in DOMAIN kRecv' : kRecv'[i] = FALSE => recvBuf' < RecvCapacity
  BY <1>1 DEF RoomInv, FitInv
<1> QED
  BY <1>3, <1>6, <1>7, <1>8, <1>9 DEF FitInv

(* The kernel completes a real receive with one unit, for which there is room. *)
LEMMA KernelFit ==
    ASSUME RoomInv, Kernel
    PROVE  CommitInv' /\ FitInv'
<1>0. TypeOK /\ kRecv \in Seq(BOOLEAN) /\ cq \in Seq(Completions)
  BY DEF RoomInv, TokenInv, TypeOK, TypeKernel
<1>1. UNCHANGED <<recvBuf, isZeroByte, sockOpen, pc, comp>>
  BY Zenon DEF Kernel, KernelRecvOk, KernelRecvEnd, KernelSendOk, KernelSendEnd
<1>2. /\ recvBuf' <= RecvCapacity /\ CommitFits' /\ (sockOpen' = TRUE => PostRoom')
      /\ (RecvPending' => RecvPending) => CommitInv'
  BY <1>1 DEF RoomInv, FitInv, CommitFits, PostRoom, CommitInv
<1>3. ASSUME NEW c, cq' = Append(cq, c)
      PROVE  /\ DOMAIN cq' = DOMAIN cq \cup {Len(cq) + 1} /\ cq'[Len(cq) + 1] = c
             /\ \A i \in DOMAIN cq : cq'[i] = cq[i]
  BY <1>0, <1>3
<1>4. CASE KernelSendOk \/ KernelSendEnd
  <2>1. PICK c : cq' = Append(cq, c) /\ c.op = "send"
    BY <1>4, KernelPosts
  <2>2. kRecv' = kRecv
    BY <1>4, Zenon DEF KernelSendOk, KernelSendEnd
  <2>3. Queued("recv")' = Queued("recv")
    BY <1>0, <2>1, QueuedAppend
  <2>4. \A i \in Queued("recv")' : cq'[i] = cq[i]
    BY <1>3, <2>1, <2>3 DEF Queued
  <2>5. RecvPending' => RecvPending
    BY <2>2, <2>3 DEF RecvPending
  <2> QED
    BY <1>1, <1>2, <2>2, <2>3, <2>4, <2>5 DEF FitInv, RoomInv
<1>5. CASE KernelRecvOk \/ KernelRecvEnd
  <2>1. kRecv # <<>> /\ kRecv' = Tail(kRecv)
    BY <1>5, Zenon DEF KernelRecvOk, KernelRecvEnd
  <2>2. kRecv' = <<>>
    BY <1>0, <2>1, TailOne DEF RoomInv, TokenInv, RecvToken, RecvSingle
  <2>3. PICK c : /\ cq' = Append(cq, c) /\ c.op = "recv"
                 /\ c.n = 0 \/ (c.n = 1 /\ kRecv[1] = FALSE)
    <3>1. CASE KernelRecvOk
      <4>1. cq' = Append(cq, [op |-> "recv", ok |-> TRUE, n |-> IF Head(kRecv) THEN 0 ELSE 1])
        BY <3>1, Zenon DEF KernelRecvOk, Complete
      <4>2. kRecv[1] = Head(kRecv) /\ kRecv[1] \in BOOLEAN
        BY <1>0, <2>1
      <4>3. CASE Head(kRecv) = TRUE
        <5>1. cq' = Append(cq, [op |-> "recv", ok |-> TRUE, n |-> 0])
          <6>1. (IF Head(kRecv) THEN 0 ELSE 1) = 0
            BY <4>3, Zenon
          <6> QED
            BY <4>1, <6>1, Zenon
        <5> QED
          BY <5>1
      <4>4. CASE Head(kRecv) = FALSE
        <5>1. cq' = Append(cq, [op |-> "recv", ok |-> TRUE, n |-> 1])
          <6>1. (IF Head(kRecv) THEN 0 ELSE 1) = 1
            BY <4>4, Zenon
          <6> QED
            BY <4>1, <6>1, Zenon
        <5>2. kRecv[1] = FALSE
          BY <4>2, <4>4, Zenon
        <5> QED
          BY <5>1, <5>2
      <4> QED
        BY <4>2, <4>3, <4>4
    <3>2. CASE KernelRecvEnd
      <4>1. PICK ok \in BOOLEAN : cq' = Append(cq, [op |-> "recv", ok |-> ok, n |-> 0])
        BY <3>2, Zenon DEF KernelRecvEnd, Complete
      <4> QED
        BY <4>1
    <3> QED
      BY <1>5, <3>1, <3>2
  <2>4. Queued("recv")' = {Len(cq) + 1}
    BY <1>0, <2>1, <2>3, QueuedAppend DEF RoomInv, TokenInv, RecvToken, RecvSingle
  <2>5. cq'[Len(cq) + 1] = c
    BY <1>3, <2>3
  <2>6. kRecv[1] = FALSE => recvBuf < RecvCapacity
    <3>1. 1 \in DOMAIN kRecv
      BY <1>0, <2>1
    <3> QED
      BY <3>1 DEF RoomInv, FitInv
  <2>7. \A i \in Queued("recv")' : cq'[i].n = 0 \/ (cq'[i].n = 1 /\ recvBuf' < RecvCapacity)
    BY <1>1, <2>3, <2>4, <2>5, <2>6
  <2>8. RecvPending
    BY <2>1 DEF RecvPending
  <2>9. DOMAIN kRecv' = {}
    BY <2>2
  <2> QED
    BY <1>2, <2>7, <2>8, <2>9 DEF FitInv
<1> QED
  BY <1>4, <1>5, Zenon DEF Kernel

(* Every step keeps the room. *)
LEMMA NextRoom == RoomInv /\ [Next]_vars => RoomInv'
<1> SUFFICES ASSUME RoomInv, [Next]_vars PROVE RoomInv'
  OBVIOUS
<1>0. TypeOK /\ ThreadInv /\ DiscInv /\ TokenInv /\ TokenInv' /\ TypeOK' /\ recvBuf <= RecvCapacity
  BY NextToken DEF RoomInv, TokenInv, FitInv
<1>1. ASSUME NEW t \in Threads, Running(t) PROVE CommitInv' /\ FitInv'
  <2>1. OwnOK(t) /\ OnlyMoves(t)
    BY <1>0, <1>1, RunOwn DEF ThreadInv
  <2>2. CASE RecvCommit(t)
    BY <2>1, <2>2, CommitFit
  <2>3. CASE ~RecvCommit(t)
    <3>1. FitMove(t) /\ DiscMove(t)
      BY <1>0, <1>1, <2>1, <2>3, RunFit, RunDisc
    <3> QED
      BY <1>0, <2>1, <3>1, MoveFit
  <2> QED
    BY <2>2, <2>3
<1>2. ASSUME NEW t \in Threads, SendStart(t) \/ TickSnapshot(t) PROVE CommitInv' /\ FitInv'
  <2>1. OnlyMoves(t) /\ DiscMove(t)
    BY <1>0, <1>2, StartOwn, StartMoves DEF ThreadInv
  <2>2. FitMove(t)
    <3>1. pc'[t] \in {"sm_check", "tick"}
      BY <1>0, <1>2 DEF SendStart, TickSnapshot, Branch, Goto, TypeOK, TypeThreads
    <3>2. UNCHANGED <<recvBuf, isZeroByte, comp, kRecv, cq>> /\ recvBuf \in Nat
      BY <1>0, <1>2 DEF SendStart, TickSnapshot, Branch, TypeOK, TypeData
    <3> QED
      BY <3>1, <3>2 DEF FitMove, RoomLabels
  <2> QED
    BY <1>0, <2>1, <2>2, MoveFit
<1>3. ASSUME NEW t \in Threads, Dequeue(t) PROVE CommitInv' /\ FitInv'
  <2>1. OnlyMoves(t)
    BY <1>0, <1>3, StartOwn DEF ThreadInv
  <2> QED
    BY <1>3, <2>1, DequeueFit
<1>7. ASSUME NEW t \in Threads, WorkerAborted(t) PROVE CommitInv' /\ FitInv'
  BY <1>0, <1>7, AbortedFit DEF ThreadInv
<1>4. ASSUME Kernel PROVE CommitInv' /\ FitInv'
  BY <1>4, KernelFit
<1>5. ASSUME UNCHANGED vars PROVE CommitInv' /\ FitInv'
  <2>1. CommitInv'
    BY <1>5 DEF vars, RoomInv, CommitInv, RecvPending, Queued
  <2>2. FitInv'
    BY <1>5 DEF vars, RoomInv, FitInv, PostRoom, CommitFits, Queued
  <2> QED
    BY <2>1, <2>2
<1>6. CommitInv' /\ FitInv'
  BY <1>1, <1>2, <1>3, <1>4, <1>5, <1>7 DEF Next
<1> QED
  BY <1>0, <1>6 DEF RoomInv

(* CommitWrite never fails, for every number of threads and every buffer    *)
(* size: a real receive is posted for free space only, and no second        *)
(* receive can fill that space before it is committed, also when a          *)
(* disconnect lets a second thread take the in-progress flag.               *)
THEOREM CommitAlwaysFits == Spec => []CommitFits
<1>1. Init => RoomInv
  <2> SUFFICES ASSUME Init PROVE RoomInv
    OBVIOUS
  <2>1. /\ recvBuf = 0 /\ kRecv = <<>> /\ cq = <<>> /\ RecvCapacity \in Nat \ {0}
        /\ \A t \in Threads : pc[t] \in {"acc_add", "wait"}
    BY BoundsAssumption DEF Init
  <2>2. CommitInv
    BY <2>1 DEF CommitInv
  <2>3. Queued("recv") = {} /\ DOMAIN kRecv = {}
    BY <2>1 DEF Queued
  <2>4. FitInv
    BY <2>1, <2>3 DEF FitInv, PostRoom, CommitFits, RoomLabels
  <2> QED
    BY <2>2, <2>4, InitToken DEF RoomInv
<1>2. RoomInv /\ [Next]_vars => RoomInv'
  BY NextRoom
<1>3. RoomInv => CommitFits
  BY DEF RoomInv, FitInv
<1> QED
  BY <1>1, <1>2, <1>3, PTL DEF Spec
=============================================================================
