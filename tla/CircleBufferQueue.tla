------------------------- MODULE CircleBufferQueue -------------------------
(***************************************************************************)
(* LibCommons/CircleBufferQueue.ixx: the ring of bytes behind the send and *)
(* the receive buffer of an IOCP session.  Every member function runs      *)
(* under m_RWLock, so one call is one step; what is concurrent are its     *)
(* users, who keep spans into the ring after the lock is released:         *)
(*   - a writer that reserved room with AllocateWrite and fills it later   *)
(*     (IOSession::SendMessage), one span list per writer in reserved;     *)
(*   - the pending WSASend that reads the spans of GetReadBuffers until    *)
(*     the completion calls Consume, in view;                              *)
(*   - the pending WSARecv that writes the spans of GetWriteableBuffers    *)
(*     until the completion calls CommitWrite, in window.                  *)
(* A span list is the sequence of the ring positions it covers.            *)
(*                                                                         *)
(* The users' discipline is in the guards marked "user": the readable part *)
(* is sent, popped or cleared only when it holds no unfilled reservation,  *)
(* and a buffer that receives directly has no other producer.              *)
(***************************************************************************)
EXTENDS Integers, Sequences, FiniteSets

CONSTANTS
    Byte, Zero,   \* bytes, and the one m_Buffer.resize fills with
    Writers,      \* threads that call AllocateWrite
    m_Capacity

ASSUME CapacityAssumption == m_Capacity \in Nat \ {0}
ASSUME CellsAssumption == Zero \in Byte /\ Byte \cap Writers = {}

VARIABLES m_Buffer, m_Head, m_Tail, m_Size,
          reserved, view, window, arrived, out

ring  == <<m_Buffer, m_Head, m_Tail, m_Size>>
users == <<reserved, view, window, arrived>>
vars  == <<ring, users, out>>

Index    == 0..(m_Capacity - 1)
Bytes(n) == [1..n -> Byte]
Least(a, b) == IF a < b THEN a ELSE b

(* The n positions from start, in the two parts the code makes of them. *)
Spans(start, n) ==
    LET firstPart == Least(n, m_Capacity - start)
    IN  [i \in 1..n |-> IF i <= firstPart THEN start + i - 1 ELSE i - firstPart - 1]

(* Positions covered by a span list. *)
Covers(spans) == {spans[i] : i \in DOMAIN spans}

(* The memcpy of s into the first Len(s) positions of spans. *)
Stored(spans, s) ==
    [k \in Index |-> IF \E i \in DOMAIN s : spans[i] = k
                       THEN s[CHOOSE i \in DOMAIN s : spans[i] = k]
                       ELSE m_Buffer[k]]

(* The bytes a memcpy out of spans gives. *)
Loaded(spans) == [i \in DOMAIN spans |-> m_Buffer[spans[i]]]

Result(ok, s) == out' = [ok |-> ok, bytes |-> s]

MoveHead(n) == m_Head' = (m_Head + n) % m_Capacity /\ m_Size' = m_Size + n
MoveTail(n) == m_Tail' = (m_Tail + n) % m_Capacity /\ m_Size' = m_Size - n

Idle == view = <<>> /\ window = <<>>
Filled(n) == \A w \in Writers : Covers(reserved[w]) \cap Covers(Spans(m_Tail, n)) = {}

Init ==
    /\ m_Buffer = [k \in Index |-> Zero]
    /\ m_Head = 0 /\ m_Tail = 0 /\ m_Size = 0
    /\ reserved = [w \in Writers |-> <<>>]
    /\ view = <<>> /\ window = <<>> /\ arrived = <<>>
    /\ out = [ok |-> TRUE, bytes |-> <<>>]

-----------------------------------------------------------------------------
Write(s) ==
    /\ window = <<>>                       \* user
    /\ m_Capacity - m_Size >= Len(s)
    /\ m_Buffer' = Stored(Spans(m_Head, Len(s)), s)
    /\ MoveHead(Len(s))
    /\ Result(TRUE, <<>>)
    /\ UNCHANGED <<m_Tail, users>>

(* Write, AllocateWrite and CommitWrite refuse what does not fit. *)
WriteRefused(n) ==
    /\ m_Capacity - m_Size < n
    /\ Result(FALSE, <<>>)
    /\ UNCHANGED <<ring, users>>

(* Mutant: the second part is read on from where the first one began. *)
PopNoWrap(n) ==
    /\ view = <<>> /\ Filled(n)
    /\ m_Size >= n
    /\ LET firstPart == Least(n, m_Capacity - m_Tail) IN
       Result(TRUE, [i \in 1..n |-> m_Buffer[IF i <= firstPart THEN m_Tail + i - 1
                                             ELSE m_Tail + i - 1 - firstPart]])
    /\ MoveTail(n)
    /\ UNCHANGED <<m_Buffer, m_Head, users>>

Pop(n) ==
    /\ view = <<>> /\ Filled(n)            \* user
    /\ m_Size >= n
    /\ Result(TRUE, Loaded(Spans(m_Tail, n)))
    /\ MoveTail(n)
    /\ UNCHANGED <<m_Buffer, m_Head, users>>

Peek(n) ==
    /\ m_Size >= n
    /\ Result(TRUE, Loaded(Spans(m_Tail, n)))
    /\ UNCHANGED <<ring, users>>

(* Pop, Peek and Consume refuse what is not there. *)
ReadRefused(n) ==
    /\ m_Size < n
    /\ Result(FALSE, <<>>)
    /\ UNCHANGED <<ring, users>>

(* The spans of the send: each position with the byte it holds now. *)
GetReadBuffers ==
    /\ Idle /\ Filled(m_Size)              \* user
    /\ m_Size # 0
    /\ view' = [i \in 1..m_Size |-> [at |-> Spans(m_Tail, m_Size)[i],
                                     byte |-> Loaded(Spans(m_Tail, m_Size))[i]]]
    /\ UNCHANGED <<ring, reserved, window, arrived, out>>

Consume(n) ==
    /\ view # <<>> /\ n <= Len(view)       \* user
    /\ m_Size >= n
    /\ MoveTail(n)
    /\ view' = <<>>
    /\ Result(TRUE, <<>>)
    /\ UNCHANGED <<m_Buffer, m_Head, reserved, window, arrived>>

(* Mutant: accepts one byte more than the free space. *)
AllocateWriteOneMore(w, n) ==
    /\ window = <<>> /\ reserved[w] = <<>>
    /\ m_Capacity - m_Size + 1 >= n
    /\ reserved' = [reserved EXCEPT ![w] = Spans(m_Head, n)]
    /\ MoveHead(n)
    /\ Result(TRUE, <<>>)
    /\ UNCHANGED <<m_Buffer, m_Tail, view, window, arrived>>

(* Mutant: reserves without moving the head. *)
AllocateWriteHeadStays(w, n) ==
    /\ window = <<>> /\ reserved[w] = <<>>
    /\ m_Capacity - m_Size >= n
    /\ reserved' = [reserved EXCEPT ![w] = Spans(m_Head, n)]
    /\ m_Size' = m_Size + n
    /\ Result(TRUE, <<>>)
    /\ UNCHANGED <<m_Buffer, m_Head, m_Tail, view, window, arrived>>

AllocateWrite(w, n) ==
    /\ window = <<>> /\ reserved[w] = <<>> \* user
    /\ m_Capacity - m_Size >= n
    /\ reserved' = [reserved EXCEPT ![w] = Spans(m_Head, n)]
    /\ MoveHead(n)
    /\ Result(TRUE, <<>>)
    /\ UNCHANGED <<m_Buffer, m_Tail, view, window, arrived>>

(* The writer serializes its message into the spans it was given. *)
Fill(w, s) ==
    /\ reserved[w] # <<>> /\ Len(s) = Len(reserved[w])
    /\ m_Buffer' = Stored(reserved[w], s)
    /\ reserved' = [reserved EXCEPT ![w] = <<>>]
    /\ UNCHANGED <<m_Head, m_Tail, m_Size, view, window, arrived, out>>

(* Mutant: hands out everything from the head on, free or not. *)
GetWriteableBuffersAll ==
    /\ Idle /\ \A w \in Writers : reserved[w] = <<>>
    /\ m_Capacity - m_Size # 0
    /\ window' = Spans(m_Head, m_Capacity)
    /\ UNCHANGED <<ring, reserved, view, arrived, out>>

GetWriteableBuffers ==
    /\ Idle /\ \A w \in Writers : reserved[w] = <<>>   \* user
    /\ m_Capacity - m_Size # 0
    /\ window' = Spans(m_Head, m_Capacity - m_Size)
    /\ UNCHANGED <<ring, reserved, view, arrived, out>>

(* The kernel fills a prefix of the window of the pending WSARecv. *)
Arrive(s) ==
    /\ window # <<>> /\ arrived = <<>> /\ Len(s) \in 1..Len(window)
    /\ m_Buffer' = Stored(window, s)
    /\ arrived' = s
    /\ UNCHANGED <<m_Head, m_Tail, m_Size, reserved, view, window, out>>

CommitWrite ==
    /\ arrived # <<>>
    /\ m_Capacity - m_Size >= Len(arrived)
    /\ MoveHead(Len(arrived))
    /\ window' = <<>> /\ arrived' = <<>>
    /\ Result(TRUE, <<>>)
    /\ UNCHANGED <<m_Buffer, m_Tail, reserved, view>>

(* Mutant: leaves the tail where it was. *)
ClearKeepsTail ==
    /\ Idle /\ \A w \in Writers : reserved[w] = <<>>
    /\ m_Head' = 0 /\ m_Size' = 0
    /\ Result(TRUE, <<>>)
    /\ UNCHANGED <<m_Buffer, m_Tail, users>>

Clear ==
    /\ Idle /\ \A w \in Writers : reserved[w] = <<>>   \* user
    /\ m_Head' = 0 /\ m_Tail' = 0 /\ m_Size' = 0
    /\ Result(TRUE, <<>>)
    /\ UNCHANGED <<m_Buffer, users>>

Next ==
    \/ \E n \in 0..m_Capacity :
         \/ Pop(n) \/ Peek(n) \/ Consume(n) \/ ReadRefused(n) \/ WriteRefused(n)
         \/ \E w \in Writers : AllocateWrite(w, n)
         \/ \E s \in Bytes(n) : Write(s) \/ Arrive(s) \/ (\E w \in Writers : Fill(w, s))
    \/ GetReadBuffers \/ GetWriteableBuffers \/ CommitWrite \/ Clear

Spec == Init /\ [][Next]_vars

-----------------------------------------------------------------------------
(* Every index stays inside the ring and the size inside the capacity, so   *)
(* that no memcpy leaves m_Buffer.                                          *)
TypeOK ==
    /\ m_Buffer \in [Index -> Byte]
    /\ m_Head \in Index /\ m_Tail \in Index /\ m_Size \in 0..m_Capacity
    /\ reserved \in [Writers -> Seq(Index)]
    /\ view \in Seq([at : Index, byte : Byte])
    /\ window \in Seq(Index)
    /\ arrived \in Seq(Byte)
    /\ out \in [ok : BOOLEAN, bytes : Seq(Byte)]

(* The head is m_Size past the tail, whatever the mix of copying, reserving *)
(* and direct calls that moved them.                                        *)
RingOK == m_Head = (m_Tail + m_Size) % m_Capacity

(* No byte is handed to two users that write at the same time, and none of  *)
(* them is outside what it was given: reservations lie in the used part,    *)
(* the receive window in the free part.                                     *)
SpansDisjoint ==
    /\ \A v, w \in Writers : v # w => Covers(reserved[v]) \cap Covers(reserved[w]) = {}
    /\ \A w \in Writers : Covers(reserved[w]) \subseteq Covers(Spans(m_Tail, m_Size))
    /\ Covers(window) \cap Covers(Spans(m_Tail, m_Size)) = {}

(* The spans of GetReadBuffers stay valid until Consume (IBuffer.ixx:27):   *)
(* what a pending send reads does not change under it, while other threads  *)
(* reserve, fill and write.                                                 *)
ViewStable == \A i \in DOMAIN view : m_Buffer[view[i].at] = view[i].byte

(* CommitWrite finds room for everything the kernel delivered (the branch   *)
(* at CircleBufferQueue.ixx:249 that "must not happen").                    *)
CommitFits == Len(arrived) <= m_Capacity - m_Size

(* The queue the ring stands for: a reserved position is its writer's cell. *)
Cells ==
    [i \in 1..m_Size |->
        LET k == Spans(m_Tail, m_Size)[i]
        IN  IF \E w \in Writers : k \in Covers(reserved[w])
              THEN CHOOSE w \in Writers : k \in Covers(reserved[w])
              ELSE m_Buffer[k]]

BQ == INSTANCE ByteQueue WITH q <- Cells, Capacity <- m_Capacity

(* The ring implements the bounded byte queue IBuffer promises: bytes come  *)
(* out in the order they went in, across the wrap-around and however        *)
(* reservations are filled.                                                 *)
ImplementsByteQueue == BQ!Spec
=============================================================================
