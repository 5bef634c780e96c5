---------------------- MODULE CircleBufferQueueProofs ----------------------
(***************************************************************************)
(* Proofs about CircleBufferQueue, for every capacity, every set of bytes  *)
(* and every number of writers: the ring stays consistent, the users' spans *)
(* never collide, what a pending send reads does not change, and the ring  *)
(* implements ByteQueue.                                                   *)
(***************************************************************************)
EXTENDS CircleBufferQueue, SequenceTheorems, FiniteSetTheorems, TLAPS

(* How far position k is behind the tail. *)
Off(k) == IF k >= m_Tail THEN k - m_Tail ELSE k + m_Capacity - m_Tail

(* Reservations lie past what is being sent and before the head. *)
ReservedInv ==
    /\ \A w \in Writers : \A k \in Covers(reserved[w]) : Len(view) <= Off(k) /\ Off(k) < m_Size
    /\ \A v, w \in Writers : v # w => Covers(reserved[v]) \cap Covers(reserved[w]) = {}

(* The spans being sent are the first ones behind the tail. *)
ViewInv ==
    /\ Len(view) <= m_Size
    /\ \A i \in DOMAIN view : Off(view[i].at) = i - 1
    /\ ViewStable

(* The receive window is free, fits, and has no competitor. *)
WindowInv ==
    /\ \A k \in Covers(window) : m_Size <= Off(k)
    /\ Len(window) <= m_Capacity - m_Size
    /\ Len(arrived) <= Len(window)
    /\ window # <<>> => view = <<>> /\ \A w \in Writers : reserved[w] = <<>>

RingInv == TypeOK /\ RingOK /\ ReservedInv /\ ViewInv /\ WindowInv

-----------------------------------------------------------------------------
(* Arithmetic of the ring. *)

(* A modulus of less than two laps. *)
Wrap(x) == IF x < m_Capacity THEN x ELSE x - m_Capacity

(* What the code computes with % is the wrap. *)
LEMMA ModFacts == \A x \in Nat : x < 2 * m_Capacity => x % m_Capacity = Wrap(x)
<1> SUFFICES ASSUME NEW x \in Nat, x < 2 * m_Capacity PROVE x % m_Capacity = Wrap(x)
  OBVIOUS
<1>1. m_Capacity \in Nat \ {0}
  BY CapacityAssumption
<1>2. CASE x < m_Capacity
  BY <1>1, <1>2 DEF Wrap
<1>3. CASE x >= m_Capacity
  BY <1>1, <1>3 DEF Wrap
<1> QED
  BY <1>1, <1>2, <1>3

(* A position plus a size is less than two laps. *)
LEMMA TwoLaps ==
    \A x \in Index, y \in 0..m_Capacity : x + y \in Nat /\ x + y < 2 * m_Capacity
BY CapacityAssumption DEF Index

(* The parts the code splits a span list into are the positions from start *)
(* on, going round the ring.                                               *)
LEMMA SpanFacts ==
    ASSUME NEW start \in Index, NEW n \in 0..m_Capacity
    PROVE  /\ Spans(start, n) \in Seq(Index) /\ Len(Spans(start, n)) = n
           /\ DOMAIN Spans(start, n) = 1..n
           /\ \A i \in 1..n :
                 Spans(start, n)[i] = Wrap(start + i - 1)
<1> USE CapacityAssumption
<1>1. \A i \in 1..n :
        /\ Spans(start, n)[i] = Wrap(start + i - 1)
        /\ Spans(start, n)[i] \in Index
  BY DEF Spans, Least, Index, Wrap
<1>2. DOMAIN Spans(start, n) = 1..n /\ Spans(start, n) \in [1..n -> Index]
  BY <1>1 DEF Spans
<1>3. Spans(start, n) \in Seq(Index) /\ Len(Spans(start, n)) = n
  BY <1>2
<1> QED
  BY <1>1, <1>2, <1>3

(* The head without the modulus. *)
LEMMA HeadFacts ==
    ASSUME TypeOK, RingOK
    PROVE  m_Head = Wrap(m_Tail + m_Size)
<1>1. m_Tail + m_Size \in Nat /\ m_Tail + m_Size < 2 * m_Capacity
  BY CapacityAssumption DEF TypeOK, Index
<1> QED
  BY <1>1, ModFacts DEF RingOK

(* The spans behind the head start m_Size behind the tail, those behind the *)
(* tail at it.                                                              *)
LEMMA OffFacts ==
    ASSUME TypeOK, RingOK, NEW n \in 0..m_Capacity
    PROVE  /\ m_Size + n <= m_Capacity =>
                 \A i \in 1..n : Off(Spans(m_Head, n)[i]) = m_Size + i - 1
           /\ \A i \in 1..n : Off(Spans(m_Tail, n)[i]) = i - 1
           /\ \A k \in Index : Off(k) \in Index
           /\ \A k \in Index : Off(k) < n => k \in Covers(Spans(m_Tail, n))
<1> USE CapacityAssumption
<1>0. /\ m_Head \in Index /\ m_Tail \in Index /\ m_Size \in 0..m_Capacity
      /\ m_Head = Wrap(m_Tail + m_Size)
  BY HeadFacts DEF TypeOK
<1>1. ASSUME m_Size + n <= m_Capacity, NEW i \in 1..n
      PROVE  Off(Spans(m_Head, n)[i]) = m_Size + i - 1
  <2>1. Spans(m_Head, n)[i] = Wrap(m_Head + i - 1)
    BY <1>0, SpanFacts
  <2> QED
    BY <1>0, <1>1, <2>1 DEF Off, Index, Wrap
<1>2. ASSUME NEW i \in 1..n PROVE Off(Spans(m_Tail, n)[i]) = i - 1
  <2>1. Spans(m_Tail, n)[i] = Wrap(m_Tail + i - 1)
    BY <1>0, SpanFacts
  <2> QED
    BY <1>0, <2>1 DEF Off, Index, Wrap
<1>3. \A k \in Index : Off(k) \in Index
  BY DEF Off, TypeOK, Index
<1>4. ASSUME NEW k \in Index, Off(k) < n PROVE k \in Covers(Spans(m_Tail, n))
  <2>1. Off(k) + 1 \in 1..n
    BY <1>3, <1>4 DEF Index
  <2>2. Spans(m_Tail, n)[Off(k) + 1] = Wrap(m_Tail + (Off(k) + 1) - 1)
    BY <1>0, <2>1, SpanFacts
  <2>3. Spans(m_Tail, n)[Off(k) + 1] = k
    BY <1>0, <2>2 DEF Off, Index, Wrap
  <2> QED
    BY <1>0, <2>1, <2>3, SpanFacts DEF Covers
<1> QED
  BY <1>1, <1>2, <1>3, <1>4

(* The spans behind the head are not in use. *)
LEMMA FreeSpans ==
    ASSUME TypeOK, RingOK, NEW n \in 0..m_Capacity, m_Capacity - m_Size >= n
    PROVE  \A k \in Covers(Spans(m_Head, n)) : k \in Index /\ m_Size <= Off(k) /\ Off(k) < m_Size + n
<1>1. m_Head \in Index /\ m_Size \in 0..m_Capacity /\ m_Capacity \in Nat
  BY CapacityAssumption DEF TypeOK
<1>2. Spans(m_Head, n) \in Seq(Index) /\ DOMAIN Spans(m_Head, n) = 1..n
  BY <1>1, SpanFacts
<1>3. \A i \in 1..n : Off(Spans(m_Head, n)[i]) = m_Size + i - 1
  BY <1>1, OffFacts
<1>4. \A i \in 1..n : Spans(m_Head, n)[i] \in Index
  BY <1>2
<1> QED
  BY <1>1, <1>2, <1>3, <1>4 DEF Covers

(* Moving the head keeps it m_Size past the tail. *)
LEMMA HeadMoves ==
    ASSUME TypeOK, RingOK, NEW n \in Nat, m_Capacity - m_Size >= n, MoveHead(n), m_Tail' = m_Tail
    PROVE  m_Head' \in Index /\ m_Size' \in 0..m_Capacity /\ RingOK'
<1> USE CapacityAssumption
<1>1. m_Head + n \in Nat /\ m_Head + n < 2 * m_Capacity
  BY DEF TypeOK, Index
<1>2. m_Tail + m_Size + n \in Nat /\ m_Tail + m_Size + n < 2 * m_Capacity
  BY DEF TypeOK, Index
<1>3. m_Head' \in Index /\ m_Size' \in 0..m_Capacity
  BY <1>1, ModFacts DEF MoveHead, TypeOK, Index, Wrap
<1>4. (m_Head + n) % m_Capacity = (m_Tail + m_Size + n) % m_Capacity
  <2>1. (m_Head + n) % m_Capacity = Wrap(m_Head + n)
    BY <1>1, ModFacts
  <2>2. (m_Tail + m_Size + n) % m_Capacity = Wrap(m_Tail + m_Size + n)
    BY <1>2, ModFacts
  <2> QED
    <3>1. /\ m_Tail \in Nat /\ m_Tail < m_Capacity /\ m_Size \in Nat
          /\ m_Size + n <= m_Capacity /\ m_Head = Wrap(m_Tail + m_Size)
      BY HeadFacts DEF TypeOK, Index
    <3> QED
      BY <2>1, <2>2, <3>1 DEF Wrap
<1> QED
  BY <1>3, <1>4 DEF MoveHead, RingOK, TypeOK, Index

(* Moving the tail keeps the head m_Size past it, and every position that  *)
(* stays in use comes n closer.                                            *)
LEMMA TailMoves ==
    ASSUME TypeOK, RingOK, NEW n \in Nat, m_Size >= n, MoveTail(n), m_Head' = m_Head
    PROVE  /\ m_Tail' \in Index /\ m_Size' \in 0..m_Capacity /\ RingOK'
           /\ \A k \in Index : Off(k) >= n => Off(k)' = Off(k) - n
<1> USE CapacityAssumption
<1>1. m_Tail + n \in Nat /\ m_Tail + n < 2 * m_Capacity
  BY DEF TypeOK, Index
<1>2. m_Tail' = Wrap(m_Tail + n)
  BY <1>1, ModFacts DEF MoveTail
<1>3. m_Tail' \in Index /\ m_Size' \in 0..m_Capacity
  BY <1>2 DEF MoveTail, TypeOK, Index, Wrap
<1>4. m_Tail' + m_Size' \in Nat /\ m_Tail' + m_Size' < 2 * m_Capacity
  BY <1>3, TwoLaps
<1>5. m_Head = (m_Tail' + m_Size') % m_Capacity
  <2>1. (m_Tail' + m_Size') % m_Capacity = Wrap(m_Tail' + m_Size')
    BY <1>4, ModFacts
  <2>2. m_Size' = m_Size - n /\ m_Size \in 0..m_Capacity /\ m_Tail \in Index
    BY DEF MoveTail, TypeOK
  <2>3. m_Head = Wrap(m_Tail + m_Size)
    BY HeadFacts
  <2> QED
    BY <1>2, <2>1, <2>2, <2>3 DEF Index, Wrap
<1>6. ASSUME NEW k \in Index, Off(k) >= n PROVE Off(k)' = Off(k) - n
  <2>1. m_Tail \in Index /\ m_Size \in 0..m_Capacity
    BY DEF TypeOK
  <2>2. Off(k)' = IF k >= m_Tail' THEN k - m_Tail' ELSE k + m_Capacity - m_Tail'
    BY DEF Off
  <2> QED
    BY <1>2, <1>6, <2>1, <2>2 DEF Off, Index, Wrap
<1> QED
  BY <1>3, <1>5, <1>6 DEF RingOK

-----------------------------------------------------------------------------
(* Copies. *)

(* A byte string of length n is a sequence of bytes. *)
LEMMA BytesFacts ==
    ASSUME NEW n \in Nat, NEW s \in Bytes(n)
    PROVE  s \in Seq(Byte) /\ Len(s) = n /\ DOMAIN s = 1..n
BY DEF Bytes

(* A copy into spans changes nothing outside them. *)
LEMMA StoredFacts ==
    ASSUME m_Buffer \in [Index -> Byte], NEW spans \in Seq(Index), NEW s \in Seq(Byte),
           Len(s) <= Len(spans)
    PROVE  /\ Stored(spans, s) \in [Index -> Byte]
           /\ \A k \in Index : k \notin Covers(spans) => Stored(spans, s)[k] = m_Buffer[k]
<1>1. \A i \in DOMAIN s : s[i] \in Byte /\ i \in DOMAIN spans
  OBVIOUS
<1>2. ASSUME NEW k \in Index PROVE Stored(spans, s)[k] \in Byte
  <2>1. CASE \E i \in DOMAIN s : spans[i] = k
    BY <1>1, <2>1 DEF Stored
  <2>2. CASE ~\E i \in DOMAIN s : spans[i] = k
    BY <2>2 DEF Stored
  <2> QED
    BY <2>1, <2>2
<1>3. ASSUME NEW k \in Index, k \notin Covers(spans) PROVE Stored(spans, s)[k] = m_Buffer[k]
  BY <1>1, <1>3 DEF Stored, Covers
<1> QED
  BY <1>2, <1>3 DEF Stored

(* A copy out of the used part is a sequence of bytes. *)
LEMMA LoadedFacts ==
    ASSUME TypeOK, NEW n \in 0..m_Capacity
    PROVE  Loaded(Spans(m_Tail, n)) \in Seq(Byte)
<1>1. m_Tail \in Index
  BY DEF TypeOK
<1>2. Spans(m_Tail, n) \in Seq(Index) /\ DOMAIN Spans(m_Tail, n) = 1..n
  BY <1>1, SpanFacts
<1>3. \A i \in 1..n : m_Buffer[Spans(m_Tail, n)[i]] \in Byte
  BY <1>2 DEF TypeOK
<1> QED
  BY <1>2, <1>3 DEF Loaded

-----------------------------------------------------------------------------
(* The invariant, call by call. *)

(* The entries of the view. *)
LEMMA ViewFacts ==
    ASSUME TypeOK
    PROVE  /\ Len(view) \in Nat /\ DOMAIN view = 1..Len(view)
           /\ \A i \in DOMAIN view : view[i].at \in Index /\ i \in Int /\ i <= Len(view)
<1>1. view \in Seq([at : Index, byte : Byte])
  BY DEF TypeOK
<1>2. DOMAIN view = 1..Len(view) /\ Len(view) \in Nat
  BY <1>1
<1>3. \A i \in DOMAIN view : view[i] \in [at : Index, byte : Byte]
  BY <1>1, <1>2, ElementOfSeq
<1> QED
  BY <1>2, <1>3

(* The positions of a span list. *)
LEMMA CoverFacts ==
    ASSUME TypeOK
    PROVE  /\ \A w \in Writers : Covers(reserved[w]) \subseteq Index
           /\ Covers(window) \subseteq Index
           /\ m_Size \in Int /\ m_Capacity \in Int /\ m_Size >= 0 /\ m_Size <= m_Capacity
           /\ \A k \in Index : Off(k) \in Int /\ Off(k) >= 0 /\ Off(k) < m_Capacity
<1>1. \A w \in Writers : Covers(reserved[w]) \subseteq Index
  BY DEF Covers, TypeOK
<1>2. Covers(window) \subseteq Index
  BY DEF Covers, TypeOK
<1>3. m_Size \in Int /\ m_Capacity \in Int /\ m_Size >= 0 /\ m_Size <= m_Capacity
  BY CapacityAssumption DEF TypeOK
<1>4. \A k \in Index : Off(k) \in Int /\ Off(k) >= 0 /\ Off(k) < m_Capacity
  BY CapacityAssumption DEF Off, TypeOK, Index
<1> QED
  BY <1>1, <1>2, <1>3, <1>4

(* The head moves over free positions: what the users hold is untouched. *)
LEMMA HeadKeepsUsers ==
    ASSUME RingInv, UNCHANGED <<m_Tail, users>>, window = <<>>,
           m_Size' \in 0..m_Capacity, m_Size <= m_Size',
           \A k \in Index : Off(k) < m_Size => m_Buffer'[k] = m_Buffer[k]
    PROVE  ReservedInv' /\ ViewInv' /\ WindowInv'
<1>1. \A k : Off(k)' = Off(k)
  BY DEF Off
<1>2. /\ m_Size \in 0..m_Capacity /\ m_Capacity \in Nat
      /\ \A w \in Writers : \A k \in Covers(reserved[w]) : Off(k) \in Int
  <2>1. \A k \in Index : Off(k) \in Int
    BY CapacityAssumption DEF Off, Index, RingInv, TypeOK
  <2>2. \A w \in Writers : Covers(reserved[w]) \subseteq Index
    BY DEF Covers, RingInv, TypeOK
  <2> QED
    BY <2>1, <2>2, CapacityAssumption DEF RingInv, TypeOK
<1>3. ReservedInv'
  <2>1. UNCHANGED <<reserved, view>>
    BY DEF users
  <2>2. \A w \in Writers : \A k \in Covers(reserved[w]) : Len(view) <= Off(k) /\ Off(k) < m_Size
    BY DEF RingInv, ReservedInv
  <2>3. \A w \in Writers : \A k \in Covers(reserved[w]) : Off(k) < m_Size'
    BY <1>2, <2>2
  <2>4. \A w \in Writers : Covers(reserved[w])' = Covers(reserved[w])
    BY <2>1 DEF Covers
  <2>5. \A w \in Writers : \A k \in Covers(reserved[w])' : Len(view)' <= Off(k)' /\ Off(k)' < m_Size'
    BY <1>1, <2>1, <2>2, <2>3, <2>4
  <2> QED
    BY <2>4, <2>5 DEF RingInv, ReservedInv
<1>4. ViewInv'
  <2>1. \A i \in DOMAIN view : view[i].at \in Index /\ Off(view[i].at) < m_Size
    <3>1. view \in Seq([at : Index, byte : Byte]) /\ Len(view) <= m_Size
      BY DEF RingInv, TypeOK, ViewInv
    <3>2. \A i \in DOMAIN view : Off(view[i].at) = i - 1
      BY DEF RingInv, ViewInv
    <3>3. \A i \in DOMAIN view : view[i].at \in Index /\ i \in Int /\ i <= Len(view)
      BY ViewFacts DEF RingInv
    <3>4. Len(view) \in Int /\ m_Size \in Int
      BY <1>2, <3>1
    <3> QED
      BY <3>1, <3>2, <3>3, <3>4
  <2>2. \A i \in DOMAIN view : m_Buffer'[view[i].at] = view[i].byte
    BY <2>1 DEF RingInv, ViewInv, ViewStable
  <2>3. Len(view) <= m_Size'
    BY <1>2 DEF RingInv, TypeOK, ViewInv
  <2> QED
    BY <1>1, <2>2, <2>3 DEF RingInv, ViewInv, ViewStable, users
<1>5. WindowInv'
  <2>1. Len(window) = 0 /\ Covers(window) = {}
    BY DEF Covers
  <2>2. Len(arrived) <= 0
    BY <2>1 DEF RingInv, WindowInv
  <2> QED
    BY <1>2, <2>1, <2>2 DEF WindowInv, users, Covers
<1> QED
  BY <1>3, <1>4, <1>5

(* Write. *)
LEMMA WriteInv ==
    ASSUME RingInv, NEW n \in 0..m_Capacity, NEW s \in Bytes(n), Write(s)
    PROVE  RingInv'
<1>1. s \in Seq(Byte) /\ Len(s) = n /\ m_Capacity - m_Size >= n
  BY BytesFacts DEF Write
<1>2. m_Head' \in Index /\ m_Size' \in 0..m_Capacity /\ RingOK' /\ m_Size' = m_Size + n
  BY <1>1, HeadMoves DEF Write, MoveHead, RingInv
<1>3. Spans(m_Head, n) \in Seq(Index) /\ Len(Spans(m_Head, n)) = n
  BY SpanFacts DEF RingInv, TypeOK
<1>4. /\ m_Buffer' \in [Index -> Byte]
      /\ \A k \in Index : k \notin Covers(Spans(m_Head, n)) => m_Buffer'[k] = m_Buffer[k]
  BY <1>1, <1>3, StoredFacts DEF Write, RingInv, TypeOK
<1>5. \A k \in Index : Off(k) < m_Size => k \notin Covers(Spans(m_Head, n))
  <2>1. \A k \in Covers(Spans(m_Head, n)) : m_Size <= Off(k)
    BY <1>1, FreeSpans DEF RingInv
  <2>2. m_Size \in Int /\ \A k \in Index : Off(k) \in Int
    BY OffFacts, CapacityAssumption DEF RingInv, TypeOK, Index
  <2> QED
    BY <2>1, <2>2
<1>6. m_Size <= m_Size'
  BY <1>2 DEF RingInv, TypeOK
<1>7. ReservedInv' /\ ViewInv' /\ WindowInv'
  BY <1>2, <1>4, <1>5, <1>6, HeadKeepsUsers DEF Write
<1>8. TypeOK'
  BY <1>2, <1>4 DEF Write, Result, users, RingInv, TypeOK
<1> QED
  BY <1>2, <1>7, <1>8 DEF RingInv

(* Nothing but the result changes. *)
LEMMA SameInv ==
    ASSUME RingInv, UNCHANGED <<ring, users>>, out' \in [ok : BOOLEAN, bytes : Seq(Byte)]
    PROVE  RingInv'
<1>1. /\ UNCHANGED <<m_Buffer, m_Head, m_Tail, m_Size>>
      /\ UNCHANGED <<reserved, view, window, arrived>>
  BY DEF ring, users
<1>2. TypeOK' /\ RingOK'
  BY <1>1 DEF RingInv, TypeOK, RingOK
<1>3. /\ \A k : Off(k)' = Off(k)
      /\ \A w \in Writers : Covers(reserved[w])' = Covers(reserved[w])
      /\ Covers(window)' = Covers(window)
  BY <1>1 DEF Off, Covers
<1>4. ReservedInv'
  BY <1>1, <1>3 DEF RingInv, ReservedInv
<1>5. ViewInv'
  BY <1>1, <1>3 DEF RingInv, ViewInv, ViewStable
<1>6. WindowInv'
  BY <1>1, <1>3 DEF RingInv, WindowInv
<1> QED
  BY <1>2, <1>4, <1>5, <1>6 DEF RingInv

(* The calls that only return something, and the ones that refuse. *)
LEMMA ReturnInv ==
    ASSUME RingInv, NEW n \in 0..m_Capacity, Peek(n) \/ ReadRefused(n) \/ WriteRefused(n)
    PROVE  RingInv'
<1>1. UNCHANGED <<ring, users>>
  BY DEF Peek, ReadRefused, WriteRefused
<1>2. out' \in [ok : BOOLEAN, bytes : Seq(Byte)]
  <2>1. <<>> \in Seq(Byte) /\ Loaded(Spans(m_Tail, n)) \in Seq(Byte)
    BY LoadedFacts DEF RingInv
  <2>2. out' = [ok |-> FALSE, bytes |-> <<>>]
          \/ out' = [ok |-> TRUE, bytes |-> Loaded(Spans(m_Tail, n))]
    BY DEF Peek, ReadRefused, WriteRefused, Result
  <2>3. CASE out' = [ok |-> FALSE, bytes |-> <<>>]
    BY <2>3
  <2>4. CASE out' = [ok |-> TRUE, bytes |-> Loaded(Spans(m_Tail, n))]
    BY <2>1, <2>4
  <2> QED
    BY <2>2, <2>3, <2>4
<1> QED
  BY <1>1, <1>2, SameInv

(* The tail moves over positions no writer holds. *)
LEMMA TailKeepsReserved ==
    ASSUME RingInv, NEW n \in Nat, n <= m_Size, MoveTail(n), m_Head' = m_Head,
           reserved' = reserved, view' = <<>>,
           \A w \in Writers : \A k \in Covers(reserved[w]) : n <= Off(k)
    PROVE  /\ m_Tail' \in Index /\ m_Size' \in 0..m_Capacity /\ RingOK' /\ m_Size' = m_Size - n
           /\ ReservedInv'
           /\ \A k \in Index : m_Size <= Off(k) => m_Size' <= Off(k)'
<1>1. /\ m_Tail' \in Index /\ m_Size' \in 0..m_Capacity /\ RingOK' /\ m_Size' = m_Size - n
      /\ \A k \in Index : Off(k) >= n => Off(k)' = Off(k) - n
  <2>1. m_Size >= n
    BY CoverFacts DEF RingInv
  <2> QED
    BY <2>1, TailMoves DEF RingInv, MoveTail
<1>2. \A w \in Writers : Covers(reserved[w])' = Covers(reserved[w])
  BY DEF Covers
<1>3. ASSUME NEW w \in Writers, NEW k \in Covers(reserved[w])
      PROVE  Len(view)' <= Off(k)' /\ Off(k)' < m_Size'
  <2>1. k \in Index /\ Off(k) \in Int /\ m_Size \in Int
    BY CoverFacts DEF RingInv
  <2>2. n <= Off(k) /\ Off(k) < m_Size
    BY DEF RingInv, ReservedInv
  <2>3. Off(k)' = Off(k) - n
    BY <1>1, <2>1, <2>2
  <2>4. Len(view)' = 0
    OBVIOUS
  <2> QED
    BY <1>1, <2>1, <2>2, <2>3, <2>4
<1>4. ReservedInv'
  BY <1>2, <1>3 DEF RingInv, ReservedInv
<1>5. ASSUME NEW k \in Index, m_Size <= Off(k) PROVE m_Size' <= Off(k)'
  <2>1. Off(k) \in Int /\ m_Size \in Int
    BY CoverFacts DEF RingInv
  <2>2. Off(k) >= n
    BY <1>5, <2>1
  <2>3. Off(k)' = Off(k) - n
    BY <1>1, <2>2
  <2> QED
    BY <1>1, <1>5, <2>1, <2>3
<1> QED
  BY <1>1, <1>4, <1>5

(* Pop. *)
LEMMA PopInv ==
    ASSUME RingInv, NEW n \in 0..m_Capacity, Pop(n)
    PROVE  RingInv'
<1>1. /\ n \in Nat /\ n <= m_Size /\ MoveTail(n) /\ m_Head' = m_Head /\ reserved' = reserved
      /\ view = <<>> /\ view' = <<>> /\ window' = window /\ arrived' = arrived
      /\ m_Buffer' = m_Buffer
  BY CoverFacts DEF Pop, users, RingInv
<1>2. \A w \in Writers : \A k \in Covers(reserved[w]) : n <= Off(k)
  <2> SUFFICES ASSUME NEW w \in Writers, NEW k \in Covers(reserved[w]), Off(k) < n
               PROVE  FALSE
    BY CoverFacts DEF RingInv
  <2>1. k \in Covers(Spans(m_Tail, n))
    BY CoverFacts, OffFacts DEF RingInv
  <2> QED
    BY <2>1 DEF Pop, Filled
<1>3. /\ m_Tail' \in Index /\ m_Size' \in 0..m_Capacity /\ RingOK' /\ m_Size' = m_Size - n
      /\ ReservedInv' /\ \A k \in Index : m_Size <= Off(k) => m_Size' <= Off(k)'
  BY <1>1, <1>2, TailKeepsReserved
<1>4. out' \in [ok : BOOLEAN, bytes : Seq(Byte)]
  BY LoadedFacts DEF Pop, Result, RingInv
<1>5. TypeOK'
  BY <1>1, <1>3, <1>4 DEF RingInv, TypeOK
<1>6. ViewInv'
  BY <1>1, <1>3 DEF ViewInv, ViewStable
<1>7. WindowInv'
  <2>1. Covers(window)' = Covers(window) /\ Len(window) \in Int
    BY <1>1 DEF Covers, RingInv, TypeOK
  <2>2. \A k \in Covers(window)' : m_Size' <= Off(k)'
    BY <1>3, <2>1, CoverFacts DEF RingInv, WindowInv
  <2>3. Len(window) <= m_Capacity - m_Size'
    BY <1>3, <2>1, CoverFacts DEF RingInv, WindowInv
  <2> QED
    BY <1>1, <2>2, <2>3 DEF RingInv, WindowInv
<1> QED
  BY <1>3, <1>5, <1>6, <1>7 DEF RingInv

(* Consume. *)
LEMMA ConsumeInv ==
    ASSUME RingInv, NEW n \in 0..m_Capacity, Consume(n)
    PROVE  RingInv'
<1>1. /\ n \in Nat /\ n <= m_Size /\ MoveTail(n) /\ m_Head' = m_Head /\ reserved' = reserved
      /\ view' = <<>> /\ window' = window /\ arrived' = arrived /\ m_Buffer' = m_Buffer
      /\ n <= Len(view) /\ view # <<>>
  BY CoverFacts DEF Consume, users, RingInv
<1>2. \A w \in Writers : \A k \in Covers(reserved[w]) : n <= Off(k)
  BY <1>1, CoverFacts, ViewFacts DEF RingInv, ReservedInv
<1>3. /\ m_Tail' \in Index /\ m_Size' \in 0..m_Capacity /\ RingOK' /\ m_Size' = m_Size - n
      /\ ReservedInv'
  BY <1>1, <1>2, TailKeepsReserved
<1>4. out' \in [ok : BOOLEAN, bytes : Seq(Byte)]
  BY DEF Consume, Result
<1>5. TypeOK'
  BY <1>1, <1>3, <1>4 DEF RingInv, TypeOK
<1>6. ViewInv'
  BY <1>1, <1>3 DEF ViewInv, ViewStable
<1>7. WindowInv'
  <2>1. window = <<>>
    BY <1>1 DEF RingInv, WindowInv
  <2>2. Len(window) = 0 /\ Covers(window)' = {} /\ Len(arrived) <= 0
    BY <1>1, <2>1 DEF Covers, RingInv, WindowInv
  <2> QED
    BY <1>1, <1>3, <2>1, <2>2, CapacityAssumption DEF WindowInv
<1> QED
  BY <1>3, <1>5, <1>6, <1>7 DEF RingInv

(* GetReadBuffers. *)
LEMMA GetReadInv ==
    ASSUME RingInv, GetReadBuffers
    PROVE  RingInv'
<1> DEFINE sp == Spans(m_Tail, m_Size)
<1>1. /\ UNCHANGED <<m_Buffer, m_Head, m_Tail, m_Size>> /\ UNCHANGED <<reserved, window, arrived, out>>
      /\ window = <<>> /\ Filled(m_Size)
      /\ view' = [i \in 1..m_Size |-> [at |-> sp[i], byte |-> Loaded(sp)[i]]]
  BY DEF GetReadBuffers, Idle, ring
<1>2. /\ sp \in Seq(Index) /\ DOMAIN sp = 1..m_Size
      /\ \A i \in 1..m_Size : Off(sp[i]) = i - 1 /\ sp[i] \in Index
      /\ \A i \in 1..m_Size : Loaded(sp)[i] = m_Buffer[sp[i]]
  <2>1. m_Tail \in Index /\ m_Size \in 0..m_Capacity
    BY DEF RingInv, TypeOK
  <2>2. sp \in Seq(Index) /\ DOMAIN sp = 1..m_Size
    BY <2>1, SpanFacts
  <2>3. \A i \in 1..m_Size : Off(sp[i]) = i - 1
    BY <2>1, OffFacts DEF RingInv
  <2>4. \A i \in 1..m_Size : sp[i] \in Index
    <3>1. Len(sp) = m_Size
      BY <2>1, SpanFacts
    <3> HIDE DEF sp
    <3> QED
      BY <2>2, <3>1, ElementOfSeq
  <2> HIDE DEF sp
  <2>5. \A i \in 1..m_Size : Loaded(sp)[i] = m_Buffer[sp[i]]
    BY <2>2 DEF Loaded
  <2> QED
    BY <2>2, <2>3, <2>4, <2>5
<1> HIDE DEF sp
<1>3. /\ view' \in Seq([at : Index, byte : Byte]) /\ Len(view') = m_Size
      /\ DOMAIN view' = 1..m_Size
      /\ \A i \in 1..m_Size : view'[i].at = sp[i] /\ view'[i].byte = m_Buffer[sp[i]]
  <2>1. m_Size \in Nat /\ m_Buffer \in [Index -> Byte]
    BY CapacityAssumption DEF RingInv, TypeOK
  <2>2. \A i \in 1..m_Size : [at |-> sp[i], byte |-> Loaded(sp)[i]] \in [at : Index, byte : Byte]
    BY <1>2, <2>1
  <2> QED
    BY <1>1, <1>2, <2>1, <2>2
<1>4. TypeOK' /\ RingOK'
  BY <1>1, <1>3 DEF RingInv, TypeOK, RingOK
<1>5. \A k : Off(k)' = Off(k)
  BY <1>1 DEF Off
<1>6. ReservedInv'
  <2>1. \A w \in Writers : Covers(reserved[w])' = Covers(reserved[w])
    BY <1>1 DEF Covers
  <2>2. \A w \in Writers : Covers(reserved[w]) = {}
    <3> SUFFICES ASSUME NEW w \in Writers, NEW k \in Covers(reserved[w]) PROVE FALSE
      OBVIOUS
    <3>1. k \in Index /\ Off(k) < m_Size
      BY CoverFacts DEF RingInv, ReservedInv
    <3>2. k \in Covers(Spans(m_Tail, m_Size))
      BY <3>1, OffFacts DEF RingInv, TypeOK
    <3> QED
      BY <1>1, <3>2 DEF Filled
  <2> QED
    BY <2>1, <2>2 DEF ReservedInv
<1>7. ViewInv'
  <2>1. Len(view') <= m_Size'
    BY <1>1, <1>3, CoverFacts DEF RingInv
  <2>2. \A i \in DOMAIN view' : Off(view[i].at)' = i - 1
    <3>1. \A i \in DOMAIN view' : Off(view[i].at)' = Off(sp[i])
      BY <1>1, <1>3 DEF Off
    <3> QED
      BY <1>2, <1>3, <3>1
  <2>3. \A i \in DOMAIN view' : m_Buffer'[view'[i].at] = view'[i].byte
    BY <1>1, <1>3
  <2> QED
    BY <2>1, <2>2, <2>3 DEF ViewInv, ViewStable
<1>8. WindowInv'
  BY <1>1, <1>5 DEF RingInv, WindowInv, Covers
<1> QED
  BY <1>4, <1>6, <1>7, <1>8 DEF RingInv

(* AllocateWrite. *)
LEMMA AllocateInv ==
    ASSUME RingInv, NEW n \in 0..m_Capacity, NEW w \in Writers, AllocateWrite(w, n)
    PROVE  RingInv'
<1> DEFINE sp == Spans(m_Head, n)
<1>1. /\ UNCHANGED <<m_Buffer, m_Tail, view, window, arrived>>
      /\ window = <<>> /\ m_Capacity - m_Size >= n /\ MoveHead(n)
      /\ reserved' = [reserved EXCEPT ![w] = sp]
      /\ out' = [ok |-> TRUE, bytes |-> <<>>]
  BY DEF AllocateWrite, Result
<1>2. m_Head' \in Index /\ m_Size' \in 0..m_Capacity /\ RingOK' /\ m_Size' = m_Size + n
  BY <1>1, HeadMoves DEF MoveHead, RingInv
<1>3. sp \in Seq(Index)
  BY SpanFacts DEF RingInv, TypeOK
<1>4. \A k \in Covers(sp) : k \in Index /\ m_Size <= Off(k) /\ Off(k) < m_Size + n
  BY <1>1, FreeSpans DEF RingInv
<1> HIDE DEF sp
<1>5. TypeOK'
  BY <1>1, <1>2, <1>3 DEF RingInv, TypeOK
<1>6. /\ \A k : Off(k)' = Off(k)
      /\ \A v \in Writers : v # w => Covers(reserved[v])' = Covers(reserved[v])
      /\ Covers(reserved[w])' = Covers(sp)
  BY <1>1 DEF Off, Covers, RingInv, TypeOK
<1>7. ReservedInv'
  <2>1. \A v \in Writers : \A k \in Covers(reserved[v]) :
           Len(view) <= Off(k) /\ Off(k) < m_Size /\ Off(k) < m_Size' /\ k \notin Covers(sp)
    BY <1>2, <1>4, CoverFacts DEF RingInv, ReservedInv
  <2>2. \A k \in Covers(sp) : Len(view) <= Off(k) /\ Off(k) < m_Size'
    BY <1>2, <1>4, CoverFacts, ViewFacts DEF RingInv, ViewInv
  <2>3. \A v \in Writers : \A k \in Covers(reserved[v])' : Len(view)' <= Off(k)' /\ Off(k)' < m_Size'
    BY <1>1, <1>6, <2>1, <2>2
  <2>4. \A u, v \in Writers : u # v => Covers(reserved[u])' \cap Covers(reserved[v])' = {}
    BY <1>6, <2>1 DEF RingInv, ReservedInv
  <2> QED
    BY <2>3, <2>4 DEF ReservedInv
<1>8. ViewInv'
  BY <1>1, <1>2, <1>6, CoverFacts, ViewFacts DEF RingInv, ViewInv, ViewStable
<1>9. WindowInv'
  <2>1. Len(window) = 0 /\ Covers(window)' = {} /\ Len(arrived) <= 0
    BY <1>1 DEF Covers, RingInv, WindowInv
  <2> QED
    BY <1>1, <1>2, <2>1, CapacityAssumption DEF WindowInv
<1> QED
  BY <1>2, <1>5, <1>7, <1>8, <1>9 DEF RingInv

(* Fill. *)
LEMMA FillInv ==
    ASSUME RingInv, NEW n \in 0..m_Capacity, NEW s \in Bytes(n), NEW w \in Writers, Fill(w, s)
    PROVE  RingInv'
<1>1. /\ UNCHANGED <<m_Head, m_Tail, m_Size>> /\ UNCHANGED <<view, window, arrived, out>>
      /\ m_Buffer' = Stored(reserved[w], s) /\ Len(s) = Len(reserved[w])
      /\ reserved' = [reserved EXCEPT ![w] = <<>>] /\ reserved[w] # <<>>
  BY DEF Fill
<1>2. s \in Seq(Byte) /\ reserved[w] \in Seq(Index) /\ Len(s) <= Len(reserved[w])
  BY <1>1, BytesFacts DEF RingInv, TypeOK
<1>3. /\ m_Buffer' \in [Index -> Byte]
      /\ \A k \in Index : k \notin Covers(reserved[w]) => m_Buffer'[k] = m_Buffer[k]
  BY <1>1, <1>2, StoredFacts DEF RingInv, TypeOK
<1>4. TypeOK' /\ RingOK'
  <2>1. reserved' \in [Writers -> Seq(Index)]
    BY <1>1 DEF RingInv, TypeOK
  <2> QED
    BY <1>1, <1>3, <2>1 DEF RingInv, TypeOK, RingOK
<1>5. /\ \A k : Off(k)' = Off(k)
      /\ \A v \in Writers : v # w => Covers(reserved[v])' = Covers(reserved[v])
      /\ Covers(reserved[w])' = {}
  BY <1>1 DEF Off, Covers, RingInv, TypeOK
<1>6. ReservedInv'
  BY <1>1, <1>5 DEF RingInv, ReservedInv
<1>7. ViewInv'
  <2>1. \A i \in DOMAIN view : view[i].at \in Index /\ view[i].at \notin Covers(reserved[w])
    <3>1. ASSUME NEW i \in DOMAIN view, view[i].at \in Covers(reserved[w]) PROVE FALSE
      <4>1. Len(view) <= Off(view[i].at) /\ Off(view[i].at) = i - 1
        BY <3>1 DEF RingInv, ReservedInv, ViewInv
      <4>2. i \in Int /\ i <= Len(view) /\ Len(view) \in Int
        BY ViewFacts DEF RingInv
      <4> QED
        BY <4>1, <4>2
    <3> QED
      BY <3>1, ViewFacts DEF RingInv
  <2>2. \A i \in DOMAIN view : m_Buffer'[view[i].at] = view[i].byte
    BY <1>3, <2>1 DEF RingInv, ViewInv, ViewStable
  <2> QED
    BY <1>1, <1>5, <2>2 DEF RingInv, ViewInv, ViewStable
<1>8. WindowInv'
  <2>1. window = <<>>
    BY <1>1 DEF RingInv, WindowInv
  <2> QED
    BY <1>1, <1>5, <2>1 DEF RingInv, WindowInv, Covers
<1> QED
  BY <1>4, <1>6, <1>7, <1>8 DEF RingInv

(* GetWriteableBuffers. *)
LEMMA GetWriteableInv ==
    ASSUME RingInv, GetWriteableBuffers
    PROVE  RingInv'
<1> DEFINE sp == Spans(m_Head, m_Capacity - m_Size)
<1>1. /\ UNCHANGED <<m_Buffer, m_Head, m_Tail, m_Size>> /\ UNCHANGED <<reserved, view, arrived, out>>
      /\ window = <<>> /\ view = <<>> /\ \A w \in Writers : reserved[w] = <<>>
      /\ window' = sp
  BY DEF GetWriteableBuffers, Idle, ring
<1>2. m_Capacity - m_Size \in 0..m_Capacity /\ m_Capacity - m_Size >= m_Capacity - m_Size
  BY CoverFacts DEF RingInv
<1>3. sp \in Seq(Index) /\ Len(sp) = m_Capacity - m_Size
  BY <1>2, SpanFacts DEF RingInv, TypeOK
<1>4. \A k \in Covers(sp) : m_Size <= Off(k)
  BY <1>2, FreeSpans DEF RingInv
<1> HIDE DEF sp
<1>5. TypeOK' /\ RingOK'
  BY <1>1, <1>3 DEF RingInv, TypeOK, RingOK
<1>6. /\ \A k : Off(k)' = Off(k)
      /\ \A w \in Writers : Covers(reserved[w])' = Covers(reserved[w])
  BY <1>1 DEF Off, Covers
<1>7. ReservedInv'
  BY <1>1, <1>6 DEF RingInv, ReservedInv
<1>8. ViewInv'
  BY <1>1, <1>6 DEF RingInv, ViewInv, ViewStable
<1>9. WindowInv'
  <2>1. Covers(window)' = Covers(sp)
    BY <1>1 DEF Covers
  <2>2. Len(arrived) <= Len(sp)
    <3>1. Len(arrived) <= 0 /\ Len(arrived) \in Int
      BY <1>1 DEF RingInv, WindowInv, TypeOK
    <3> QED
      BY <1>3, <3>1, CoverFacts DEF RingInv
  <2>3. Len(sp) <= m_Capacity - m_Size
    BY <1>3, CoverFacts DEF RingInv
  <2> QED
    BY <1>1, <1>4, <1>6, <2>1, <2>2, <2>3 DEF WindowInv
<1> QED
  BY <1>5, <1>7, <1>8, <1>9 DEF RingInv

(* Arrive. *)
LEMMA ArriveInv ==
    ASSUME RingInv, NEW n \in 0..m_Capacity, NEW s \in Bytes(n), Arrive(s)
    PROVE  RingInv'
<1>1. /\ UNCHANGED <<m_Head, m_Tail, m_Size>> /\ UNCHANGED <<reserved, view, window, out>>
      /\ m_Buffer' = Stored(window, s) /\ Len(s) \in 1..Len(window)
      /\ arrived' = s /\ window # <<>>
  BY DEF Arrive
<1>2. s \in Seq(Byte) /\ window \in Seq(Index) /\ Len(s) <= Len(window)
  BY <1>1, BytesFacts DEF RingInv, TypeOK
<1>3. m_Buffer' \in [Index -> Byte]
  BY <1>1, <1>2, StoredFacts DEF RingInv, TypeOK
<1>4. TypeOK' /\ RingOK'
  BY <1>1, <1>2, <1>3 DEF RingInv, TypeOK, RingOK
<1>5. /\ \A k : Off(k)' = Off(k)
      /\ \A w \in Writers : Covers(reserved[w])' = Covers(reserved[w])
      /\ Covers(window)' = Covers(window)
  BY <1>1 DEF Off, Covers
<1>6. ReservedInv'
  BY <1>1, <1>5 DEF RingInv, ReservedInv
<1>7. ViewInv'
  <2>1. view = <<>> /\ view' = <<>> /\ Len(view) <= m_Size
    BY <1>1 DEF RingInv, WindowInv, ViewInv
  <2> QED
    BY <1>1, <2>1 DEF ViewInv, ViewStable
<1>8. WindowInv'
  BY <1>1, <1>2, <1>5 DEF RingInv, WindowInv
<1> QED
  BY <1>4, <1>6, <1>7, <1>8 DEF RingInv

(* CommitWrite. *)
LEMMA CommitInv ==
    ASSUME RingInv, CommitWrite
    PROVE  RingInv'
<1>1. /\ UNCHANGED <<m_Buffer, m_Tail, reserved, view>>
      /\ m_Capacity - m_Size >= Len(arrived) /\ MoveHead(Len(arrived))
      /\ window' = <<>> /\ arrived' = <<>> /\ arrived # <<>>
      /\ out' = [ok |-> TRUE, bytes |-> <<>>]
  BY DEF CommitWrite, Result
<1>2. Len(arrived) \in Nat /\ window # <<>>
  <2>1. arrived \in Seq(Byte) /\ window \in Seq(Index) /\ Len(arrived) <= Len(window)
    BY DEF RingInv, TypeOK, WindowInv
  <2> QED
    BY <1>1, <2>1
<1>3. m_Head' \in Index /\ m_Size' \in 0..m_Capacity /\ RingOK'
  BY <1>1, <1>2, HeadMoves DEF RingInv
<1>4. TypeOK'
  BY <1>1, <1>3 DEF RingInv, TypeOK
<1>5. view' = <<>> /\ \A w \in Writers : reserved'[w] = <<>>
  BY <1>1, <1>2 DEF RingInv, WindowInv
<1>6. \A w \in Writers : Covers(reserved[w])' = {}
  BY <1>5 DEF Covers
<1>7. ReservedInv'
  BY <1>6 DEF ReservedInv
<1>8. ViewInv'
  BY <1>3, <1>5 DEF ViewInv, ViewStable
<1>9. WindowInv'
  <2>1. Covers(window)' = {} /\ Len(window') = 0 /\ Len(arrived') = 0
    BY <1>1 DEF Covers
  <2>2. 0 <= m_Capacity - m_Size'
    <3>1. \A y \in 0..m_Capacity : 0 <= m_Capacity - y
      BY CapacityAssumption
    <3> QED
      BY <1>3, <3>1
  <2> QED
    BY <1>1, <2>1, <2>2 DEF WindowInv
<1> QED
  BY <1>3, <1>4, <1>7, <1>8, <1>9 DEF RingInv

(* Clear. *)
LEMMA ClearInv ==
    ASSUME RingInv, Clear
    PROVE  RingInv'
<1>1. /\ UNCHANGED <<m_Buffer, reserved, view, window, arrived>>
      /\ m_Head' = 0 /\ m_Tail' = 0 /\ m_Size' = 0
      /\ view = <<>> /\ window = <<>> /\ \A w \in Writers : reserved[w] = <<>>
      /\ out' = [ok |-> TRUE, bytes |-> <<>>]
  BY DEF Clear, Idle, users, Result
<1>2. m_Head' \in Index /\ m_Tail' \in Index /\ m_Size' \in 0..m_Capacity
  BY <1>1, CapacityAssumption DEF Index
<1>3. TypeOK'
  BY <1>1, <1>2 DEF RingInv, TypeOK
<1>4. RingOK'
  <2>1. 0 % m_Capacity = 0
    BY CapacityAssumption
  <2> QED
    BY <1>1, <2>1 DEF RingOK
<1>5. ReservedInv'
  BY <1>1 DEF ReservedInv, Covers
<1>6. ViewInv'
  BY <1>1 DEF ViewInv, ViewStable
<1>7. WindowInv'
  <2>1. Len(arrived) <= 0
    BY <1>1 DEF RingInv, WindowInv
  <2> QED
    BY <1>1, <2>1, CapacityAssumption DEF WindowInv, Covers
<1> QED
  BY <1>3, <1>4, <1>5, <1>6, <1>7 DEF RingInv

-----------------------------------------------------------------------------
(* A new ring satisfies the invariant. *)
LEMMA InitInv == Init => RingInv
<1> SUFFICES ASSUME Init PROVE RingInv
  OBVIOUS
<1>1. /\ m_Head = 0 /\ m_Tail = 0 /\ m_Size = 0
      /\ view = <<>> /\ window = <<>> /\ arrived = <<>>
      /\ reserved = [w \in Writers |-> <<>>]
  BY DEF Init
<1>2. m_Head \in Index /\ m_Tail \in Index /\ m_Size \in 0..m_Capacity
  BY <1>1, CapacityAssumption DEF Index
<1>3. TypeOK
  BY <1>1, <1>2, CellsAssumption DEF Init, TypeOK
<1>4. RingOK
  <2>1. 0 % m_Capacity = 0
    BY CapacityAssumption
  <2> QED
    BY <1>1, <2>1 DEF RingOK
<1>5. ReservedInv
  BY <1>1 DEF ReservedInv, Covers
<1>6. ViewInv
  BY <1>1 DEF ViewInv, ViewStable
<1>7. WindowInv
  BY <1>1, CapacityAssumption DEF WindowInv, Covers
<1> QED
  BY <1>3, <1>4, <1>5, <1>6, <1>7 DEF RingInv

(* Every call and every step of a user keeps it. *)
LEMMA NextInv == RingInv /\ [Next]_vars => RingInv'
<1> SUFFICES ASSUME RingInv, [Next]_vars PROVE RingInv'
  OBVIOUS
<1>1. ASSUME NEW n \in 0..m_Capacity,
             Pop(n) \/ Peek(n) \/ Consume(n) \/ ReadRefused(n) \/ WriteRefused(n)
      PROVE  RingInv'
  BY <1>1, PopInv, ConsumeInv, ReturnInv
<1>2. ASSUME NEW n \in 0..m_Capacity, NEW w \in Writers, AllocateWrite(w, n) PROVE RingInv'
  BY <1>2, AllocateInv
<1>3. ASSUME NEW n \in 0..m_Capacity, NEW s \in Bytes(n),
             Write(s) \/ Arrive(s) \/ \E w \in Writers : Fill(w, s)
      PROVE  RingInv'
  BY <1>3, WriteInv, ArriveInv, FillInv
<1>4. CASE GetReadBuffers \/ GetWriteableBuffers \/ CommitWrite \/ Clear
  BY <1>4, GetReadInv, GetWriteableInv, CommitInv, ClearInv
<1>5. CASE UNCHANGED vars
  BY <1>5, SameInv DEF vars, RingInv, TypeOK
<1> QED
  BY <1>1, <1>2, <1>3, <1>4, <1>5 DEF Next

(* The invariant is inductive. *)
LEMMA RingInductive == Spec => []RingInv
<1> QED
  BY InitInv, NextInv, PTL DEF Spec

(* m_Head, m_Tail and m_Size stay inside the ring and agree with each other *)
(* under every sequence of calls, for every capacity.                       *)
THEOREM RingConsistent == Spec => [](TypeOK /\ RingOK)
<1>1. RingInv => TypeOK /\ RingOK
  BY DEF RingInv
<1> QED
  BY <1>1, RingInductive, PTL

(* What GetReadBuffers handed to a pending send keeps its bytes until       *)
(* Consume, while any number of writers reserve and fill behind it.         *)
THEOREM ViewNeverChanges == Spec => []ViewStable
<1>1. RingInv => ViewStable
  BY DEF RingInv, ViewInv
<1> QED
  BY <1>1, RingInductive, PTL

(* Concurrent users never hold the same byte of the ring.                   *)
THEOREM UsersDisjoint == Spec => []SpansDisjoint
<1>1. ASSUME RingInv PROVE SpansDisjoint
  <2>1. m_Tail \in Index /\ m_Size \in 0..m_Capacity
    BY <1>1 DEF RingInv, TypeOK
  <2>2. \A w \in Writers : Covers(reserved[w]) \subseteq Covers(Spans(m_Tail, m_Size))
    BY <1>1, <2>1, CoverFacts, OffFacts DEF RingInv, ReservedInv
  <2>3. \A k \in Covers(Spans(m_Tail, m_Size)) : Off(k) < m_Size
    <3>1. DOMAIN Spans(m_Tail, m_Size) = 1..m_Size
      BY <2>1, SpanFacts
    <3>2. \A i \in 1..m_Size : Off(Spans(m_Tail, m_Size)[i]) < m_Size
      <4>1. \A i \in 1..m_Size : Off(Spans(m_Tail, m_Size)[i]) = i - 1
        BY <1>1, <2>1, OffFacts DEF RingInv
      <4> QED
        BY <2>1, <4>1, CapacityAssumption
    <3> QED
      BY <3>1, <3>2 DEF Covers
  <2>4. Covers(window) \cap Covers(Spans(m_Tail, m_Size)) = {}
    BY <1>1, <2>3, CoverFacts DEF RingInv, WindowInv
  <2> QED
    BY <1>1, <2>2, <2>4 DEF SpansDisjoint, RingInv, ReservedInv
<1> QED
  BY <1>1, RingInductive, PTL

(* A direct receive always commits: the failure branch of CommitWrite is    *)
(* unreachable as long as the buffer has one producer.                      *)
THEOREM CommitAlwaysFits == Spec => []CommitFits
<1>1. ASSUME RingInv PROVE CommitFits
  <2>1. Len(arrived) \in Int /\ Len(window) \in Int
    BY <1>1 DEF RingInv, TypeOK
  <2> QED
    BY <1>1, <2>1, CoverFacts DEF CommitFits, RingInv, WindowInv
<1> QED
  BY <1>1, RingInductive, PTL

-----------------------------------------------------------------------------
(* The ring implements the byte queue of ByteQueue. *)

(* A reservation covers consecutive positions; so does the receive window,  *)
(* from the head on, and it holds what has arrived.                         *)
ReservedRuns == \A w \in Writers : \A i \in DOMAIN reserved[w] :
                   Off(reserved[w][i]) = Off(reserved[w][1]) + i - 1
WindowRun    == \A i \in DOMAIN window : Off(window[i]) = m_Size + i - 1
ArrivedThere == \A i \in DOMAIN arrived : m_Buffer[window[i]] = arrived[i]

RunInv == ReservedRuns /\ WindowRun /\ ArrivedThere

(* The cell at position k, and the position of the i-th cell. *)
CellOf(k) == IF \E w \in Writers : k \in Covers(reserved[w])
             THEN CHOOSE w \in Writers : k \in Covers(reserved[w])
             ELSE m_Buffer[k]
Pos(i)    == Wrap(m_Tail + i - 1)

Cell == Byte \cup Writers

(* Positions and offsets are two names of the same. *)
LEMMA PosFacts ==
    ASSUME TypeOK
    PROVE  /\ \A i \in 1..m_Capacity : Pos(i) \in Index /\ Off(Pos(i)) = i - 1
           /\ \A k \in Index : Off(k) + 1 \in 1..m_Capacity /\ Pos(Off(k) + 1) = k
<1> USE CapacityAssumption
<1>1. m_Tail \in Index
  BY DEF TypeOK
<1> QED
  BY <1>1 DEF Pos, Off, Wrap, Index

(* The cells are those of the positions from the tail on. *)
LEMMA CellsFacts ==
    ASSUME RingInv
    PROVE  /\ m_Size \in 0..m_Capacity /\ Len(Cells) = m_Size /\ DOMAIN Cells = 1..m_Size
           /\ Cells \in Seq(Cell)
           /\ \A i \in 1..m_Size : Cells[i] = CellOf(Pos(i)) /\ Cells[i] \in Cell
<1>1. m_Tail \in Index /\ m_Size \in 0..m_Capacity /\ m_Buffer \in [Index -> Byte]
  BY DEF RingInv, TypeOK
<1>2. \A i \in 1..m_Size : Spans(m_Tail, m_Size)[i] = Pos(i)
  BY <1>1, SpanFacts DEF Pos
<1>3. \A i \in 1..m_Size : Cells[i] = CellOf(Pos(i))
  BY <1>2 DEF Cells, CellOf
<1>4. \A i \in 1..m_Size : Pos(i) \in Index
  BY <1>1, CapacityAssumption, PosFacts DEF RingInv
<1>5. \A k \in Index : CellOf(k) \in Cell
  BY <1>1 DEF CellOf, Cell
<1>6. DOMAIN Cells = 1..m_Size /\ Cells \in [1..m_Size -> Cell]
  BY <1>3, <1>4, <1>5 DEF Cells
<1>7. Len(Cells) = m_Size /\ Cells \in Seq(Cell)
  BY <1>1, <1>6
<1> QED
  BY <1>1, <1>3, <1>4, <1>5, <1>6, <1>7

(* A reserved position is the cell of its only writer. *)
LEMMA OwnerFacts ==
    ASSUME RingInv, NEW k \in Index
    PROVE  /\ \A w \in Writers : k \in Covers(reserved[w]) <=> CellOf(k) = w
           /\ (\A w \in Writers : k \notin Covers(reserved[w])) => CellOf(k) = m_Buffer[k]
           /\ CellOf(k) \in Byte => CellOf(k) = m_Buffer[k]
           /\ m_Buffer[k] \in Byte
<1>0. m_Buffer[k] \in Byte /\ Byte \cap Writers = {}
  BY CellsAssumption DEF RingInv, TypeOK
<1>1. \A v, w \in Writers : v # w => Covers(reserved[v]) \cap Covers(reserved[w]) = {}
  BY DEF RingInv, ReservedInv
<1>2. ASSUME NEW w \in Writers, k \in Covers(reserved[w]) PROVE CellOf(k) = w
  <2>1. \A v \in Writers : k \in Covers(reserved[v]) => v = w
    BY <1>1, <1>2
  <2> QED
    BY <1>2, <2>1 DEF CellOf
<1>3. ASSUME \A w \in Writers : k \notin Covers(reserved[w]) PROVE CellOf(k) = m_Buffer[k]
  BY <1>3 DEF CellOf
<1> QED
  BY <1>0, <1>2, <1>3

(* The cell of every used position, by its distance from the tail. *)
CellsAt ==
    /\ m_Size \in 0..m_Capacity /\ Len(Cells) = m_Size /\ Cells \in Seq(Cell)
    /\ DOMAIN Cells = 1..m_Size
    /\ \A k \in Index : Off(k) \in 0..(m_Capacity - 1)
    /\ \A k \in Index : Off(k) < m_Size => Cells[Off(k) + 1] = CellOf(k)
    /\ \A i \in 1..m_Capacity : \E k \in Index : Off(k) = i - 1
    /\ \A j, k \in Index : Off(j) = Off(k) => j = k

(* The cells are in place in every state the invariant allows. *)
LEMMA CellsAtHolds == RingInv => CellsAt
<1> SUFFICES ASSUME RingInv PROVE CellsAt
  OBVIOUS
<1>1. TypeOK /\ m_Capacity \in Nat
  BY CapacityAssumption DEF RingInv
<1>2. /\ \A i \in 1..m_Capacity : Pos(i) \in Index /\ Off(Pos(i)) = i - 1
      /\ \A k \in Index : Off(k) + 1 \in 1..m_Capacity /\ Pos(Off(k) + 1) = k
  BY <1>1, PosFacts
<1>3. /\ m_Size \in 0..m_Capacity /\ Len(Cells) = m_Size /\ DOMAIN Cells = 1..m_Size
      /\ Cells \in Seq(Cell)
      /\ \A i \in 1..m_Size : Cells[i] = CellOf(Pos(i))
  BY CellsFacts
<1>4. \A k \in Index : Off(k) \in 0..(m_Capacity - 1)
  BY <1>1, CoverFacts
<1>5. ASSUME NEW k \in Index, Off(k) < m_Size PROVE Cells[Off(k) + 1] = CellOf(k)
  <2>1. Off(k) + 1 \in 1..m_Size
    BY <1>1, <1>3, <1>4, <1>5
  <2> QED
    BY <1>2, <1>3, <2>1
<1>6. \A i \in 1..m_Capacity : \E k \in Index : Off(k) = i - 1
  BY <1>2
<1>7. \A j, k \in Index : Off(j) = Off(k) => j = k
  <2>1. \A k \in Index : Pos(Off(k) + 1) = k
    BY <1>2
  <2> QED
    BY <2>1
<1> QED
  BY <1>3, <1>4, <1>5, <1>6, <1>7 DEF CellsAt

(* And after every step that keeps it. *)
LEMMA CellsAtNext == RingInv' => CellsAt'
BY CellsAtHolds, PTL

(* What the cells are after a step, from the cell of every used position. *)
LEMMA CellsAre ==
    ASSUME RingInv', NEW d \in Seq(Cell), Len(d) = m_Size',
           \A k \in Index : Off(k)' < m_Size' => CellOf(k)' = d[Off(k)' + 1]
    PROVE  Cells' = d
<1>1. CellsAt'
  BY CellsAtNext
<1>2. /\ m_Size' \in 0..m_Capacity /\ Len(Cells') = m_Size' /\ Cells' \in Seq(Cell)
      /\ \A k \in Index : Off(k)' \in 0..(m_Capacity - 1)
      /\ \A k \in Index : Off(k)' < m_Size' => Cells'[Off(k)' + 1] = CellOf(k)'
      /\ \A i \in 1..m_Capacity : \E k \in Index : Off(k)' = i - 1
  BY <1>1 DEF CellsAt, Cell, Index
<1>3. ASSUME NEW i \in 1..Len(Cells') PROVE Cells'[i] = d[i]
  <2>1. i \in 1..m_Capacity /\ m_Capacity \in Nat /\ i <= m_Size' /\ i \in Int /\ m_Size' \in Int
    BY <1>2, CapacityAssumption
  <2>2. PICK k \in Index : Off(k)' = i - 1
    BY <1>2, <2>1
  <2>3. Off(k)' < m_Size' /\ Off(k)' + 1 = i
    BY <2>1, <2>2
  <2>4. Cells'[Off(k)' + 1] = d[Off(k)' + 1]
    BY <1>2, <2>3
  <2> QED
    BY <2>3, <2>4
<1> QED
  BY <1>2, <1>3, SeqEqual

(* The cells before a step. *)
LEMMA CellsNow ==
    ASSUME RingInv
    PROVE  /\ m_Size \in 0..m_Capacity /\ Len(Cells) = m_Size /\ Cells \in Seq(Cell)
           /\ DOMAIN Cells = 1..m_Size /\ m_Capacity \in Nat \ {0}
           /\ \A k \in Index : Off(k) \in 0..(m_Capacity - 1)
           /\ \A k \in Index : Off(k) < m_Size => Cells[Off(k) + 1] = CellOf(k)
           /\ \A i \in 1..m_Capacity : \E k \in Index : Off(k) = i - 1
           /\ \A j, k \in Index : Off(j) = Off(k) => j = k
BY CellsAtHolds, CapacityAssumption DEF CellsAt

(* A step that neither moves the tail nor touches the used part keeps the *)
(* cells, and adds those of the positions the head moves over.            *)
LEMMA CellsAppend ==
    ASSUME RingInv, RingInv', NEW n \in 0..m_Capacity, m_Tail' = m_Tail, m_Size' = m_Size + n,
           NEW c \in Seq(Cell), Len(c) = n,
           \A k \in Index : Off(k) < m_Size => CellOf(k)' = CellOf(k),
           \A k \in Index : m_Size <= Off(k) /\ Off(k) < m_Size + n
                               => CellOf(k)' = c[Off(k) - m_Size + 1]
    PROVE  Cells' = Cells \o c
<1> DEFINE d == Cells \o c
<1>1. /\ m_Size \in 0..m_Capacity /\ Len(Cells) = m_Size /\ Cells \in Seq(Cell)
      /\ m_Capacity \in Nat
      /\ \A k \in Index : Off(k) \in 0..(m_Capacity - 1)
      /\ \A k \in Index : Off(k) < m_Size => Cells[Off(k) + 1] = CellOf(k)
  BY CellsNow
<1>2. /\ d \in Seq(Cell) /\ Len(d) = m_Size + n
      /\ \A i \in 1..(m_Size + n) : d[i] = IF i <= m_Size THEN Cells[i] ELSE c[i - m_Size]
  BY <1>1, ConcatProperties
<1> HIDE DEF d
<1>3. \A k : Off(k)' = Off(k)
  BY DEF Off
<1>4. ASSUME NEW k \in Index, Off(k) < m_Size + n PROVE CellOf(k)' = d[Off(k) + 1]
  <2>1. Off(k) \in Int /\ Off(k) + 1 \in 1..(m_Size + n) /\ m_Size \in Int /\ n \in Int
    BY <1>1, <1>4
  <2>2. CASE Off(k) < m_Size
    <3>1. d[Off(k) + 1] = Cells[Off(k) + 1]
      BY <1>2, <2>1, <2>2
    <3> QED
      BY <1>1, <2>2, <3>1
  <2>3. CASE m_Size <= Off(k)
    <3>1. d[Off(k) + 1] = c[Off(k) + 1 - m_Size]
      BY <1>2, <2>1, <2>3
    <3>2. Off(k) + 1 - m_Size = Off(k) - m_Size + 1
      BY <2>1
    <3> QED
      BY <1>4, <2>3, <3>1, <3>2
  <2> QED
    BY <2>1, <2>2, <2>3
<1>5. Cells' = d
  BY <1>2, <1>3, <1>4, CellsAre
<1> QED
  BY <1>5 DEF d

(* A step that moves the tail on drops the cells it passes. *)
LEMMA CellsDrop ==
    ASSUME RingInv, RingInv', NEW n \in 0..m_Capacity, n <= m_Size, MoveTail(n),
           m_Head' = m_Head, m_Buffer' = m_Buffer, reserved' = reserved
    PROVE  Cells' = SubSeq(Cells, n + 1, Len(Cells))
<1> DEFINE d == SubSeq(Cells, n + 1, Len(Cells))
<1>1. /\ m_Size \in 0..m_Capacity /\ Len(Cells) = m_Size /\ Cells \in Seq(Cell)
      /\ m_Capacity \in Nat /\ DOMAIN Cells = 1..m_Size
      /\ \A k \in Index : Off(k) \in 0..(m_Capacity - 1)
      /\ \A k \in Index : Off(k) < m_Size => Cells[Off(k) + 1] = CellOf(k)
  BY CellsNow
<1>2. /\ d \in Seq(Cell) /\ Len(d) = m_Size - n
      /\ \A i \in 1..(m_Size - n) : d[i] = Cells[n + i]
  <2>1. \A i \in (n + 1)..m_Size : Cells[i] \in Cell
    BY <1>1, ElementOfSeq
  <2>2. n + 1 \in Int /\ m_Size \in Int
    BY <1>1
  <2>3. /\ d \in Seq(Cell)
        /\ Len(d) = IF n + 1 <= m_Size THEN m_Size - (n + 1) + 1 ELSE 0
        /\ \A i \in 1..(m_Size - (n + 1) + 1) : d[i] = Cells[(n + 1) + i - 1]
    BY <1>1, <2>1, <2>2, SubSeqProperties
  <2> HIDE DEF d
  <2>4. Len(d) = m_Size - n /\ m_Size - (n + 1) + 1 = m_Size - n
    BY <1>1, <2>3
  <2>5. \A i \in 1..(m_Size - n) : (n + 1) + i - 1 = n + i
    BY <1>1
  <2> QED
    BY <2>3, <2>4, <2>5
<1> HIDE DEF d
<1>3. m_Size' = m_Size - n /\ \A k \in Index : Off(k) >= n => Off(k)' = Off(k) - n
  <2>1. m_Size >= n
    BY <1>1
  <2> QED
    BY <2>1, TailMoves DEF RingInv, MoveTail
<1>4. \A k : CellOf(k)' = CellOf(k)
  BY DEF CellOf, Covers
<1>5. ASSUME NEW k \in Index, Off(k) < n PROVE Off(k)' >= m_Size'
  <2>1. m_Tail \in Index /\ m_Size \in 0..m_Capacity /\ m_Tail' = (m_Tail + n) % m_Capacity
    BY DEF RingInv, TypeOK, MoveTail
  <2>2. m_Tail' = Wrap(m_Tail + n)
    BY <2>1, ModFacts, TwoLaps
  <2>3. Off(k)' = IF k >= m_Tail' THEN k - m_Tail' ELSE k + m_Capacity - m_Tail'
    BY DEF Off
  <2> QED
    BY <1>1, <1>3, <1>5, <2>1, <2>2, <2>3 DEF Off, Index, Wrap
<1>6. ASSUME NEW k \in Index, Off(k)' < m_Size' PROVE CellOf(k)' = d[Off(k)' + 1]
  <2>1. Off(k) \in Int /\ m_Size \in Int /\ Off(k) >= 0 /\ n \in Int
    BY <1>1
  <2>2. Off(k) >= n
    <3> SUFFICES ASSUME Off(k) < n PROVE FALSE
      BY <2>1
    <3>1. Off(k)' >= m_Size' /\ m_Size' \in Int /\ Off(k)' \in Int
      <4>1. Off(k)' \in Int
        BY CellsAtNext, CapacityAssumption DEF CellsAt, Index
      <4> QED
        BY <1>3, <1>5, <2>1, <4>1
    <3> QED
      BY <1>6, <3>1
  <2>3. Off(k)' = Off(k) - n
    BY <1>3, <2>2
  <2>4. Off(k)' + 1 \in 1..(m_Size - n) /\ n + (Off(k)' + 1) = Off(k) + 1 /\ Off(k) < m_Size
    BY <1>3, <1>6, <2>1, <2>2, <2>3
  <2>5. d[Off(k)' + 1] = Cells[Off(k) + 1]
    BY <1>2, <2>4
  <2> QED
    BY <1>1, <1>4, <2>4, <2>5
<1>7. Cells' = d
  BY <1>2, <1>3, <1>6, CellsAre
<1> QED
  BY <1>7 DEF d

(* A step that leaves ring, tail and reservations keeps the cells. *)
LEMMA CellsSame ==
    ASSUME UNCHANGED <<m_Tail, m_Size, m_Buffer, reserved>>
    PROVE  Cells' = Cells
BY DEF Cells, Covers, Spans, Least

(* A copy into different positions can be read back. *)
LEMMA StoredAt ==
    ASSUME NEW spans \in Seq(Index), NEW s \in Seq(Byte), Len(s) <= Len(spans),
           \A i, j \in 1..Len(s) : spans[i] = spans[j] => i = j,
           NEW i \in 1..Len(s)
    PROVE  Stored(spans, s)[spans[i]] = s[i]
<1>1. DOMAIN s = 1..Len(s) /\ spans[i] \in Index
  OBVIOUS
<1>2. \A j \in DOMAIN s : spans[j] = spans[i] => j = i
  BY <1>1
<1>3. (CHOOSE j \in DOMAIN s : spans[j] = spans[i]) = i
  BY <1>1, <1>2
<1> QED
  BY <1>1, <1>3 DEF Stored

(* Spans at consecutive distances are different positions. *)
LEMMA RunDistinct ==
    ASSUME TypeOK, NEW spans \in Seq(Index), NEW a \in Int,
           \A i \in DOMAIN spans : Off(spans[i]) = a + i - 1
    PROVE  \A i, j \in 1..Len(spans) : spans[i] = spans[j] => i = j
<1>1. DOMAIN spans = 1..Len(spans) /\ Len(spans) \in Nat
  OBVIOUS
<1>2. ASSUME NEW i \in 1..Len(spans), NEW j \in 1..Len(spans), spans[i] = spans[j]
      PROVE  i = j
  <2>1. a + i - 1 = a + j - 1
    BY <1>1, <1>2
  <2> QED
    BY <1>1, <2>1
<1> QED
  BY <1>2

(* The tail does not move and the reservations stay. *)
LEMMA RunsStay ==
    ASSUME ReservedRuns, m_Tail' = m_Tail, reserved' = reserved
    PROVE  ReservedRuns'
BY DEF ReservedRuns, Off

(* A step that moves the tail brings every position it keeps closer alike. *)
LEMMA RunsCloser ==
    ASSUME RingInv, RunInv, NEW n \in 0..m_Capacity, n <= m_Size, MoveTail(n),
           m_Head' = m_Head, UNCHANGED <<m_Buffer, reserved, window, arrived>>,
           \A w \in Writers : \A k \in Covers(reserved[w]) : n <= Off(k)
    PROVE  RunInv'
<1>1. m_Size' = m_Size - n /\ \A k \in Index : Off(k) >= n => Off(k)' = Off(k) - n
  <2>1. m_Size >= n
    BY CoverFacts DEF RingInv
  <2> QED
    BY <2>1, TailMoves DEF RingInv, MoveTail
<1>2. /\ n \in Int /\ m_Size \in Int /\ \A k \in Index : Off(k) \in Int
      /\ reserved \in [Writers -> Seq(Index)] /\ window \in Seq(Index)
  BY CoverFacts DEF RingInv, TypeOK
<1>3. ASSUME NEW w \in Writers, NEW i \in DOMAIN reserved[w]
      PROVE  Off(reserved[w][i])' = Off(reserved[w][1])' + i - 1
  <2>1. /\ reserved[w] \in Seq(Index) /\ DOMAIN reserved[w] = 1..Len(reserved[w])
        /\ 1 \in DOMAIN reserved[w] /\ i \in Int
    BY <1>2
  <2>2. \A j \in DOMAIN reserved[w] : reserved[w][j] \in Index /\ Off(reserved[w][j]) >= n
    BY <1>2, <2>1 DEF Covers
  <2>3. \A j \in DOMAIN reserved[w] : Off(reserved[w][j])' = Off(reserved[w][j]) - n
    <3>1. \A j \in DOMAIN reserved[w] : reserved'[w][j] = reserved[w][j]
      OBVIOUS
    <3>2. \A j \in DOMAIN reserved[w] : Off(reserved[w][j])' = IF reserved[w][j] >= m_Tail'
             THEN reserved[w][j] - m_Tail' ELSE reserved[w][j] + m_Capacity - m_Tail'
      BY <3>1 DEF Off
    <3>3. \A k \in Index : Off(k) >= n =>
             (IF k >= m_Tail' THEN k - m_Tail' ELSE k + m_Capacity - m_Tail') = Off(k) - n
      BY <1>1 DEF Off
    <3> QED
      BY <2>2, <3>2, <3>3
  <2>4. Off(reserved[w][i]) = Off(reserved[w][1]) + i - 1
    BY DEF RunInv, ReservedRuns, WindowRun
  <2>5. Off(reserved[w][i]) \in Int /\ Off(reserved[w][1]) \in Int
    BY <1>2, <2>1, <2>2
  <2>6. Off(reserved[w][i])' = Off(reserved[w][i]) - n /\ Off(reserved[w][1])' = Off(reserved[w][1]) - n
    BY <2>1, <2>3
  <2> QED
    BY <1>2, <2>1, <2>4, <2>5, <2>6
<1>4. ASSUME NEW i \in DOMAIN window PROVE Off(window[i])' = m_Size' + i - 1
  <2>1. window[i] \in Index /\ i \in Int /\ i >= 1
    BY <1>2
  <2>2. Off(window[i]) = m_Size + i - 1
    BY DEF RunInv, ReservedRuns, WindowRun
  <2>3. Off(window[i]) >= n
    BY <1>2, <2>1, <2>2
  <2>4. Off(window[i])' = Off(window[i]) - n
    <3>1. window'[i] = window[i]
      OBVIOUS
    <3>2. Off(window[i])' = IF window[i] >= m_Tail'
             THEN window[i] - m_Tail' ELSE window[i] + m_Capacity - m_Tail'
      BY <3>1 DEF Off
    <3>3. \A k \in Index : Off(k) >= n =>
             (IF k >= m_Tail' THEN k - m_Tail' ELSE k + m_Capacity - m_Tail') = Off(k) - n
      BY <1>1 DEF Off
    <3> QED
      BY <2>1, <2>3, <3>2, <3>3
  <2> QED
    BY <1>1, <1>2, <2>1, <2>2, <2>4
<1> QED
  BY <1>3, <1>4 DEF RunInv, ReservedRuns, WindowRun, ArrivedThere

(* No window, nothing arrived. *)
LEMMA NoWindow ==
    ASSUME RingInv, window = <<>>
    PROVE  arrived = <<>>
<1>1. Len(arrived) <= 0 /\ arrived \in Seq(Byte)
  BY DEF RingInv, WindowInv, TypeOK
<1> QED
  BY <1>1

(* The runs, call by call: Pop and Consume pass no reservation. *)
LEMMA RunPop ==
    ASSUME RingInv, RunInv, NEW n \in 0..m_Capacity, Pop(n) \/ Consume(n)
    PROVE  RunInv'
<1>1. /\ n <= m_Size /\ MoveTail(n) /\ m_Head' = m_Head
      /\ UNCHANGED <<m_Buffer, reserved, window, arrived>>
  BY CoverFacts DEF Pop, Consume, users, RingInv
<1>2. ASSUME NEW w \in Writers, NEW k \in Covers(reserved[w]) PROVE n <= Off(k)
  <2>1. CASE Pop(n)
    <3> SUFFICES ASSUME Off(k) < n PROVE FALSE
      BY CoverFacts DEF RingInv
    <3>1. k \in Covers(Spans(m_Tail, n))
      BY CoverFacts, OffFacts DEF RingInv
    <3> QED
      BY <2>1, <3>1 DEF Pop, Filled
  <2>2. CASE Consume(n)
    BY <2>2, CoverFacts, ViewFacts DEF RingInv, ReservedInv, Consume
  <2> QED
    BY <2>1, <2>2
<1> QED
  BY <1>1, <1>2, RunsCloser

(* Write needs a buffer without a window. *)
LEMMA RunWrite ==
    ASSUME RingInv, RunInv, NEW s, Write(s)
    PROVE  RunInv'
<1>1. window = <<>> /\ m_Tail' = m_Tail /\ reserved' = reserved /\ window' = window /\ arrived' = arrived
  BY DEF Write, users
<1>2. arrived = <<>>
  BY <1>1, NoWindow
<1>3. ReservedRuns'
  BY <1>1, RunsStay DEF RunInv
<1>4. WindowRun' /\ ArrivedThere'
  BY <1>1, <1>2 DEF WindowRun, ArrivedThere
<1> QED
  BY <1>3, <1>4 DEF RunInv

(* AllocateWrite reserves the run behind the head. *)
LEMMA RunAllocate ==
    ASSUME RingInv, RunInv, NEW n \in 0..m_Capacity, NEW w \in Writers, AllocateWrite(w, n)
    PROVE  RunInv'
<1> DEFINE sp == Spans(m_Head, n)
<1>1. /\ window = <<>> /\ m_Tail' = m_Tail /\ reserved' = [reserved EXCEPT ![w] = sp]
      /\ window' = window /\ arrived' = arrived /\ m_Capacity - m_Size >= n
  BY DEF AllocateWrite
<1>2. arrived = <<>>
  BY <1>1, NoWindow
<1>3. /\ sp \in Seq(Index) /\ DOMAIN sp = 1..n /\ m_Size \in Int
      /\ \A i \in 1..n : Off(sp[i]) = m_Size + i - 1
  <2>1. m_Head \in Index /\ m_Size \in Int /\ m_Size + n <= m_Capacity
    BY <1>1, CoverFacts DEF RingInv, TypeOK
  <2> QED
    BY <2>1, SpanFacts, OffFacts DEF RingInv
<1> HIDE DEF sp
<1>4. reserved \in [Writers -> Seq(Index)] /\ \A k : Off(k)' = Off(k)
  BY <1>1 DEF RingInv, TypeOK, Off
<1>5. reserved'[w] = sp /\ \A v \in Writers : v # w => reserved'[v] = reserved[v]
  BY <1>1, <1>4
<1>6. ASSUME NEW v \in Writers, NEW i \in DOMAIN reserved'[v]
      PROVE  Off(reserved[v][i])' = Off(reserved[v][1])' + i - 1
  <2>0. \A j : Off(reserved[v][j])' = IF reserved'[v][j] >= m_Tail
            THEN reserved'[v][j] - m_Tail ELSE reserved'[v][j] + m_Capacity - m_Tail
    BY <1>1 DEF Off
  <2>1. CASE v = w
    <3>1. i \in 1..n /\ 1 \in 1..n
      BY <1>3, <1>5, <2>1
    <3>2. \A j : Off(reserved[v][j])' = Off(sp[j])
      BY <1>5, <2>0, <2>1 DEF Off
    <3>3. Off(sp[i]) = m_Size + i - 1 /\ Off(sp[1]) = m_Size + 1 - 1
      BY <1>3, <3>1
    <3> QED
      BY <1>3, <3>1, <3>2, <3>3
  <2>2. CASE v # w
    <3>1. \A j : Off(reserved[v][j])' = Off(reserved[v][j])
      BY <1>5, <2>0, <2>2 DEF Off
    <3>2. Off(reserved[v][i]) = Off(reserved[v][1]) + i - 1
      BY <1>5, <2>2 DEF RunInv, ReservedRuns
    <3> QED
      BY <3>1, <3>2
  <2> QED
    BY <2>1, <2>2
<1>7. WindowRun' /\ ArrivedThere'
  BY <1>1, <1>2 DEF WindowRun, ArrivedThere
<1> QED
  BY <1>6, <1>7 DEF RunInv, ReservedRuns

(* Fill gives a run back. *)
LEMMA RunFill ==
    ASSUME RingInv, RunInv, NEW w \in Writers, NEW s, Fill(w, s)
    PROVE  RunInv'
<1>1. /\ m_Tail' = m_Tail /\ window' = window /\ arrived' = arrived
      /\ reserved' = [reserved EXCEPT ![w] = <<>>] /\ reserved[w] # <<>>
  BY DEF Fill
<1>2. window = <<>>
  BY <1>1 DEF RingInv, WindowInv
<1>3. arrived = <<>>
  BY <1>2, NoWindow
<1>4. WindowRun' /\ ArrivedThere'
  BY <1>1, <1>2, <1>3 DEF WindowRun, ArrivedThere
<1>5. \A v \in Writers : v # w => reserved'[v] = reserved[v]
  BY <1>1 DEF RingInv, TypeOK
<1>6. reserved'[w] = <<>>
  BY <1>1 DEF RingInv, TypeOK
<1>7. ReservedRuns'
  <2> SUFFICES ASSUME NEW v \in Writers, NEW i \in DOMAIN reserved'[v]
               PROVE  Off(reserved[v][i])' = Off(reserved[v][1])' + i - 1
    BY DEF ReservedRuns
  <2>1. v # w
    BY <1>6
  <2>2. \A j : Off(reserved[v][j])' = Off(reserved[v][j])
    BY <1>1, <1>5, <2>1 DEF Off
  <2>3. Off(reserved[v][i]) = Off(reserved[v][1]) + i - 1
    BY <1>5, <2>1 DEF RunInv, ReservedRuns
  <2> QED
    BY <2>2, <2>3
<1> QED
  BY <1>4, <1>7 DEF RunInv

(* GetWriteableBuffers hands out the run behind the head. *)
LEMMA RunGetWriteable ==
    ASSUME RingInv, RunInv, GetWriteableBuffers
    PROVE  RunInv'
<1> DEFINE sp == Spans(m_Head, m_Capacity - m_Size)
<1>1. /\ window = <<>> /\ UNCHANGED <<m_Tail, m_Size, m_Buffer, reserved, arrived>>
      /\ window' = sp
  BY DEF GetWriteableBuffers, Idle, ring
<1>2. arrived = <<>>
  BY <1>1, NoWindow
<1>3. DOMAIN sp = 1..(m_Capacity - m_Size) /\ \A i \in DOMAIN sp : Off(sp[i]) = m_Size + i - 1
  <2>1. /\ m_Head \in Index /\ m_Capacity - m_Size \in 0..m_Capacity
        /\ m_Size + (m_Capacity - m_Size) <= m_Capacity
    BY CoverFacts DEF RingInv, TypeOK
  <2> QED
    BY <2>1, SpanFacts, OffFacts DEF RingInv
<1> HIDE DEF sp
<1>4. WindowRun'
  <2>1. \A i : Off(window[i])' = Off(sp[i])
    BY <1>1 DEF Off
  <2> QED
    BY <1>1, <1>3, <2>1 DEF WindowRun
<1>5. ReservedRuns' /\ ArrivedThere'
  BY <1>1, <1>2, RunsStay DEF RunInv, ArrivedThere
<1> QED
  BY <1>4, <1>5 DEF RunInv

(* Arrive stores what arrived at the front of the window. *)
LEMMA RunArrive ==
    ASSUME RingInv, RunInv, NEW n \in 0..m_Capacity, NEW s \in Bytes(n), Arrive(s)
    PROVE  RunInv'
<1>1. /\ UNCHANGED <<m_Tail, m_Size, reserved, window>> /\ m_Buffer' = Stored(window, s)
      /\ Len(s) \in 1..Len(window) /\ arrived' = s
  BY DEF Arrive
<1>2. window \in Seq(Index) /\ s \in Seq(Byte) /\ Len(s) <= Len(window) /\ m_Size \in Int /\ TypeOK
  BY <1>1, BytesFacts, CoverFacts DEF RingInv, TypeOK
<1>3. \A i, j \in 1..Len(window) : window[i] = window[j] => i = j
  BY <1>2, RunDistinct DEF RunInv, WindowRun
<1>4. \A i \in 1..Len(s) : m_Buffer'[window[i]] = s[i]
  <2>1. \A i, j \in 1..Len(s) : window[i] = window[j] => i = j
    BY <1>2, <1>3
  <2> QED
    BY <1>1, <1>2, <2>1, StoredAt
<1>5. ArrivedThere'
  BY <1>1, <1>2, <1>4 DEF ArrivedThere
<1>6. ReservedRuns' /\ WindowRun'
  BY <1>1, RunsStay DEF RunInv, WindowRun, Off
<1> QED
  BY <1>5, <1>6 DEF RunInv

(* CommitWrite gives the window back. *)
LEMMA RunCommit ==
    ASSUME RingInv, RunInv, CommitWrite
    PROVE  RunInv'
<1>1. m_Tail' = m_Tail /\ reserved' = reserved /\ window' = <<>> /\ arrived' = <<>>
  BY DEF CommitWrite
<1> QED
  BY <1>1, RunsStay DEF RunInv, WindowRun, ArrivedThere

(* Clear finds neither runs nor window. *)
LEMMA RunClear ==
    ASSUME RingInv, RunInv, Clear
    PROVE  RunInv'
<1>1. /\ UNCHANGED <<reserved, window, arrived>> /\ window = <<>>
      /\ \A w \in Writers : reserved[w] = <<>>
  BY DEF Clear, Idle, users
<1>2. arrived = <<>>
  BY <1>1, NoWindow
<1> QED
  BY <1>1, <1>2 DEF RunInv, ReservedRuns, WindowRun, ArrivedThere

(* A step that keeps the ring, the reservations and the window. *)
LEMMA RunSame ==
    ASSUME RunInv, UNCHANGED <<m_Tail, m_Size, m_Buffer, reserved, window, arrived>>
    PROVE  RunInv'
BY RunsStay DEF RunInv, WindowRun, ArrivedThere, Off

(* The runs are consecutive in every state. *)
LEMMA RunInit == Init => RunInv
BY DEF Init, RunInv, ReservedRuns, WindowRun, ArrivedThere

(* Every step keeps the runs. *)
LEMMA RunNext == RingInv /\ RunInv /\ [Next]_vars => RunInv'
<1> SUFFICES ASSUME RingInv, RunInv, [Next]_vars PROVE RunInv'
  OBVIOUS
<1>1. ASSUME NEW n \in 0..m_Capacity, Pop(n) \/ Consume(n) PROVE RunInv'
  BY <1>1, RunPop
<1>2. ASSUME NEW n \in 0..m_Capacity, Peek(n) \/ ReadRefused(n) \/ WriteRefused(n) PROVE RunInv'
  BY <1>2, RunSame DEF Peek, ReadRefused, WriteRefused, ring, users
<1>3. ASSUME NEW n \in 0..m_Capacity, NEW w \in Writers, AllocateWrite(w, n) PROVE RunInv'
  BY <1>3, RunAllocate
<1>4. ASSUME NEW n \in 0..m_Capacity, NEW s \in Bytes(n),
             Write(s) \/ Arrive(s) \/ \E w \in Writers : Fill(w, s)
      PROVE  RunInv'
  BY <1>4, RunWrite, RunArrive, RunFill
<1>5. CASE GetReadBuffers
  BY <1>5, RunSame DEF GetReadBuffers, ring
<1>6. CASE GetWriteableBuffers \/ CommitWrite \/ Clear
  BY <1>6, RunGetWriteable, RunCommit, RunClear
<1>7. CASE UNCHANGED vars
  BY <1>7, RunSame DEF vars, ring, users
<1> QED
  BY <1>1, <1>2, <1>3, <1>4, <1>5, <1>6, <1>7 DEF Next

-----------------------------------------------------------------------------
(* Every call is a call of the byte queue, or leaves it alone. *)

(* The cells behind a copy of the first n. *)
LEMMA ShownFacts ==
    ASSUME RingInv, NEW n \in 0..m_Capacity, n <= m_Size
    PROVE  Loaded(Spans(m_Tail, n)) \in BQ!Shown(SubSeq(Cells, 1, n))
<1> DEFINE sp == Spans(m_Tail, n)
           d  == SubSeq(Cells, 1, n)
<1>1. /\ m_Size \in 0..m_Capacity /\ Len(Cells) = m_Size /\ Cells \in Seq(Cell)
      /\ m_Capacity \in Nat /\ DOMAIN Cells = 1..m_Size
      /\ \A k \in Index : Off(k) < m_Size => Cells[Off(k) + 1] = CellOf(k)
  BY CellsNow
<1>2. d \in Seq(Cell) /\ Len(d) = n /\ DOMAIN d = 1..n /\ \A i \in 1..n : d[i] = Cells[i]
  <2>1. \A i \in 1..n : Cells[i] \in Cell
    BY <1>1, ElementOfSeq
  <2>2. /\ d \in Seq(Cell) /\ Len(d) = IF 1 <= n THEN n - 1 + 1 ELSE 0
        /\ \A i \in 1..(n - 1 + 1) : d[i] = Cells[1 + i - 1]
    BY <1>1, <2>1, SubSeqProperties
  <2> HIDE DEF d
  <2>3. Len(d) = n /\ n - 1 + 1 = n /\ \A i \in 1..n : 1 + i - 1 = i
    BY <1>1, <2>2
  <2> QED
    BY <2>2, <2>3
<1>3. /\ DOMAIN sp = 1..n /\ sp \in Seq(Index) /\ Len(sp) = n
      /\ \A i \in 1..n : Off(sp[i]) = i - 1
  BY SpanFacts, OffFacts DEF RingInv, TypeOK
<1> HIDE DEF sp, d
<1>4. \A i \in 1..n : sp[i] \in Index
  BY <1>3, ElementOfSeq
<1>5. ASSUME NEW i \in 1..n
      PROVE  m_Buffer[sp[i]] \in Byte /\ (d[i] \in Byte => m_Buffer[sp[i]] = d[i])
  <2>1. Off(sp[i]) < m_Size /\ Off(sp[i]) + 1 = i
    BY <1>1, <1>3
  <2>2. d[i] = CellOf(sp[i])
    BY <1>1, <1>2, <1>4, <2>1
  <2> QED
    BY <1>4, <2>2, OwnerFacts
<1>6. Loaded(sp) = [i \in 1..n |-> m_Buffer[sp[i]]]
  BY <1>3 DEF Loaded
<1>7. Loaded(sp) \in [1..n -> Byte]
  BY <1>5, <1>6
<1>8. Loaded(sp) \in BQ!Shown(d)
  BY <1>2, <1>5, <1>6, <1>7 DEF BQ!Shown, BQ!Bytes
<1> QED
  BY <1>8 DEF sp, d

(* Pop takes the first n cells and returns their bytes. *)
LEMMA PopTakes ==
    ASSUME RingInv, RingInv', NEW n \in 0..m_Capacity, Pop(n)
    PROVE  BQ!Take(n)
<1>1. /\ n <= m_Size /\ MoveTail(n) /\ m_Head' = m_Head /\ m_Buffer' = m_Buffer
      /\ reserved' = reserved /\ out' = [ok |-> TRUE, bytes |-> Loaded(Spans(m_Tail, n))]
  BY CoverFacts DEF Pop, users, RingInv, Result
<1>2. Cells' = SubSeq(Cells, n + 1, Len(Cells))
  BY <1>1, CellsDrop
<1>3. n <= Len(Cells)
  BY <1>1, CellsNow
<1>4. \E s \in BQ!Shown(SubSeq(Cells, 1, n)) : out' = [ok |-> TRUE, bytes |-> s]
  BY <1>1, ShownFacts
<1> QED
  BY <1>2, <1>3, <1>4 DEF BQ!Take, BQ!Drop, BQ!Result

(* Consume drops the first n cells. *)
LEMMA ConsumeDiscards ==
    ASSUME RingInv, RingInv', NEW n \in 0..m_Capacity, Consume(n)
    PROVE  BQ!Discard(n)
<1>1. /\ n <= m_Size /\ MoveTail(n) /\ m_Head' = m_Head /\ m_Buffer' = m_Buffer
      /\ reserved' = reserved /\ out' = [ok |-> TRUE, bytes |-> <<>>]
  BY CoverFacts DEF Consume, RingInv, Result
<1>2. Cells' = SubSeq(Cells, n + 1, Len(Cells))
  BY <1>1, CellsDrop
<1>3. n <= Len(Cells)
  BY <1>1, CellsNow
<1> QED
  BY <1>1, <1>2, <1>3 DEF BQ!Discard, BQ!Drop, BQ!Result

(* Peek shows the first n cells. *)
LEMMA PeekLooks ==
    ASSUME RingInv, NEW n \in 0..m_Capacity, Peek(n)
    PROVE  BQ!Look(n)
<1>1. /\ n <= m_Size /\ UNCHANGED <<m_Tail, m_Size, m_Buffer, reserved>>
      /\ out' = [ok |-> TRUE, bytes |-> Loaded(Spans(m_Tail, n))]
  BY CoverFacts DEF Peek, ring, users, RingInv, Result
<1>2. Cells' = Cells
  BY <1>1, CellsSame
<1>3. n <= Len(Cells)
  BY <1>1, CellsNow
<1>4. \E s \in BQ!Shown(SubSeq(Cells, 1, n)) : out' = [ok |-> TRUE, bytes |-> s]
  BY <1>1, ShownFacts
<1> QED
  BY <1>2, <1>3, <1>4 DEF BQ!Look, BQ!Result

(* What the ring refuses, the queue refuses. *)
LEMMA RefusalsRefuse ==
    ASSUME RingInv, NEW n \in 0..m_Capacity, ReadRefused(n) \/ WriteRefused(n)
    PROVE  BQ!TakeRefused(n) \/ BQ!PutRefused(n)
<1>1. UNCHANGED <<m_Tail, m_Size, m_Buffer, reserved>> /\ out' = [ok |-> FALSE, bytes |-> <<>>]
  BY DEF ReadRefused, WriteRefused, ring, users, Result
<1>2. Cells' = Cells
  BY <1>1, CellsSame
<1>3. n > Len(Cells) \/ n > m_Capacity - Len(Cells)
  BY CellsNow DEF ReadRefused, WriteRefused
<1> QED
  BY <1>1, <1>2, <1>3 DEF BQ!TakeRefused, BQ!PutRefused, BQ!Room, BQ!Result

(* What a step stores in the spans behind the head is what it appends. *)
LEMMA WritePuts ==
    ASSUME RingInv, RingInv', NEW n \in 0..m_Capacity, NEW s \in Bytes(n), Write(s)
    PROVE  BQ!Put(s)
<1> DEFINE sp == Spans(m_Head, n)
<1>1. s \in Seq(Byte) /\ Len(s) = n /\ DOMAIN s = 1..n
  BY BytesFacts
<1>2. /\ m_Capacity - m_Size >= n /\ m_Buffer' = Stored(sp, s) /\ m_Size' = m_Size + n
      /\ m_Tail' = m_Tail /\ reserved' = reserved /\ out' = [ok |-> TRUE, bytes |-> <<>>]
  BY <1>1 DEF Write, MoveHead, users, Result
<1>3. /\ sp \in Seq(Index) /\ Len(sp) = n /\ DOMAIN sp = 1..n /\ m_Size \in Int
      /\ \A i \in 1..n : Off(sp[i]) = m_Size + i - 1
  <2>1. m_Head \in Index /\ m_Size \in Int /\ m_Size + n <= m_Capacity
    BY <1>2, CoverFacts DEF RingInv, TypeOK
  <2> QED
    BY <2>1, SpanFacts, OffFacts DEF RingInv
<1> HIDE DEF sp
<1>4. \A i \in 1..n : m_Buffer'[sp[i]] = s[i] /\ sp[i] \in Index
  <2>1. \A i, j \in 1..n : sp[i] = sp[j] => i = j
    BY <1>3, RunDistinct DEF RingInv
  <2>2. \A i \in 1..n : sp[i] \in Index
    BY <1>3, ElementOfSeq
  <2>3. Len(s) <= Len(sp)
    BY <1>1, <1>3
  <2>4. ASSUME NEW i \in 1..n PROVE Stored(sp, s)[sp[i]] = s[i]
    <3>1. i \in 1..Len(s) /\ \A j, k \in 1..Len(s) : sp[j] = sp[k] => j = k
      BY <1>1, <2>1
    <3> QED
      BY <1>1, <1>3, <2>3, <3>1, StoredAt
  <2> QED
    BY <1>2, <2>2, <2>4
<1>5. /\ m_Size \in 0..m_Capacity /\ Len(Cells) = m_Size
      /\ \A k \in Index : Off(k) \in 0..(m_Capacity - 1)
      /\ \A j, k \in Index : Off(j) = Off(k) => j = k
  BY CellsNow
<1>6. ASSUME NEW k \in Index, Off(k) < m_Size PROVE CellOf(k)' = CellOf(k)
  <2>1. k \notin Covers(sp)
    <3>1. \A i \in 1..n : Off(sp[i]) >= m_Size
      BY <1>3
    <3> QED
      BY <1>3, <1>5, <1>6, <3>1 DEF Covers
  <2>2. m_Buffer'[k] = m_Buffer[k]
    <3>1. m_Buffer \in [Index -> Byte] /\ Len(s) <= Len(sp)
      BY <1>1, <1>3 DEF RingInv, TypeOK
    <3>2. Stored(sp, s)[k] = m_Buffer[k]
      BY <1>1, <1>3, <2>1, <3>1, StoredFacts
    <3> QED
      BY <1>2, <3>2
  <2> QED
    BY <1>2, <2>2 DEF CellOf, Covers
<1>7. ASSUME NEW k \in Index, m_Size <= Off(k), Off(k) < m_Size + n
      PROVE  CellOf(k)' = s[Off(k) - m_Size + 1]
  <2>1. Off(k) - m_Size + 1 \in 1..n /\ m_Size + (Off(k) - m_Size + 1) - 1 = Off(k)
    BY <1>3, <1>5, <1>7
  <2>2. k = sp[Off(k) - m_Size + 1]
    BY <1>3, <1>4, <1>5, <2>1
  <2>3. m_Buffer'[k] = s[Off(k) - m_Size + 1]
    BY <1>4, <2>1, <2>2
  <2>4. \A w \in Writers : k \notin Covers(reserved[w])
    <3>1. \A w \in Writers : \A j \in Covers(reserved[w]) : Off(j) < m_Size
      BY DEF RingInv, ReservedInv
    <3> QED
      BY <1>3, <1>5, <1>7, <3>1
  <2>5. \A w \in Writers : k \notin Covers(reserved[w])'
    BY <1>2, <2>4 DEF Covers
  <2> QED
    BY <2>3, <2>5 DEF CellOf
<1>8. s \in Seq(Cell)
  BY <1>1 DEF Cell
<1>9. Cells' = Cells \o s
  BY <1>1, <1>2, <1>6, <1>7, <1>8, CellsAppend
<1> QED
  BY <1>1, <1>2, <1>5, <1>9 DEF BQ!Put, BQ!Room, BQ!Result

(* CommitWrite appends what the kernel stored behind the head. *)
LEMMA CommitPuts ==
    ASSUME RingInv, RunInv, RingInv', CommitWrite
    PROVE  /\ Len(arrived) \in 0..m_Capacity /\ arrived \in Bytes(Len(arrived))
           /\ BQ!Put(arrived)
<1> DEFINE n == Len(arrived)
<1>1. /\ m_Capacity - m_Size >= n /\ m_Size' = m_Size + n /\ arrived # <<>>
      /\ UNCHANGED <<m_Buffer, m_Tail, reserved>> /\ out' = [ok |-> TRUE, bytes |-> <<>>]
  BY DEF CommitWrite, MoveHead, Result
<1>2. /\ arrived \in Seq(Byte) /\ window \in Seq(Index) /\ n \in Nat /\ Len(window) \in Nat
      /\ n <= Len(window) /\ DOMAIN arrived = 1..n /\ DOMAIN window = 1..Len(window)
  BY DEF RingInv, TypeOK, WindowInv
<1>3. window # <<>> /\ \A w \in Writers : reserved[w] = <<>>
  <2>1. window # <<>>
    BY <1>1, NoWindow
  <2> QED
    BY <2>1 DEF RingInv, WindowInv
<1>4. /\ m_Size \in 0..m_Capacity /\ Len(Cells) = m_Size /\ m_Capacity \in Nat
      /\ \A k \in Index : Off(k) \in 0..(m_Capacity - 1)
      /\ \A j, k \in Index : Off(j) = Off(k) => j = k
  BY CellsNow
<1>5. n \in 0..m_Capacity
  BY <1>1, <1>2, <1>4
<1>6. \A k : CellOf(k)' = CellOf(k) /\ CellOf(k) = m_Buffer[k]
  BY <1>1, <1>3 DEF CellOf, Covers
<1>7. ASSUME NEW k \in Index, m_Size <= Off(k), Off(k) < m_Size + n
      PROVE  CellOf(k)' = arrived[Off(k) - m_Size + 1]
  <2> DEFINE i == Off(k) - m_Size + 1
  <2>1. i \in 1..n /\ i \in 1..Len(window) /\ m_Size + i - 1 = Off(k)
    BY <1>2, <1>4, <1>7
  <2> HIDE DEF i
  <2>2. window[i] \in Index /\ Off(window[i]) = m_Size + i - 1 /\ m_Buffer[window[i]] = arrived[i]
    BY <1>2, <2>1, ElementOfSeq DEF RunInv, WindowRun, ArrivedThere
  <2>3. k = window[i]
    BY <1>4, <2>1, <2>2
  <2>4. CellOf(k)' = arrived[i]
    BY <1>6, <2>2, <2>3
  <2> QED
    BY <2>4 DEF i
<1>8. arrived \in Seq(Cell) /\ arrived \in Bytes(n)
  BY <1>2 DEF Cell, Bytes
<1>9. Cells' = Cells \o arrived
  <2>1. \A k \in Index : Off(k) < m_Size => CellOf(k)' = CellOf(k)
    BY <1>6
  <2> QED
    BY <1>1, <1>5, <1>7, <1>8, <2>1, CellsAppend
<1> QED
  BY <1>1, <1>4, <1>5, <1>8, <1>9 DEF BQ!Put, BQ!Room, BQ!Result

(* AllocateWrite appends n cells of the writer. *)
LEMMA AllocateReserves ==
    ASSUME RingInv, RingInv', NEW n \in 0..m_Capacity, NEW w \in Writers, AllocateWrite(w, n)
    PROVE  BQ!Reserve(w, n)
<1> DEFINE sp == Spans(m_Head, n)
           c  == [i \in 1..n |-> w]
<1>1. /\ m_Capacity - m_Size >= n /\ reserved' = [reserved EXCEPT ![w] = sp]
      /\ m_Size' = m_Size + n /\ m_Tail' = m_Tail /\ m_Buffer' = m_Buffer
      /\ reserved[w] = <<>> /\ out' = [ok |-> TRUE, bytes |-> <<>>]
  BY DEF AllocateWrite, MoveHead, Result
<1>2. /\ \A k \in Covers(sp) : k \in Index /\ m_Size <= Off(k)
      /\ \A i \in 1..n : sp[i] \in Index /\ Off(sp[i]) = m_Size + i - 1
      /\ DOMAIN sp = 1..n
  <2>1. m_Head \in Index /\ m_Size \in Int /\ m_Size + n <= m_Capacity
    BY <1>1, CoverFacts DEF RingInv, TypeOK
  <2>2. \A k \in Covers(sp) : k \in Index /\ m_Size <= Off(k)
    BY <1>1, FreeSpans DEF RingInv
  <2>3. /\ sp \in Seq(Index) /\ Len(sp) = n /\ DOMAIN sp = 1..n
        /\ \A i \in 1..n : Off(sp[i]) = m_Size + i - 1
    BY <2>1, SpanFacts, OffFacts DEF RingInv
  <2> HIDE DEF sp
  <2>4. \A i \in 1..n : sp[i] \in Index
    BY <2>3, ElementOfSeq
  <2> QED
    BY <2>2, <2>3, <2>4
<1>3. c \in Seq(Cell) /\ Len(c) = n /\ \A i \in 1..n : c[i] = w
  BY DEF Cell
<1> HIDE DEF sp, c
<1>4. /\ \A v \in Writers : v # w => Covers(reserved[v])' = Covers(reserved[v])
      /\ Covers(reserved[w])' = Covers(sp) /\ Covers(reserved[w]) = {}
  BY <1>1 DEF Covers, RingInv, TypeOK
<1>5. /\ m_Size \in 0..m_Capacity /\ Len(Cells) = m_Size /\ m_Capacity \in Nat
      /\ \A k \in Index : Off(k) \in 0..(m_Capacity - 1)
      /\ \A j, k \in Index : Off(j) = Off(k) => j = k
  BY CellsNow
<1>6. ASSUME NEW k \in Index, Off(k) < m_Size PROVE CellOf(k)' = CellOf(k)
  <2>1. k \notin Covers(sp)
    BY <1>2, <1>5, <1>6
  <2>2. \A v \in Writers : k \in Covers(reserved[v])' <=> k \in Covers(reserved[v])
    BY <1>4, <2>1
  <2> QED
    BY <1>1, <2>2 DEF CellOf
<1>7. ASSUME NEW k \in Index, m_Size <= Off(k), Off(k) < m_Size + n
      PROVE  CellOf(k)' = c[Off(k) - m_Size + 1]
  <2>1. Off(k) - m_Size + 1 \in 1..n /\ m_Size + (Off(k) - m_Size + 1) - 1 = Off(k)
    BY <1>5, <1>7
  <2>2. k = sp[Off(k) - m_Size + 1]
    BY <1>2, <1>5, <2>1
  <2>3. k \in Covers(reserved[w])'
    BY <1>2, <1>4, <2>1, <2>2 DEF Covers
  <2>4. \A v \in Writers : v # w => k \notin Covers(reserved[v])'
    <3>1. \A v \in Writers : \A j \in Covers(reserved[v]) : Off(j) < m_Size
      BY DEF RingInv, ReservedInv
    <3> QED
      BY <1>4, <1>5, <1>7, <3>1
  <2>5. CellOf(k)' = w
    BY <2>3, <2>4 DEF CellOf
  <2> QED
    BY <1>3, <2>1, <2>5
<1>8. Cells' = Cells \o c
  BY <1>1, <1>3, <1>6, <1>7, CellsAppend
<1> QED
  BY <1>1, <1>5, <1>8 DEF BQ!Reserve, BQ!Room, BQ!Result, c

(* The cells of a writer are a run of as many as it reserved. *)
LEMMA WriterCells ==
    ASSUME RingInv, RunInv, NEW w \in Writers, reserved[w] # <<>>
    PROVE  /\ Len(reserved[w]) \in Nat /\ Off(reserved[w][1]) \in Nat
           /\ Off(reserved[w][1]) + Len(reserved[w]) <= m_Size
           /\ \A i \in 1..m_Size : Cells[i] = w <=>
                 i \in (Off(reserved[w][1]) + 1)..(Off(reserved[w][1]) + Len(reserved[w]))
<1> DEFINE r == reserved[w]
           a == Off(r[1])
           L == Len(r)
<1>1. /\ r \in Seq(Index) /\ DOMAIN r = 1..L /\ L \in Nat /\ 1 \in 1..L /\ L \in 1..L
      /\ \A j \in 1..L : r[j] \in Index
  <2>1. r \in Seq(Index) /\ r # <<>>
    BY DEF RingInv, TypeOK
  <2> HIDE DEF r
  <2> QED
    BY <2>1, ElementOfSeq
<1>2. \A j \in 1..L : Off(r[j]) = a + j - 1 /\ Off(r[j]) < m_Size
  <2>1. \A j \in 1..L : r[j] \in Covers(r)
    BY <1>1 DEF Covers
  <2>2. \A k \in Covers(r) : Off(k) < m_Size
    BY DEF RingInv, ReservedInv
  <2>3. \A j \in 1..L : Off(r[j]) = a + j - 1
    BY <1>1 DEF RunInv, ReservedRuns
  <2> QED
    BY <2>1, <2>2, <2>3
<1>3. /\ m_Size \in 0..m_Capacity /\ m_Capacity \in Nat
      /\ \A k \in Index : Off(k) \in 0..(m_Capacity - 1)
      /\ \A k \in Index : Off(k) < m_Size => Cells[Off(k) + 1] = CellOf(k)
      /\ \A i \in 1..m_Capacity : \E k \in Index : Off(k) = i - 1
      /\ \A j, k \in Index : Off(j) = Off(k) => j = k
  BY CellsNow
<1>4. \A k \in Index : k \in Covers(r) <=> CellOf(k) = w
  BY OwnerFacts
<1> HIDE DEF a, L
<1>5. a \in Nat /\ a + L <= m_Size
  <2>1. a \in Nat
    BY <1>1, <1>3 DEF a
  <2>2. a + L - 1 < m_Size
    BY <1>1, <1>2
  <2> QED
    BY <1>1, <1>3, <2>1, <2>2
<1> HIDE DEF r
<1>6. ASSUME NEW i \in 1..m_Size PROVE Cells[i] = w <=> i \in (a + 1)..(a + L)
  <2>1. i \in 1..m_Capacity /\ i \in Int
    BY <1>3
  <2>2. PICK k \in Index : Off(k) = i - 1
    BY <1>3, <2>1
  <2>3. Cells[i] = CellOf(k)
    <3>1. Off(k) < m_Size /\ Off(k) + 1 = i
      BY <1>3, <2>1, <2>2
    <3> QED
      BY <1>3, <3>1
  <2>4. ASSUME i \in (a + 1)..(a + L) PROVE k \in Covers(r)
    <3>1. i - a \in 1..L /\ a + (i - a) - 1 = i - 1
      BY <1>1, <1>5, <2>1, <2>4
    <3>2. Off(r[i - a]) = i - 1 /\ r[i - a] \in Index
      BY <1>1, <1>2, <3>1
    <3>3. k = r[i - a]
      BY <1>3, <2>2, <3>2
    <3> QED
      BY <1>1, <3>1, <3>3 DEF Covers
  <2>5. ASSUME k \in Covers(r) PROVE i \in (a + 1)..(a + L)
    <3>1. PICK j \in 1..L : k = r[j]
      BY <1>1, <2>5 DEF Covers
    <3>2. i - 1 = a + j - 1
      BY <1>2, <2>2, <3>1
    <3> QED
      BY <1>1, <1>5, <2>1, <3>2
  <2> QED
    BY <1>4, <2>3, <2>4, <2>5
<1> QED
  BY <1>1, <1>5, <1>6 DEF a, L, r

(* How many of the first i cells are the writer's. *)
LEMMA HeldFacts ==
    ASSUME RingInv, RunInv, NEW w \in Writers, reserved[w] # <<>>
    PROVE  /\ \A j \in 1..Len(reserved[w]) : BQ!Held(w, Off(reserved[w][1]) + j) = j
           /\ BQ!Held(w, Len(Cells)) = Len(reserved[w])
<1> DEFINE a == Off(reserved[w][1])
           L == Len(reserved[w])
<1>1. /\ L \in Nat /\ a \in Nat /\ a + L <= m_Size /\ m_Size \in Nat /\ Len(Cells) = m_Size
      /\ \A i \in 1..m_Size : Cells[i] = w <=> i \in (a + 1)..(a + L)
  BY WriterCells, CellsNow
<1> HIDE DEF a, L
<1>2. ASSUME NEW j \in 1..L PROVE BQ!Held(w, a + j) = j
  <2>1. {i \in 1..(a + j) : Cells[i] = w} = (a + 1)..(a + j)
    <3>1. \A i \in 1..(a + j) : i \in 1..m_Size /\ (i \in (a + 1)..(a + L) <=> i \in (a + 1)..(a + j))
      BY <1>1
    <3>2. \A i \in (a + 1)..(a + j) : i \in 1..(a + j)
      BY <1>1
    <3> QED
      BY <1>1, <3>1, <3>2
  <2>2. Cardinality((a + 1)..(a + j)) = j
    <3>1. a + 1 \in Int /\ a + j \in Int /\ a + 1 <= a + j /\ (a + j) - (a + 1) + 1 = j
      BY <1>1
    <3>2. Cardinality((a + 1)..(a + j)) = IF a + 1 > a + j THEN 0 ELSE (a + j) - (a + 1) + 1
      BY <3>1, FS_Interval
    <3> QED
      BY <3>1, <3>2
  <2> QED
    BY <2>1, <2>2 DEF BQ!Held, BQ!Cardinality, Cardinality
<1>3. BQ!Held(w, m_Size) = L
  <2>1. {i \in 1..m_Size : Cells[i] = w} = (a + 1)..(a + L)
    <3>1. \A i \in (a + 1)..(a + L) : i \in 1..m_Size
      BY <1>1
    <3> QED
      BY <1>1, <3>1
  <2>2. Cardinality((a + 1)..(a + L)) = L
    <3>1. a + 1 \in Int /\ a + L \in Int
      BY <1>1
    <3>2. Cardinality((a + 1)..(a + L)) = IF a + 1 > a + L THEN 0 ELSE (a + L) - (a + 1) + 1
      BY <3>1, FS_Interval
    <3>3. (a + 1 > a + L => L = 0) /\ (a + L) - (a + 1) + 1 = L
      BY <1>1
    <3> QED
      BY <3>2, <3>3
  <2> QED
    BY <2>1, <2>2 DEF BQ!Held, BQ!Cardinality, Cardinality
<1> QED
  BY <1>1, <1>2, <1>3 DEF a, L

(* Fill puts the j-th byte into the j-th of the writer's cells. *)
LEMMA FillFills ==
    ASSUME RingInv, RunInv, RingInv', NEW n \in 0..m_Capacity, NEW s \in Bytes(n),
           NEW w \in Writers, Fill(w, s)
    PROVE  BQ!Fill(w, s)
<1> DEFINE r == reserved[w]
           a == Off(r[1])
           d == [i \in 1..m_Size |-> IF Cells[i] = w THEN s[BQ!Held(w, i)] ELSE Cells[i]]
<1>1. /\ UNCHANGED <<m_Tail, m_Size, out>> /\ m_Buffer' = Stored(r, s) /\ Len(s) = Len(r)
      /\ reserved' = [reserved EXCEPT ![w] = <<>>] /\ r # <<>>
  BY DEF Fill
<1>2. s \in Seq(Byte) /\ Len(s) = n /\ DOMAIN s = 1..n /\ \A j \in 1..n : s[j] \in Byte
  BY BytesFacts DEF Bytes
<1>3. r \in Seq(Index) /\ DOMAIN r = 1..n /\ \A j \in 1..n : r[j] \in Index
  <2>1. r \in Seq(Index)
    BY DEF RingInv, TypeOK
  <2>2. Len(r) = n
    BY <1>1, <1>2
  <2> HIDE DEF r
  <2> QED
    BY <2>1, <2>2, ElementOfSeq
<1>4. /\ a \in Nat /\ a + n <= m_Size
      /\ \A i \in 1..m_Size : Cells[i] = w <=> i \in (a + 1)..(a + n)
  BY <1>1, <1>2, WriterCells
<1>5. BQ!Held(w, Len(Cells)) = n /\ \A j \in 1..n : BQ!Held(w, a + j) = j
  BY <1>1, <1>2, HeldFacts
<1>6. \A j \in 1..n : Off(r[j]) = a + j - 1
  BY <1>3 DEF RunInv, ReservedRuns
<1>7. /\ \A v \in Writers : v # w => Covers(reserved[v])' = Covers(reserved[v])
      /\ Covers(reserved[w])' = {}
  BY <1>1 DEF Covers, RingInv, TypeOK
<1>8. /\ m_Size \in 0..m_Capacity /\ Len(Cells) = m_Size /\ m_Capacity \in Nat
      /\ Cells \in Seq(Cell) /\ DOMAIN Cells = 1..m_Size
      /\ \A i \in 1..m_Size : Cells[i] \in Cell
      /\ \A k \in Index : Off(k) \in 0..(m_Capacity - 1)
      /\ \A k \in Index : Off(k) < m_Size => Cells[Off(k) + 1] = CellOf(k)
      /\ \A j, k \in Index : Off(j) = Off(k) => j = k
  BY CellsNow, ElementOfSeq
<1>9. \A k \in Index : k \in Covers(r) <=> CellOf(k) = w
  BY OwnerFacts
<1>10. \A j \in 1..n : m_Buffer'[r[j]] = s[j]
  <2>1. a \in Int /\ Len(r) = n
    BY <1>1, <1>2, <1>4
  <2> HIDE DEF r, a
  <2>2. \A i, j \in 1..n : r[i] = r[j] => i = j
    BY <1>3, <1>6, <2>1, RunDistinct DEF RingInv
  <2>3. Len(s) <= Len(r)
    BY <1>2, <2>1
  <2>4. \A j \in 1..n : Stored(r, s)[r[j]] = s[j]
    BY <1>2, <1>3, <2>2, <2>3, StoredAt
  <2> QED
    BY <1>1, <2>4
<1>11. \A k \in Index : k \notin Covers(r) => m_Buffer'[k] = m_Buffer[k]
  <2>1. m_Buffer \in [Index -> Byte] /\ Len(s) <= Len(r)
    BY <1>1, <1>2 DEF RingInv, TypeOK
  <2> HIDE DEF r
  <2>2. \A k \in Index : k \notin Covers(r) => Stored(r, s)[k] = m_Buffer[k]
    BY <1>2, <1>3, <2>1, StoredFacts
  <2> QED
    BY <1>1, <2>2
<1>12. r = reserved[w]
  OBVIOUS
<1> HIDE DEF r, a
<1>13. d \in Seq(Cell) /\ Len(d) = m_Size
  <2>1. ASSUME NEW i \in 1..m_Size, Cells[i] = w PROVE s[BQ!Held(w, i)] \in Byte
    <3>1. i - a \in 1..n /\ a + (i - a) = i
      BY <1>4, <1>8, <2>1
    <3>2. BQ!Held(w, i) = i - a
      BY <1>5, <3>1
    <3> QED
      BY <1>2, <3>1, <3>2
  <2>2. \A i \in 1..m_Size : (IF Cells[i] = w THEN s[BQ!Held(w, i)] ELSE Cells[i]) \in Cell
    BY <1>8, <2>1 DEF Cell
  <2>3. d \in [1..m_Size -> Cell] /\ m_Size \in Nat
    BY <1>8, <2>2
  <2> HIDE DEF d
  <2> QED
    BY <2>3
<1>14. ASSUME NEW k \in Index, Off(k) < m_Size PROVE CellOf(k)' = d[Off(k) + 1]
  <2>1. Off(k) + 1 \in 1..m_Size /\ Off(k) \in Int /\ Cells[Off(k) + 1] = CellOf(k)
    BY <1>8, <1>14
  <2>2. d[Off(k) + 1] = IF CellOf(k) = w THEN s[BQ!Held(w, Off(k) + 1)] ELSE CellOf(k)
    BY <2>1
  <2> HIDE DEF d
  <2>3. CASE k \in Covers(r)
    <3>1. PICK j \in 1..n : k = r[j]
      BY <1>3, <2>3 DEF Covers
    <3>2. Off(k) + 1 = a + j
      BY <1>4, <1>6, <2>1, <3>1
    <3>3. d[Off(k) + 1] = s[j]
      BY <1>5, <1>9, <2>2, <2>3, <3>1, <3>2
    <3>4. \A v \in Writers : k \notin Covers(reserved[v])'
      <4>1. \A v \in Writers : v # w => Covers(reserved[v]) \cap Covers(reserved[w]) = {}
        BY DEF RingInv, ReservedInv
      <4> QED
        BY <1>7, <1>12, <2>3, <4>1
    <3>5. CellOf(k)' = m_Buffer'[k]
      BY <3>4 DEF CellOf
    <3> QED
      BY <1>10, <3>1, <3>3, <3>5
  <2>4. CASE k \notin Covers(r)
    <3>1. d[Off(k) + 1] = CellOf(k)
      BY <1>9, <2>2, <2>4
    <3>2. \A v \in Writers : k \in Covers(reserved[v])' <=> k \in Covers(reserved[v])
      BY <1>7, <1>12, <2>4
    <3>3. m_Buffer'[k] = m_Buffer[k]
      BY <1>11, <2>4
    <3>4. CellOf(k)' = CellOf(k)
      BY <3>2, <3>3 DEF CellOf
    <3> QED
      BY <3>1, <3>4
  <2> QED
    BY <2>3, <2>4
<1>15. Cells' = d
  <2>1. \A k : Off(k)' = Off(k)
    BY <1>1 DEF Off
  <2> HIDE DEF d
  <2> QED
    BY <1>1, <1>13, <1>14, <2>1, CellsAre
<1> QED
  BY <1>1, <1>2, <1>5, <1>8, <1>15 DEF BQ!Fill, d

(* Clear empties the queue. *)
LEMMA ClearEmpties ==
    ASSUME RingInv, Clear
    PROVE  BQ!Empty
<1>1. m_Size' = 0 /\ out' = [ok |-> TRUE, bytes |-> <<>>]
  BY DEF Clear, Result
<1>2. Cells' = <<>>
  BY <1>1 DEF Cells
<1> QED
  BY <1>1, <1>2 DEF BQ!Empty, BQ!Result

(* Handing out spans is not a step of the queue, nor is a byte that the    *)
(* kernel stores past the head.                                            *)
LEMMA SpansStutter ==
    ASSUME RingInv, GetReadBuffers \/ GetWriteableBuffers \/ UNCHANGED vars
    PROVE  UNCHANGED <<Cells, out>>
<1>1. UNCHANGED <<m_Tail, m_Size, m_Buffer, reserved>> /\ out' = out
  BY DEF GetReadBuffers, GetWriteableBuffers, vars, ring, users
<1> QED
  BY <1>1, CellsSame

(* What arrives is past the head, outside the cells. *)
LEMMA ArriveStutters ==
    ASSUME RingInv, RingInv', NEW n \in 0..m_Capacity, NEW s \in Bytes(n), Arrive(s)
    PROVE  UNCHANGED <<Cells, out>>
<1>1. /\ UNCHANGED <<m_Tail, m_Size, reserved, out>> /\ m_Buffer' = Stored(window, s)
      /\ Len(s) \in 1..Len(window)
  BY DEF Arrive
<1>2. /\ window \in Seq(Index) /\ s \in Seq(Byte) /\ Len(s) <= Len(window)
      /\ m_Buffer \in [Index -> Byte]
  BY <1>1, BytesFacts DEF RingInv, TypeOK
<1>3. /\ m_Size \in 0..m_Capacity /\ Len(Cells) = m_Size /\ Cells \in Seq(Cell)
      /\ \A k \in Index : Off(k) \in 0..(m_Capacity - 1)
      /\ \A k \in Index : Off(k) < m_Size => Cells[Off(k) + 1] = CellOf(k)
  BY CellsNow
<1>4. ASSUME NEW k \in Index, Off(k) < m_Size PROVE CellOf(k)' = Cells[Off(k) + 1]
  <2>1. k \notin Covers(window)
    BY <1>3, <1>4 DEF RingInv, WindowInv
  <2>2. m_Buffer'[k] = m_Buffer[k]
    BY <1>1, <1>2, <2>1, StoredFacts
  <2>3. CellOf(k)' = CellOf(k)
    BY <1>1, <2>2 DEF CellOf, Covers
  <2> QED
    BY <1>3, <1>4, <2>3
<1>5. \A k : Off(k)' = Off(k)
  BY <1>1 DEF Off
<1>6. Cells' = Cells
  BY <1>1, <1>3, <1>4, <1>5, CellsAre
<1> QED
  BY <1>1, <1>6

(* A new ring is the empty queue. *)
LEMMA QueueInit == Init => BQ!Init
<1> SUFFICES ASSUME Init PROVE BQ!Init
  OBVIOUS
<1>1. m_Size = 0 /\ out = [ok |-> TRUE, bytes |-> <<>>]
  BY DEF Init
<1>2. Cells = <<>>
  BY <1>1 DEF Cells
<1> QED
  BY <1>1, <1>2 DEF BQ!Init

(* Every step of the ring is a step of the queue, or leaves it alone. *)
LEMMA QueueNext == RingInv /\ RunInv /\ RingInv' /\ [Next]_vars => [BQ!Next]_<<Cells, out>>
<1> SUFFICES ASSUME RingInv, RunInv, RingInv', [Next]_vars
             PROVE  BQ!Next \/ UNCHANGED <<Cells, out>>
  OBVIOUS
<1>1. ASSUME NEW n \in 0..m_Capacity,
             Pop(n) \/ Peek(n) \/ Consume(n) \/ ReadRefused(n) \/ WriteRefused(n)
      PROVE  BQ!Next
  <2>1. BQ!PutRefused(n) \/ BQ!Take(n) \/ BQ!Look(n) \/ BQ!Discard(n) \/ BQ!TakeRefused(n)
    BY <1>1, PopTakes, PeekLooks, ConsumeDiscards, RefusalsRefuse
  <2> QED
    BY <2>1 DEF BQ!Next
<1>2. ASSUME NEW n \in 0..m_Capacity, NEW w \in Writers, AllocateWrite(w, n) PROVE BQ!Next
  <2>1. BQ!Reserve(w, n)
    BY <1>2, AllocateReserves
  <2> QED
    BY <2>1 DEF BQ!Next
<1>3. ASSUME NEW n \in 0..m_Capacity, NEW s \in Bytes(n),
             Write(s) \/ \E w \in Writers : Fill(w, s)
      PROVE  BQ!Next
  <2>1. BQ!Put(s) \/ \E w \in Writers : BQ!Fill(w, s)
    BY <1>3, WritePuts, FillFills
  <2>2. s \in BQ!Bytes(n)
    BY DEF Bytes, BQ!Bytes
  <2> QED
    BY <2>1, <2>2 DEF BQ!Next
<1>4. CASE CommitWrite
  <2>1. /\ Len(arrived) \in 0..m_Capacity /\ arrived \in BQ!Bytes(Len(arrived))
        /\ BQ!Put(arrived)
    BY <1>4, CommitPuts DEF Bytes, BQ!Bytes
  <2> QED
    BY <2>1 DEF BQ!Next
<1>5. CASE Clear
  BY <1>5, ClearEmpties DEF BQ!Next
<1>6. ASSUME NEW n \in 0..m_Capacity, NEW s \in Bytes(n), Arrive(s) PROVE UNCHANGED <<Cells, out>>
  BY <1>6, ArriveStutters
<1>7. CASE GetReadBuffers \/ GetWriteableBuffers \/ UNCHANGED vars
  BY <1>7, SpansStutter
<1> QED
  BY <1>1, <1>2, <1>3, <1>4, <1>5, <1>6, <1>7 DEF Next

(* The ring is a bounded FIFO of bytes for every capacity: bytes come out  *)
(* in the order they went in, across the wrap-around, however many writers *)
(* reserve room and in whatever order they fill it.                        *)
THEOREM RingIsByteQueue == Spec => ImplementsByteQueue
<1>1. Spec => []RunInv
  BY RunInit, RunNext, RingInductive, PTL DEF Spec
<1> QED
  BY <1>1, RingInductive, QueueInit, QueueNext, PTL DEF Spec, ImplementsByteQueue, BQ!Spec
=============================================================================
