----------------------------- MODULE ByteQueue -----------------------------
(***************************************************************************)
(* What IBuffer (LibCommons/IBuffer.ixx) promises: a bounded FIFO of bytes *)
(* whose producer may reserve room first and write into it later.  Room    *)
(* reserved and not yet written is a cell that names its writer; reading   *)
(* such a cell may give any byte.                                          *)
(***************************************************************************)
EXTENDS Integers, Sequences, FiniteSets

CONSTANTS Byte, Writers, Capacity

VARIABLES
    q,    \* the cells between tail and head: bytes and reserved cells
    out   \* the result of the last call: did it succeed, the bytes it gave

Bytes(n) == [1..n -> Byte]
Shown(cells) == {s \in Bytes(Len(cells)) :
                    \A i \in DOMAIN cells : cells[i] \in Byte => s[i] = cells[i]}

Result(ok, s) == out' = [ok |-> ok, bytes |-> s]
Room          == Capacity - Len(q)
Drop(n)       == SubSeq(q, n + 1, Len(q))

Init == q = <<>> /\ out = [ok |-> TRUE, bytes |-> <<>>]

Put(s)        == Len(s) <= Room /\ q' = q \o s /\ Result(TRUE, <<>>)
Reserve(w, n) == n <= Room /\ q' = q \o [i \in 1..n |-> w] /\ Result(TRUE, <<>>)
PutRefused(n) == n > Room /\ Result(FALSE, <<>>) /\ UNCHANGED q

(* The k-th cell that writer w reserved takes the k-th byte of s. *)
Held(w, i) == Cardinality({j \in 1..i : q[j] = w})
Fill(w, s) ==
    /\ Held(w, Len(q)) = Len(s)
    /\ q' = [i \in DOMAIN q |-> IF q[i] = w THEN s[Held(w, i)] ELSE q[i]]
    /\ UNCHANGED out

Take(n)        == n <= Len(q) /\ q' = Drop(n)
                    /\ \E s \in Shown(SubSeq(q, 1, n)) : Result(TRUE, s)
Look(n)        == n <= Len(q) /\ UNCHANGED q
                    /\ \E s \in Shown(SubSeq(q, 1, n)) : Result(TRUE, s)
Discard(n)     == n <= Len(q) /\ q' = Drop(n) /\ Result(TRUE, <<>>)
TakeRefused(n) == n > Len(q) /\ Result(FALSE, <<>>) /\ UNCHANGED q
Empty          == q' = <<>> /\ Result(TRUE, <<>>)

Next ==
    \/ \E n \in 0..Capacity :
         \/ \E s \in Bytes(n) : Put(s) \/ (\E w \in Writers : Fill(w, s))
         \/ \E w \in Writers : Reserve(w, n)
         \/ PutRefused(n) \/ Take(n) \/ Look(n) \/ Discard(n) \/ TakeRefused(n)
    \/ Empty

Spec == Init /\ [][Next]_<<q, out>>
=============================================================================
