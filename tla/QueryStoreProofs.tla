---------------------------- MODULE QueryStoreProofs ----------------------------
(***************************************************************************)
(* Proofs about QueryStore for every value of its constants: that a record *)
(* is whole, and that what observers are told of it is true, as theorems   *)
(* of the specification.                                                   *)
(*                                                                         *)
(* RecordsWhole is not inductive.  IInv adds where the pump of a record is *)
(* and what follows from it (PumpAgrees): the table the record is in, what *)
(* its state file says and whether it may have segments; that segments     *)
(* hold frames, save the one a record begins with (Kept), without which    *)
(* two of them could have one base; and that a sweep removes only records  *)
(* that left the table or are still in it (Swept).                         *)
(*                                                                         *)
(* ObserversServed speaks of calls that have ended.  Served adds what is   *)
(* true of those that go on: a subscription holds the frames from the end  *)
(* of the replay to the writer's next one (Buffered), and each segment of  *)
(* a listing is still on disk, or was pruned, and goes on to the next one  *)
(* while the record grows (Reads).                                         *)
(***************************************************************************)
EXTENDS QueryStore, FoldTheorems

-----------------------------------------------------------------------------
(* The folds of the store *)

(* StillRoom is a sequence, no longer than the one it is taken from. *)
LEMMA RoomLeft ==
    ASSUME NEW fills \in Seq(Nat)
    PROVE  StillRoom(fills) \in Seq(Nat) /\ Len(StillRoom(fills)) <= Len(fills)
PROOF
<1> DEFINE D == DOMAIN fills
           next(room, n) == IF n < ObserverBuffer THEN Append(room, n + 1) ELSE room
           step == [i \in D |-> [room \in Seq(Nat) |-> next(room, fills[i])]]
<1>1. \A i \in D : fills[i] \in Nat
  OBVIOUS
<1>2. \A s \in SUBSET D : s # {} => Max(s) \in s /\ Max(s) \in D
  BY Positions, Zenon
<1>3. ASSUME NEW room \in Seq(Nat), NEW n \in Nat
      PROVE  next(room, n) \in Seq(Nat) /\ Len(next(room, n)) <= Len(room) + 1
  <2>1. Len(room) \in Nat /\ Append(room, n + 1) \in Seq(Nat) /\ Len(Append(room, n + 1)) = Len(room) + 1
    OBVIOUS
  <2>2. CASE n < ObserverBuffer
    BY <2>1, <2>2
  <2>3. CASE ~(n < ObserverBuffer)
    BY <2>1, <2>3
  <2> QED BY <2>2, <2>3
<1> HIDE DEF next
<1>4. PICK h \in [SUBSET D -> Seq(Nat)] : FoldsLeft(h, fills, <<>>, step)
  <2>1. step \in [DOMAIN fills -> [Seq(Nat) -> Seq(Nat)]] /\ <<>> \in Seq(Nat)
    BY <1>1, <1>3
  <2> HIDE DEF step
  <2> QED BY <2>1, FoldLeftDefined, Zenon
<1>5. h = [s \in SUBSET D |-> IF s = {} THEN <<>> ELSE next(h[s \ {Max(s)}], fills[Max(s)])]
  <2>1. ASSUME NEW s \in SUBSET D, s # {} PROVE h[s] = next(h[s \ {Max(s)}], fills[Max(s)])
    <3>1. Max(s) \in D /\ h[s \ {Max(s)}] \in Seq(Nat)
      BY <1>2, <2>1
    <3>2. h[s] = step[Max(s)][h[s \ {Max(s)}]]
      BY <1>4, <2>1 DEF FoldsLeft
    <3> QED BY <3>1, <3>2
  <2> QED BY <1>4, <2>1 DEF FoldsLeft
<1>6. PICK it : /\ it = [s \in SUBSET D |-> IF s = {} THEN <<>> ELSE next(it[s \ {Max(s)}], fills[Max(s)])]
                /\ StillRoom(fills) = it[DOMAIN fills]
  <2>1. PICK it : it = CHOOSE iter : iter = [s \in SUBSET D |-> 
                           IF s = {} THEN <<>> ELSE next(iter[s \ {Max(s)}], fills[Max(s)])]
    OBVIOUS
  <2>2. it = [s \in SUBSET D |-> IF s = {} THEN <<>> ELSE next(it[s \ {Max(s)}], fills[Max(s)])]
    BY <1>5, <2>1, Zenon
  <2>3. StillRoom(fills) = it[DOMAIN fills]
    BY <2>1, Zenon DEF StillRoom, FoldLeft, MapThenFoldSet, next
  <2> QED BY <2>2, <2>3
<1>7. IsFiniteSet(D) /\ Cardinality(D) = Len(fills)
  BY Positions, Zenon
<1>8. it[DOMAIN fills] \in {room \in Seq(Nat) : Len(room) <= Cardinality(D)}
  <2>1. PICK P : P = [s \in SUBSET D |-> {room \in Seq(Nat) : Len(room) <= Cardinality(s)}]
    OBVIOUS
  <2>2. it[{}] \in P[{}]
    <3>1. it[{}] = <<>> /\ Len(<<>>) = 0 /\ Cardinality({}) = 0 /\ {} \in SUBSET D
      BY <1>6, FS_EmptySet
    <3> QED BY <2>1, <3>1
  <2>3. ASSUME NEW s \in SUBSET D, s # {}, it[s \ {Max(s)}] \in P[s \ {Max(s)}] PROVE it[s] \in P[s]
    <3>1. PICK m, r : m = Max(s) /\ r = s \ {m}
      OBVIOUS
    <3>2. m \in s /\ m \in D /\ r \in SUBSET D
      BY <1>2, <2>3, <3>1
    <3>3. Cardinality(r) = Cardinality(s) - 1 /\ Cardinality(s) \in Nat
      BY <1>7, <3>1, <3>2, Smaller
    <3>4. it[r] \in Seq(Nat) /\ Len(it[r]) <= Cardinality(r)
      BY <2>1, <2>3, <3>1, <3>2
    <3>5. it[s] = next(it[r], fills[m])
      BY <1>6, <2>3, <3>1
    <3>6. it[s] \in Seq(Nat) /\ Len(it[s]) <= Len(it[r]) + 1
      BY <1>1, <1>3, <3>2, <3>4, <3>5
    <3>7. Len(it[s]) <= Cardinality(s)
      <4>1. Len(it[s]) \in Nat /\ Len(it[r]) \in Nat
        BY <3>4, <3>6
      <4> QED BY <3>3, <3>4, <3>6, <4>1
    <3> QED BY <2>1, <3>6, <3>7
  <2>4. it[DOMAIN fills] \in P[DOMAIN fills]
    BY <2>2, <2>3, FoldLeftKeeps, Zenon
  <2> QED BY <2>1, <2>4
<1> QED BY <1>6, <1>7, <1>8

(* SettledIn lists settled records. *)
LEMMA ListSettled ==
    ASSUME settled \in Seq(Query), NEW S
    PROVE  SettledIn(S) \in Seq(Range(settled))
PROOF
<1> DEFINE D == DOMAIN settled
           R == Range(settled)
           next(list, q) == IF q \in S THEN Append(list, q) ELSE list
           step == [i \in D |-> [list \in Seq(R) |-> next(list, settled[i])]]
<1>1. \A i \in D : settled[i] \in R
  BY DEF Range
<1>2. \A s \in SUBSET D : s # {} => Max(s) \in D
  BY Positions, Zenon
<1> HIDE DEF R
<1>3. ASSUME NEW list \in Seq(R), NEW q \in R PROVE next(list, q) \in Seq(R)
  OBVIOUS
<1> HIDE DEF next
<1>4. PICK h \in [SUBSET D -> Seq(R)] : FoldsLeft(h, settled, <<>>, step)
  <2>1. step \in [DOMAIN settled -> [Seq(R) -> Seq(R)]] /\ <<>> \in Seq(R)
    BY <1>1, <1>3
  <2> HIDE DEF step
  <2> QED BY <2>1, FoldLeftDefined, Zenon
<1>5. h = [s \in SUBSET D |-> IF s = {} THEN <<>> ELSE next(h[s \ {Max(s)}], settled[Max(s)])]
  <2>1. ASSUME NEW s \in SUBSET D, s # {} PROVE h[s] = next(h[s \ {Max(s)}], settled[Max(s)])
    <3>1. Max(s) \in D /\ h[s \ {Max(s)}] \in Seq(R)
      BY <1>2, <2>1
    <3>2. h[s] = step[Max(s)][h[s \ {Max(s)}]]
      BY <1>4, <2>1 DEF FoldsLeft
    <3> QED BY <3>1, <3>2
  <2> QED BY <1>4, <2>1 DEF FoldsLeft
<1>6. PICK it : /\ it = [s \in SUBSET D |-> IF s = {} THEN <<>> ELSE next(it[s \ {Max(s)}], settled[Max(s)])]
                /\ SettledIn(S) = it[DOMAIN settled]
  <2>1. PICK it : it = CHOOSE iter : iter = [s \in SUBSET D |-> 
                           IF s = {} THEN <<>> ELSE next(iter[s \ {Max(s)}], settled[Max(s)])]
    OBVIOUS
  <2>2. it = [s \in SUBSET D |-> IF s = {} THEN <<>> ELSE next(it[s \ {Max(s)}], settled[Max(s)])]
    BY <1>5, <2>1, Zenon
  <2>3. SettledIn(S) = it[DOMAIN settled]
    BY <2>1, Zenon DEF SettledIn, FoldLeft, MapThenFoldSet, next
  <2> QED BY <2>2, <2>3
<1>7. it[DOMAIN settled] \in Seq(R)
  <2>1. PICK P : P = [s \in SUBSET D |-> Seq(R)]
    OBVIOUS
  <2>2. it[{}] \in P[{}]
    BY <1>6, <2>1
  <2>3. ASSUME NEW s \in SUBSET D, s # {}, it[s \ {Max(s)}] \in P[s \ {Max(s)}] PROVE it[s] \in P[s]
    <3>1. Max(s) \in D /\ it[s \ {Max(s)}] \in Seq(R)
      BY <1>2, <2>1, <2>3
    <3>2. it[s] = next(it[s \ {Max(s)}], settled[Max(s)])
      BY <1>6, <2>3
    <3> QED BY <1>1, <1>3, <2>1, <3>1, <3>2
  <2>4. it[DOMAIN settled] \in P[DOMAIN settled]
    BY <2>2, <2>3, FoldLeftKeeps, Zenon
  <2> QED BY <2>1, <2>4
<1> QED BY <1>6, <1>7 DEF R

(* The bytes of a finite set of records are a number. *)
LEMMA SumOfBytes ==
    ASSUME NEW D, IsFiniteSet(D), \A x \in D : Bytes(x) \in Nat
    PROVE  MapThenSumSet(Bytes, D) \in Nat
PROOF
<1> DEFINE pick(s) == CHOOSE x \in s : TRUE
           ch == [s \in SUBSET D |-> pick(s)]
           step == [x \in D |-> [n \in Nat |-> Bytes(x) + n]]
<1>1. \A s \in SUBSET D : s # {} => ch[s] \in s
  OBVIOUS
<1> HIDE DEF pick
<1>2. PICK h \in [SUBSET D -> Nat] : Folds(h, D, 0, step, ch)
  <2>1. step \in [D -> [Nat -> Nat]] /\ 0 \in Nat
    OBVIOUS
  <2> HIDE DEF step, ch
  <2> QED BY <1>1, <2>1, FoldDefined, Zenon
<1>3. h = [s \in SUBSET D |-> IF s = {} THEN 0 
                              ELSE Bytes(pick(s)) + h[s \ {pick(s)}]]
  <2>1. ASSUME NEW s \in SUBSET D, s # {}
        PROVE  h[s] = Bytes(pick(s)) + h[s \ {pick(s)}]
    <3>1. PICK c : c = pick(s) /\ c = ch[s]
      OBVIOUS
    <3>2. c \in D /\ h[s \ {c}] \in Nat
      BY <1>1, <2>1, <3>1
    <3>3. h[s] = step[c][h[s \ {c}]]
      BY <1>2, <2>1, <3>1 DEF Folds
    <3>4. h[s] = Bytes(c) + h[s \ {c}]
      BY <3>2, <3>3
    <3> QED BY <3>1, <3>4, Zenon
  <2> QED BY <1>2, <2>1 DEF Folds
<1>4. PICK it : /\ it = [s \in SUBSET D |-> IF s = {} THEN 0 
                              ELSE Bytes(pick(s)) + it[s \ {pick(s)}]]
                /\ MapThenSumSet(Bytes, D) = it[D]
  <2>1. PICK it : it = CHOOSE iter : iter = [s \in SUBSET D |-> IF s = {} THEN 0 
                              ELSE Bytes(pick(s)) + iter[s \ {pick(s)}]]
    OBVIOUS
  <2>2. it = [s \in SUBSET D |-> IF s = {} THEN 0 
                              ELSE Bytes(pick(s)) + it[s \ {pick(s)}]]
    BY <1>3, <2>1, Zenon
  <2>3. MapThenSumSet(Bytes, D) = it[D]
    BY <2>1, Zenon DEF MapThenSumSet, MapThenFoldSet, pick
  <2> QED BY <2>2, <2>3
<1>5. \A s \in SUBSET D : it[s] \in Nat
  <2>1. PICK P : P = [s \in SUBSET D |-> Nat]
    OBVIOUS
  <2>2. it[{}] \in P[{}]
    BY <1>4, <2>1
  <2>3. ASSUME NEW s \in SUBSET D, s # {}, it[s \ {ch[s]}] \in P[s \ {ch[s]}] PROVE it[s] \in P[s]
    <3>1. PICK c : c = pick(s) /\ c = ch[s]
      OBVIOUS
    <3>2. c \in D /\ s \ {c} \in SUBSET D /\ it[s \ {c}] \in Nat
      BY <1>1, <2>1, <2>3, <3>1
    <3>3. it[s] = Bytes(c) + it[s \ {c}]
      BY <1>4, <2>3, <3>1, Zenon
    <3> QED BY <2>1, <3>2, <3>3
  <2>4. \A s \in SUBSET D : it[s] \in P[s]
    <3> HIDE DEF ch
    <3> QED BY <1>1, <2>2, <2>3, FoldKeeps, Zenon
  <2> QED BY <2>1, <2>4
<1> QED BY <1>4, <1>5

-----------------------------------------------------------------------------
(* Segments *)

(* The segments of a record follow one another; only the one that a record *)
(* begins with may be empty.                                               *)
Contiguous(segs) ==
    \A i \in 1..(Len(segs) - 1) : segs[i + 1].base = segs[i].base + segs[i].count
Positive(segs) ==
    \A i \in DOMAIN segs : segs[i].count > 0 \/ (Len(segs) = 1 /\ segs[1].base = 0)

(* The shape of a sequence of segments, and where it starts and ends *)
LEMMA SegmentsAre ==
    ASSUME NEW segs \in Segments
    PROVE  /\ Len(segs) \in Nat /\ DOMAIN segs = 1..Len(segs)
           /\ \A i \in 1..Len(segs) : /\ segs[i] \in [base : Nat, count : Nat]
                                      /\ segs[i].base \in Nat /\ segs[i].count \in Nat
           /\ segs # <<>> <=> Len(segs) >= 1
PROOF
<1>1. segs \in Seq([base : Nat, count : Nat])
  BY DEF Segments
<1>2. Len(segs) \in Nat /\ DOMAIN segs = 1..Len(segs) /\ (segs # <<>> <=> Len(segs) >= 1)
  BY <1>1
<1>3. \A i \in 1..Len(segs) : segs[i] \in [base : Nat, count : Nat]
  BY <1>1, <1>2, Positions, Zenon
<1> QED BY <1>2, <1>3

LEMMA Ends ==
    ASSUME NEW segs \in Segments
    PROVE  /\ EndOf(segs) \in Nat /\ StartOf(segs) \in Nat
           /\ segs = <<>> => EndOf(segs) = 0 /\ StartOf(segs) = 0
           /\ segs # <<>> => /\ EndOf(segs) = segs[Len(segs)].base + segs[Len(segs)].count
                             /\ StartOf(segs) = segs[1].base
PROOF
<1>1. CASE segs = <<>>
  BY <1>1 DEF EndOf, StartOf
<1>2. CASE segs # <<>>
  <2>1. Len(segs) \in 1..Len(segs) /\ 1 \in 1..Len(segs)
    BY <1>2, SegmentsAre
  <2>2. segs[Len(segs)].base \in Nat /\ segs[Len(segs)].count \in Nat /\ segs[1].base \in Nat
    BY <2>1, SegmentsAre
  <2>3. EndOf(segs) = segs[Len(segs)].base + segs[Len(segs)].count
    BY <1>2 DEF EndOf, Last
  <2>4. StartOf(segs) = segs[1].base
    BY <1>2 DEF StartOf
  <2> QED BY <1>2, <2>2, <2>3, <2>4
<1> QED BY <1>1, <1>2

(* The cap drops segments from the front and leaves one. *)
LEMMA CappedIs ==
    ASSUME NEW segs \in Segments, segs # <<>>
    PROVE  \E k \in 1..Len(segs) : Capped(segs) = SubSeq(segs, k, Len(segs))
PROOF
<1> DEFINE fits(i) == Held(SubSeq(segs, i, Len(segs))) <= MaxBytesPerQuery \/ i = Len(segs)
           T == {i \in DOMAIN segs : fits(i)}
<1>1. Len(segs) \in Nat /\ DOMAIN segs = 1..Len(segs) /\ Len(segs) \in 1..Len(segs)
  BY SegmentsAre
<1>2. Len(segs) \in T
  BY <1>1
<1>3. T \subseteq Nat /\ T # {}
  BY <1>1, <1>2
<1>4. PICK m \in T : \A j \in T : m <= j
  BY <1>3, Least
<1> HIDE DEF fits
<1>5. ASSUME NEW j \in 1..(m - 1) PROVE ~fits(j)
  <2>1. m \in 1..Len(segs)
    BY <1>1, <1>4
  <2>2. j \in 1..Len(segs) /\ ~(m <= j)
    BY <1>1, <2>1
  <2>3. j \notin T
    BY <1>4, <2>2
  <2> QED BY <1>1, <2>2, <2>3
<1>6. m \in DOMAIN segs /\ fits(m) /\ \A j \in 1..(m - 1) : ~fits(j)
  BY <1>4, <1>5
<1>7. PICK k : k = CHOOSE i \in DOMAIN segs : fits(i) /\ \A j \in 1..(i - 1) : ~fits(j)
  OBVIOUS
<1>8. k \in DOMAIN segs
  BY <1>6, <1>7, Zenon
<1>9. Capped(segs) = SubSeq(segs, k, Len(segs))
  BY <1>7, Zenon DEF Capped, fits
<1> QED BY <1>1, <1>8, <1>9

(* What a sequence with one element replaced, with one more, and without its *)
(* first ones is, element by element                                         *)
IsPut(g, seq, i, e) ==
    /\ g = [seq EXCEPT ![i] = e] /\ Len(g) = Len(seq) /\ g[i] = e
    /\ \A j \in 1..Len(seq) : j # i => g[j] = seq[j]
LEMMA Put ==
    ASSUME NEW S, NEW seq \in Seq(S), NEW i \in 1..Len(seq), NEW e \in S
    PROVE  \E g \in Seq(S) : IsPut(g, seq, i, e)
PROOF
<1>1. PICK g : g = [seq EXCEPT ![i] = e]
  OBVIOUS
<1>2. g \in Seq(S) /\ Len(g) = Len(seq) /\ \A j \in 1..Len(seq) : g[j] = IF j = i THEN e ELSE seq[j]
  <2>1. /\ [seq EXCEPT ![i] = e] \in Seq(S)
        /\ Len([seq EXCEPT ![i] = e]) = Len(seq)
        /\ \A j \in 1..Len(seq) : [seq EXCEPT ![i] = e][j] = IF j = i THEN e ELSE seq[j]
    BY ExceptSeq
  <2> QED BY <1>1, <2>1, Zenon
<1> QED BY <1>1, <1>2 DEF IsPut

IsAdded(g, seq, e) ==
    /\ g = Append(seq, e) /\ Len(g) = Len(seq) + 1 /\ g[Len(seq) + 1] = e
    /\ \A j \in 1..Len(seq) : g[j] = seq[j]
LEMMA Added ==
    ASSUME NEW S, NEW seq \in Seq(S), NEW e \in S
    PROVE  \E g \in Seq(S) : IsAdded(g, seq, e)
PROOF
<1>1. /\ Append(seq, e) \in Seq(S) /\ Len(Append(seq, e)) = Len(seq) + 1
      /\ \A i \in 1..Len(seq) : Append(seq, e)[i] = seq[i]
      /\ Append(seq, e)[Len(seq) + 1] = e
  BY AppendProperties
<1>2. IsAdded(Append(seq, e), seq, e)
  BY <1>1, Zenon DEF IsAdded
<1> QED BY <1>1, <1>2, Zenon

IsCut(s, seq, k) ==
    /\ s = SubSeq(seq, k, Len(seq)) /\ Len(s) = Len(seq) - k + 1
    /\ \A j \in 1..(Len(seq) - k + 1) : s[j] = seq[j + k - 1]
LEMMA Cut ==
    ASSUME NEW S, NEW seq \in Seq(S), NEW k \in 1..Len(seq)
    PROVE  \E s \in Seq(S) : IsCut(s, seq, k)
PROOF
<1>1. PICK n : n = Len(seq)
  OBVIOUS
<1>2. n \in Int /\ k \in Int /\ k <= n /\ \A i \in k..n : seq[i] \in S
  BY <1>1
<1>3. PICK s : s = SubSeq(seq, k, n)
  OBVIOUS
<1>4. s \in Seq(S) /\ Len(s) = (IF k <= n THEN n - k + 1 ELSE 0)
      /\ \A j \in 1..(n - k + 1) : s[j] = seq[k + j - 1]
  <2>1. /\ SubSeq(seq, k, n) \in Seq(S)
        /\ Len(SubSeq(seq, k, n)) = IF k <= n THEN n - k + 1 ELSE 0
        /\ \A j \in 1..n - k + 1 : SubSeq(seq, k, n)[j] = seq[k + j - 1]
    BY <1>2, SubSeqProperties
  <2> QED BY <1>3, <2>1, Zenon
<1>5. \A j \in 1..(n - k + 1) : k + j - 1 = j + k - 1
  BY <1>2
<1>6. Len(s) = n - k + 1 /\ \A j \in 1..(n - k + 1) : s[j] = seq[j + k - 1]
  BY <1>2, <1>4, <1>5
<1> QED BY <1>1, <1>3, <1>4, <1>6 DEF IsCut

(* A segment that was opened and then written to was appended as written. *)
LEMMA AddedThenPut ==
    ASSUME NEW S, NEW seq \in Seq(S), NEW s \in S, NEW f \in S
    PROVE  [Append(seq, s) EXCEPT ![Len(seq) + 1] = f] = Append(seq, f)
PROOF
<1>1. PICK n : n = Len(seq)
  OBVIOUS
<1>2. n \in Nat /\ n + 1 \in 1..(n + 1)
  BY <1>1
<1>3. PICK a \in Seq(S) : IsAdded(a, seq, f)
  BY Added, Zenon
<1>4. PICK b \in Seq(S) : IsAdded(b, seq, s)
  BY Added, Zenon
<1>5. PICK c \in Seq(S) : IsPut(c, b, n + 1, f)
  <2>1. n + 1 \in 1..Len(b)
    BY <1>1, <1>2, <1>4 DEF IsAdded
  <2> QED BY <2>1, Put, Zenon
<1>6. Len(a) = n + 1 /\ a[n + 1] = f /\ \A j \in 1..n : a[j] = seq[j]
  BY <1>1, <1>3 DEF IsAdded
<1>7. Len(b) = n + 1 /\ \A j \in 1..n : b[j] = seq[j]
  BY <1>1, <1>4 DEF IsAdded
<1>8. Len(c) = n + 1 /\ c[n + 1] = f /\ \A j \in 1..(n + 1) : j # n + 1 => c[j] = b[j]
  BY <1>5, <1>7, Zenon DEF IsPut
<1>9. \A j \in 1..Len(a) : a[j] = c[j]
  <2>1. ASSUME NEW j \in 1..(n + 1) PROVE a[j] = c[j]
    <3>1. CASE j = n + 1
      BY <1>6, <1>8, <3>1
    <3>2. CASE j # n + 1
      <4>1. j \in 1..n
        BY <1>2, <3>2
      <4> QED BY <1>6, <1>7, <1>8, <3>2, <4>1
    <3> QED BY <3>1, <3>2
  <2> QED BY <1>6, <2>1
<1>10. a = c
  BY <1>6, <1>8, <1>9, SeqEqual
<1> QED BY <1>1, <1>3, <1>4, <1>5, <1>10 DEF IsAdded, IsPut

(* All segments but the newest hold frames. *)
LEMMA Older ==
    ASSUME NEW segs \in Segments, Positive(segs)
    PROVE  \A i \in 1..(Len(segs) - 1) : segs[i].count > 0
PROOF
<1>1. PICK n : n = Len(segs)
  OBVIOUS
<1>2. n \in Nat /\ DOMAIN segs = 1..n
  BY <1>1, SegmentsAre
<1>3. ASSUME NEW i \in 1..(n - 1) PROVE i \in DOMAIN segs /\ n # 1
  BY <1>2
<1> QED BY <1>1, <1>3 DEF Positive

(* One frame more: in the newest segment, or in one that begins where it ended. *)
OneMore(segs, g) ==
    /\ g \in Segments /\ g # <<>> /\ Contiguous(g) /\ \A i \in 1..Len(g) : g[i].count > 0
    /\ EndOf(g) = EndOf(segs) + 1 /\ StartOf(g) = StartOf(segs)
    /\ Len(g) >= Len(segs)
    /\ \A i \in 1..(Len(segs) - 1) : g[i] = segs[i]
    /\ g[Len(segs)].base = segs[Len(segs)].base
    /\ g[Len(segs)].count >= segs[Len(segs)].count
    /\ \A i \in 1..Len(g) : i > Len(segs) => g[i].base = EndOf(segs)

LEMMA InNewest ==
    ASSUME NEW segs \in Segments, segs # <<>>, Contiguous(segs), Positive(segs)
    PROVE  OneMore(segs, [segs EXCEPT ![Len(segs)].count = @ + 1])
PROOF
<1>1. PICK n : n = Len(segs)
  OBVIOUS
<1>2. n \in Nat /\ n >= 1 /\ n \in 1..Len(segs)
  BY <1>1, SegmentsAre
<1>3. segs \in Seq([base : Nat, count : Nat])
  BY DEF Segments
<1>4. \A i \in 1..n : segs[i].base \in Nat /\ segs[i].count \in Nat
  BY <1>1, SegmentsAre
<1>5. PICK b, c : b = segs[n].base /\ c = segs[n].count
  OBVIOUS
<1>6. b \in Nat /\ c \in Nat /\ segs[n] = [base |-> b, count |-> c]
  <2>1. segs[n] \in [base : Nat, count : Nat]
    BY <1>2, SegmentsAre
  <2> QED BY <1>5, <2>1
<1>7. PICK s : s = [base |-> b, count |-> c + 1]
  OBVIOUS
<1>8. s \in [base : Nat, count : Nat] /\ s.base = b /\ s.count = c + 1
  BY <1>6, <1>7
<1>9. [segs[n] EXCEPT !.count = @ + 1] = s
  BY <1>6, <1>7
<1>10. PICK g \in Seq([base : Nat, count : Nat]) :
            /\ g = [segs EXCEPT ![n] = s] /\ Len(g) = n /\ g[n] = s
            /\ \A j \in 1..n : j # n => g[j] = segs[j]
  <2>1. PICK g \in Seq([base : Nat, count : Nat]) : IsPut(g, segs, n, s)
    BY <1>2, <1>3, <1>8, Put, Zenon
  <2> QED BY <1>1, <2>1 DEF IsPut
<1>11. [segs EXCEPT ![Len(segs)].count = @ + 1] = g
  <2>1. [segs EXCEPT ![n].count = @ + 1] = [segs EXCEPT ![n] = [segs[n] EXCEPT !.count = @ + 1]]
    OBVIOUS
  <2> QED BY <1>1, <1>9, <1>10, <2>1, Zenon
<1>12. \A j \in 1..(n - 1) : g[j] = segs[j]
  BY <1>2, <1>10
<1>13. \A j \in 1..n : g[j].count > 0
  <2>1. ASSUME NEW j \in 1..(n - 1) PROVE g[j].count > 0
    <3>1. segs[j].count > 0
      BY <1>1, Older
    <3> QED BY <1>12, <3>1
  <2>2. g[n].count > 0
    BY <1>6, <1>8, <1>10
  <2> QED BY <1>2, <2>1, <2>2
<1>14. ASSUME NEW j \in 1..(n - 1) PROVE g[j + 1].base = g[j].base + g[j].count
  <2>1. segs[j + 1].base = segs[j].base + segs[j].count
    BY <1>1 DEF Contiguous
  <2>2. g[j] = segs[j]
    BY <1>12
  <2>3. CASE j + 1 = n
    BY <1>5, <1>8, <1>10, <2>1, <2>2, <2>3
  <2>4. CASE j + 1 # n
    <3>1. j + 1 \in 1..(n - 1)
      BY <1>2, <2>4
    <3> QED BY <1>12, <2>1, <2>2, <3>1
  <2> QED BY <2>3, <2>4
<1>15. g \in Segments /\ g # <<>> /\ Contiguous(g)
  <2>1. g \in Segments
    BY <1>10 DEF Segments
  <2>2. g # <<>>
    BY <1>2, <1>10
  <2>3. Contiguous(g)
    BY <1>10, <1>14 DEF Contiguous
  <2> QED BY <2>1, <2>2, <2>3
<1>16. EndOf(g) = EndOf(segs) + 1 /\ StartOf(g) = StartOf(segs)
  <2>1. EndOf(g) = g[n].base + g[n].count /\ StartOf(g) = g[1].base
    BY <1>10, <1>15, Ends
  <2>2. EndOf(segs) = b + c /\ StartOf(segs) = segs[1].base
    BY <1>1, <1>5, Ends
  <2>3. g[1].base = segs[1].base
    <3>1. CASE n = 1
      BY <1>5, <1>8, <1>10, <3>1
    <3>2. CASE n # 1
      BY <1>2, <1>12, <3>2
    <3> QED BY <3>1, <3>2
  <2> QED BY <1>6, <1>8, <1>10, <2>1, <2>2, <2>3
<1>17. g[n].base = segs[n].base /\ g[n].count >= segs[n].count
  BY <1>5, <1>6, <1>8, <1>10
<1>18. \A i \in 1..n : ~(i > n)
  BY <1>2
<1>19. OneMore(segs, g)
  BY <1>1, <1>2, <1>10, <1>12, <1>13, <1>15, <1>16, <1>17, <1>18 DEF OneMore
<1> QED BY <1>11, <1>19

LEMMA InNext ==
    ASSUME NEW segs \in Segments, segs # <<>>, Contiguous(segs), Positive(segs),
           segs[Len(segs)].count > 0
    PROVE  OneMore(segs, Append(segs, [base |-> EndOf(segs), count |-> 1]))
PROOF
<1>1. PICK n, e : n = Len(segs) /\ e = EndOf(segs)
  OBVIOUS
<1>2. n \in Nat /\ n >= 1 /\ n \in 1..n /\ e \in Nat
  BY <1>1, SegmentsAre, Ends
<1>3. segs \in Seq([base : Nat, count : Nat])
  BY DEF Segments
<1>4. \A i \in 1..n : segs[i].base \in Nat /\ segs[i].count \in Nat
  BY <1>1, SegmentsAre
<1>5. PICK s : s = [base |-> e, count |-> 1]
  OBVIOUS
<1>6. s \in [base : Nat, count : Nat] /\ s.base = e /\ s.count = 1
  BY <1>2, <1>5
<1>7. PICK g \in Seq([base : Nat, count : Nat]) :
            /\ g = Append(segs, s) /\ Len(g) = n + 1 /\ g[n + 1] = s
            /\ \A j \in 1..n : g[j] = segs[j]
  <2>1. PICK g \in Seq([base : Nat, count : Nat]) : IsAdded(g, segs, s)
    BY <1>3, <1>6, Added, Zenon
  <2> QED BY <1>1, <2>1 DEF IsAdded
<1>8. \A j \in 1..(n + 1) : g[j].count > 0
  <2>1. ASSUME NEW j \in 1..n PROVE g[j].count > 0
    <3>1. segs[j].count > 0
      <4>1. CASE j = n
        BY <1>1, <4>1
      <4>2. CASE j # n
        <5>1. j \in 1..(n - 1)
          BY <1>2, <4>2
        <5> QED BY <1>1, <5>1, Older
      <4> QED BY <4>1, <4>2
    <3> QED BY <1>7, <3>1
  <2>2. g[n + 1].count > 0
    BY <1>6, <1>7
  <2> QED BY <1>2, <2>1, <2>2
<1>9. ASSUME NEW j \in 1..n PROVE g[j + 1].base = g[j].base + g[j].count
  <2>1. g[j] = segs[j]
    BY <1>7
  <2>2. CASE j = n
    <3>1. segs[n].base + segs[n].count = e
      BY <1>1, Ends
    <3> QED BY <1>6, <1>7, <2>1, <2>2, <3>1
  <2>3. CASE j # n
    <3>1. j \in 1..(n - 1) /\ j + 1 \in 1..n
      BY <1>2, <2>3
    <3>2. segs[j + 1].base = segs[j].base + segs[j].count
      BY <1>1, <3>1 DEF Contiguous
    <3> QED BY <1>7, <2>1, <3>1, <3>2
  <2> QED BY <2>2, <2>3
<1>10. g \in Segments /\ g # <<>> /\ Contiguous(g)
  <2>1. g \in Segments
    BY <1>7 DEF Segments
  <2>2. g # <<>>
    BY <1>2, <1>7
  <2>3. Contiguous(g)
    <3>1. (n + 1) - 1 = n
      BY <1>2
    <3> QED BY <1>7, <1>9, <3>1 DEF Contiguous
  <2> QED BY <2>1, <2>2, <2>3
<1>11. EndOf(g) = e + 1 /\ StartOf(g) = StartOf(segs)
  <2>1. EndOf(g) = g[n + 1].base + g[n + 1].count /\ StartOf(g) = g[1].base
    BY <1>7, <1>10, Ends
  <2>2. StartOf(segs) = segs[1].base /\ g[1] = segs[1]
    BY <1>2, <1>7, Ends
  <2> QED BY <1>6, <1>7, <2>1, <2>2
<1>12. g[n].base = segs[n].base /\ g[n].count >= segs[n].count
  BY <1>2, <1>4, <1>7
<1>13. \A j \in 1..(n - 1) : g[j] = segs[j]
  BY <1>2, <1>7
<1>14. \A i \in 1..(n + 1) : i > n => g[i].base = e
  BY <1>2, <1>6, <1>7
<1>15. OneMore(segs, g)
  <2>1. Len(g) = n + 1 /\ Len(g) >= n
    BY <1>2, <1>7
  <2> QED BY <1>1, <1>8, <1>10, <1>11, <1>12, <1>13, <1>14, <2>1, Zenon DEF OneMore
<1> QED BY <1>1, <1>5, <1>7, <1>15

LEMMA Grown ==
    ASSUME NEW segs \in Segments, segs # <<>>, Contiguous(segs), Positive(segs)
    PROVE  OneMore(segs, LET r == Rotated(segs, EndOf(segs)) IN [r EXCEPT ![Len(r)].count = @ + 1])
PROOF
<1>1. PICK n, e : n = Len(segs) /\ e = EndOf(segs)
  OBVIOUS
<1>2. n \in Nat /\ n \in 1..n /\ e \in Nat /\ segs[n].count \in Nat
  BY <1>1, SegmentsAre, Ends
<1>3. Last(segs).count = segs[n].count
  BY <1>1 DEF Last
<1>4. CASE segs[n].count >= SegmentBytes
  <2>1. segs[n].count > 0
    BY <1>2, <1>4, QueryAssumption
  <2>2. PICK r : r = Rotated(segs, e)
    OBVIOUS
  <2>3. PICK s : s = [base |-> e, count |-> 0]
    OBVIOUS
  <2>4. r = Append(segs, s)
    BY <1>3, <1>4, <2>2, <2>3 DEF Rotated
  <2>5. segs \in Seq([base : Nat, count : Nat])
    BY DEF Segments
  <2>6. s \in [base : Nat, count : Nat]
    BY <1>2, <2>3
  <2>7. Len(r) = n + 1 /\ r[n + 1] = s
    BY <1>1, <2>4, <2>5, <2>6
  <2>8. PICK f : f = [base |-> e, count |-> 1]
    OBVIOUS
  <2>9. [s EXCEPT !.count = @ + 1] = f
    BY <2>3, <2>8
  <2>10. [r EXCEPT ![Len(r)].count = @ + 1] = [r EXCEPT ![n + 1] = f]
    <3>1. [r EXCEPT ![n + 1].count = @ + 1] = [r EXCEPT ![n + 1] = [r[n + 1] EXCEPT !.count = @ + 1]]
      OBVIOUS
    <3> QED BY <2>7, <2>9, <3>1, Zenon
  <2>11. [r EXCEPT ![n + 1] = f] = Append(segs, f)
    <3>1. f \in [base : Nat, count : Nat]
      BY <1>2, <2>8
    <3>2. [Append(segs, s) EXCEPT ![Len(segs) + 1] = f] = Append(segs, f)
      <4>1. PICK S : segs \in Seq(S) /\ s \in S /\ f \in S
        BY <2>5, <2>6, <3>1
      <4> QED BY <4>1, AddedThenPut
    <3> QED BY <1>1, <2>4, <3>2, Zenon
  <2>12. OneMore(segs, Append(segs, f))
    BY <1>1, <2>1, <2>8, InNext
  <2> QED BY <1>1, <2>2, <2>10, <2>11, <2>12
<1>5. CASE ~(segs[n].count >= SegmentBytes)
  <2>1. Rotated(segs, e) = segs
    BY <1>3, <1>5 DEF Rotated
  <2> QED BY <1>1, <2>1, InNewest
<1> QED BY <1>4, <1>5

(* Without its first segments a record is as whole as before. *)
Latest(g, k, s) ==
    /\ s \in Segments /\ s # <<>> /\ Contiguous(s) /\ Positive(s)
    /\ EndOf(s) = EndOf(g) /\ StartOf(s) = g[k].base
    /\ Len(s) = Len(g) - k + 1 /\ \A j \in 1..Len(s) : s[j] = g[j + k - 1]

LEMMA Dropped ==
    ASSUME NEW g \in Segments, g # <<>>, Contiguous(g), \A i \in 1..Len(g) : g[i].count > 0,
           NEW k \in 1..Len(g)
    PROVE  Latest(g, k, SubSeq(g, k, Len(g)))
PROOF
<1>1. PICK n : n = Len(g)
  OBVIOUS
<1>2. n \in Nat /\ k \in 1..n /\ n - k + 1 \in 1..n
  BY <1>1, SegmentsAre
<1>3. g \in Seq([base : Nat, count : Nat])
  BY DEF Segments
<1>4. PICK s \in Seq([base : Nat, count : Nat]) :
            /\ s = SubSeq(g, k, n) /\ Len(s) = n - k + 1
            /\ \A j \in 1..(n - k + 1) : s[j] = g[j + k - 1]
  <2>1. PICK s \in Seq([base : Nat, count : Nat]) : IsCut(s, g, k)
    BY <1>3, Cut, Zenon
  <2> QED BY <1>1, <2>1 DEF IsCut
<1>5. s \in Segments /\ s # <<>>
  <2>1. s \in Segments
    BY <1>4 DEF Segments
  <2>2. s # <<>>
    BY <1>2, <1>4
  <2> QED BY <2>1, <2>2
<1>6. ASSUME NEW j \in 1..(n - k) PROVE s[j + 1].base = s[j].base + s[j].count
  <2>1. PICK i : i = j + k - 1
    OBVIOUS
  <2>2. i \in 1..(n - 1) /\ (j + 1) + k - 1 = i + 1 /\ j \in 1..(n - k + 1) /\ j + 1 \in 1..(n - k + 1)
    BY <1>2, <2>1
  <2>3. s[j + 1] = g[i + 1] /\ s[j] = g[i]
    BY <1>4, <2>1, <2>2
  <2>4. g[i + 1].base = g[i].base + g[i].count
    BY <1>1, <2>2 DEF Contiguous
  <2> QED BY <2>3, <2>4
<1>7. Contiguous(s)
  <2>1. (n - k + 1) - 1 = n - k
    BY <1>2
  <2> QED BY <1>4, <1>6, <2>1 DEF Contiguous
<1>8. Positive(s)
  <2>1. ASSUME NEW j \in 1..(n - k + 1) PROVE s[j].count > 0
    <3>1. j + k - 1 \in 1..n
      BY <1>2
    <3> QED BY <1>1, <1>4, <3>1
  <2>2. DOMAIN s = 1..(n - k + 1)
    BY <1>4
  <2> QED BY <2>1, <2>2 DEF Positive
<1>9. EndOf(s) = EndOf(g) /\ StartOf(s) = g[k].base
  <2>1. EndOf(s) = s[n - k + 1].base + s[n - k + 1].count /\ StartOf(s) = s[1].base
    BY <1>4, <1>5, Ends
  <2>2. EndOf(g) = g[n].base + g[n].count
    BY <1>1, Ends
  <2>3. s[n - k + 1] = g[n] /\ s[1] = g[k]
    <3>1. n - k + 1 \in 1..(n - k + 1) /\ 1 \in 1..(n - k + 1) /\ (n - k + 1) + k - 1 = n /\ 1 + k - 1 = k
      BY <1>2
    <3> QED BY <1>4, <3>1
  <2> QED BY <2>1, <2>2, <2>3
<1>10. Latest(g, k, s)
  BY <1>1, <1>4, <1>5, <1>7, <1>8, <1>9 DEF Latest
<1> QED BY <1>1, <1>4, <1>10

-----------------------------------------------------------------------------
(* The table of settled records *)

(* A settlement is later than all before it. *)
LEMMA NowIs ==
    ASSUME NEW q \in Query, \A p \in Query : disk[p].since \in Nat
    PROVE  Now \in Nat
PROOF
<1>1. PICK T : T = {disk[p].since : p \in Query}
  OBVIOUS
<1>2. T \subseteq Nat /\ T # {}
  BY <1>1
<1>3. IsFiniteSet(T)
  <2>1. PICK f : f = [p \in Query |-> disk[p].since]
    OBVIOUS
  <2>2. f \in Surjection(Query, T)
    BY <1>1, <2>1 DEF Surjection
  <2> QED BY <2>2, QueryAssumption, FS_Surjection
<1>4. Max(T) \in Nat
  BY <1>2, <1>3, MaxOf
<1> QED BY <1>1, <1>4 DEF Now

(* s holds the elements of S, each once *)
Table(s, S) == IsInjective(s) /\ Range(s) = S

(* A record that settles joins the table. *)
LEMMA Joins ==
    ASSUME NEW s \in Seq(Query), NEW S, Table(s, S), NEW q \in Query, q \notin S
    PROVE  Append(s, q) \in Seq(Query) /\ Table(Append(s, q), S \cup {q})
PROOF
<1>1. PICK n : n = Len(s)
  OBVIOUS
<1>2. n \in Nat /\ DOMAIN s = 1..n
  BY <1>1
<1>3. PICK t \in Seq(Query) : IsAdded(t, s, q)
  BY Added, Zenon
<1>4. t = Append(s, q) /\ Len(t) = n + 1 /\ t[n + 1] = q /\ \A j \in 1..n : t[j] = s[j]
  BY <1>1, <1>3 DEF IsAdded
<1>5. DOMAIN t = 1..(n + 1)
  BY <1>4
<1>6. \A j \in 1..n : s[j] \in S
  BY <1>2 DEF Table, Range
<1>7. \A j, k \in 1..n : s[j] = s[k] => j = k
  BY <1>2 DEF Table, IsInjective
<1>8. IsInjective(t)
  <2> SUFFICES ASSUME NEW j \in 1..(n + 1), NEW k \in 1..(n + 1), t[j] = t[k] PROVE j = k
    BY <1>5 DEF IsInjective
  <2>1. \A i \in 1..(n + 1) : i = n + 1 \/ i \in 1..n
    BY <1>2
  <2> QED BY <1>4, <1>6, <1>7, <2>1
<1>9. Range(t) = S \cup {q}
  <2>1. ASSUME NEW x \in Range(t) PROVE x \in S \cup {q}
    <3>1. PICK j \in 1..(n + 1) : x = t[j]
      BY <1>5 DEF Range
    <3>2. j = n + 1 \/ j \in 1..n
      BY <1>2
    <3> QED BY <1>4, <1>6, <3>1, <3>2
  <2>2. ASSUME NEW x \in S PROVE x \in Range(t)
    <3>1. PICK j \in 1..n : x = s[j]
      BY <1>2 DEF Table, Range
    <3>2. j \in 1..(n + 1) /\ t[j] = x
      BY <1>2, <1>4, <3>1
    <3> QED BY <1>5, <3>2 DEF Range
  <2>3. q \in Range(t)
    <3>1. n + 1 \in 1..(n + 1)
      BY <1>2
    <3> QED BY <1>4, <1>5, <3>1 DEF Range
  <2> QED BY <2>1, <2>2, <2>3
<1> QED BY <1>4, <1>8, <1>9 DEF Table

(* What is left of a sequence without one of its elements *)
Left(t, s, i) ==
    /\ t = RemoveAt(s, i) /\ Len(t) = Len(s) - 1
    /\ \A j \in 1..(Len(s) - 1) : t[j] = IF j < i THEN s[j] ELSE s[j + 1]
LEMMA Removed ==
    ASSUME NEW S, NEW s \in Seq(S), NEW i \in DOMAIN s
    PROVE  \E t \in Seq(S) : Left(t, s, i)
PROOF
<1>1. PICK n : n = Len(s)
  OBVIOUS
<1>2. n \in Nat /\ DOMAIN s = 1..n /\ i \in 1..n /\ n - 1 \in Nat /\ i - 1 \in Nat
  BY <1>1
<1>3. PICK a, b : a = SubSeq(s, 1, i - 1) /\ b = SubSeq(s, i + 1, n)
  OBVIOUS
<1>4. a \in Seq(S) /\ Len(a) = i - 1 /\ \A j \in 1..(i - 1) : a[j] = s[j]
  <2>1. /\ SubSeq(s, 1, i - 1) \in Seq(S)
        /\ Len(SubSeq(s, 1, i - 1)) = IF 1 <= i - 1 THEN (i - 1) - 1 + 1 ELSE 0
        /\ \A j \in 1..(i - 1) - 1 + 1 : SubSeq(s, 1, i - 1)[j] = s[1 + j - 1]
    BY <1>2, SubSeqProperties
  <2>2. \A j \in 1..(i - 1) : j \in 1..(i - 1) - 1 + 1 /\ 1 + j - 1 = j
    BY <1>2
  <2>3. (IF 1 <= i - 1 THEN (i - 1) - 1 + 1 ELSE 0) = i - 1
    BY <1>2
  <2> QED BY <1>3, <2>1, <2>2, <2>3, Zenon
<1>5. b \in Seq(S) /\ Len(b) = n - i /\ \A j \in 1..(n - i) : b[j] = s[i + j]
  <2>1. /\ SubSeq(s, i + 1, n) \in Seq(S)
        /\ Len(SubSeq(s, i + 1, n)) = IF i + 1 <= n THEN n - (i + 1) + 1 ELSE 0
        /\ \A j \in 1..n - (i + 1) + 1 : SubSeq(s, i + 1, n)[j] = s[(i + 1) + j - 1]
    BY <1>1, <1>2, SubSeqProperties
  <2>2. \A j \in 1..(n - i) : j \in 1..n - (i + 1) + 1 /\ (i + 1) + j - 1 = i + j
    BY <1>2
  <2>3. (IF i + 1 <= n THEN n - (i + 1) + 1 ELSE 0) = n - i
    BY <1>2
  <2> QED BY <1>3, <2>1, <2>2, <2>3, Zenon
<1>6. PICK t : t = a \o b
  OBVIOUS
<1>7. /\ t \in Seq(S) /\ Len(t) = Len(a) + Len(b)
      /\ \A j \in 1..Len(a) + Len(b) : t[j] = IF j <= Len(a) THEN a[j] ELSE b[j - Len(a)]
  <2>1. /\ a \o b \in Seq(S) /\ Len(a \o b) = Len(a) + Len(b)
        /\ \A j \in 1..Len(a) + Len(b) : (a \o b)[j] = IF j <= Len(a) THEN a[j] ELSE b[j - Len(a)]
    BY <1>4, <1>5, ConcatProperties
  <2> QED BY <1>6, <2>1, Zenon
<1>8. Len(t) = n - 1
  BY <1>2, <1>4, <1>5, <1>7
<1>9. ASSUME NEW j \in 1..(n - 1) PROVE t[j] = IF j < i THEN s[j] ELSE s[j + 1]
  <2>1. j \in 1..Len(a) + Len(b)
    BY <1>2, <1>4, <1>5
  <2>2. t[j] = IF j <= i - 1 THEN a[j] ELSE b[j - (i - 1)]
    BY <1>4, <1>7, <2>1
  <2>3. CASE j < i
    <3>1. j \in 1..(i - 1) /\ j <= i - 1
      BY <1>2, <2>3
    <3> QED BY <1>4, <2>2, <2>3, <3>1
  <2>4. CASE ~(j < i)
    <3>1. j - (i - 1) \in 1..(n - i) /\ ~(j <= i - 1) /\ i + (j - (i - 1)) = j + 1
      BY <1>2, <2>4
    <3>2. b[j - (i - 1)] = s[j + 1]
      BY <1>5, <3>1
    <3> QED BY <2>2, <2>4, <3>1, <3>2
  <2> QED BY <2>3, <2>4
<1>10. t = RemoveAt(s, i)
  BY <1>1, <1>3, <1>6, Zenon DEF RemoveAt
<1> QED BY <1>1, <1>7, <1>8, <1>9, <1>10 DEF Left

(* A record that is forgotten leaves it. *)
LEMMA Leaves ==
    ASSUME NEW s \in Seq(Query), IsInjective(s), NEW i \in DOMAIN s
    PROVE  RemoveAt(s, i) \in Seq(Query) /\ Table(RemoveAt(s, i), Range(s) \ {s[i]})
PROOF
<1>1. PICK n, q : n = Len(s) /\ q = s[i]
  OBVIOUS
<1>2. n \in Nat /\ DOMAIN s = 1..n /\ i \in 1..n
  BY <1>1
<1>3. PICK t \in Seq(Query) : Left(t, s, i)
  BY Removed, Zenon
<1>4. t = RemoveAt(s, i) /\ DOMAIN t = 1..(n - 1)
      /\ \A j \in 1..(n - 1) : t[j] = IF j < i THEN s[j] ELSE s[j + 1]
  BY <1>1, <1>3 DEF Left
<1>5. \A j, k \in 1..n : s[j] = s[k] => j = k
  BY <1>2 DEF IsInjective
<1>6. \A j \in 1..(n - 1) : j \in 1..n /\ j + 1 \in 1..n
  BY <1>2
<1>7. IsInjective(t)
  <2> SUFFICES ASSUME NEW j \in 1..(n - 1), NEW k \in 1..(n - 1), t[j] = t[k] PROVE j = k
    BY <1>4 DEF IsInjective
  <2>1. PICK jj \in 1..n : t[j] = s[jj] /\ jj = IF j < i THEN j ELSE j + 1
    BY <1>4, <1>6
  <2>2. PICK kk \in 1..n : t[k] = s[kk] /\ kk = IF k < i THEN k ELSE k + 1
    BY <1>4, <1>6
  <2>3. jj = kk
    BY <1>5, <2>1, <2>2
  <2> QED BY <1>2, <2>1, <2>2, <2>3
<1>8. Range(t) = Range(s) \ {q}
  <2>1. ASSUME NEW x \in Range(t) PROVE x \in Range(s) \ {q}
    <3>1. PICK j \in 1..(n - 1) : x = t[j]
      BY <1>4 DEF Range
    <3>2. PICK jj \in 1..n : t[j] = s[jj] /\ jj # i
      <4>1. PICK jj : jj = IF j < i THEN j ELSE j + 1
        OBVIOUS
      <4>2. jj \in 1..n /\ jj # i
        BY <1>2, <1>6, <4>1
      <4> QED BY <1>4, <4>1, <4>2
    <3>3. s[jj] # q
      BY <1>1, <1>2, <1>5, <3>2
    <3> QED BY <1>2, <3>1, <3>2, <3>3 DEF Range
  <2>2. ASSUME NEW x \in Range(s), x # q PROVE x \in Range(t)
    <3>1. PICK j \in 1..n : x = s[j]
      BY <1>2 DEF Range
    <3>2. j # i
      BY <1>1, <2>2, <3>1
    <3>3. PICK k \in 1..(n - 1) : t[k] = s[j]
      <4>1. PICK k : k = IF j < i THEN j ELSE j - 1
        OBVIOUS
      <4>2. k \in 1..(n - 1) /\ (IF k < i THEN k ELSE k + 1) = j
        BY <1>2, <3>2, <4>1
      <4> QED BY <1>4, <4>2
    <3> QED BY <1>4, <3>1, <3>3 DEF Range
  <2> QED BY <2>1, <2>2
<1> QED BY <1>1, <1>4, <1>7, <1>8 DEF Table

(* Recovery lists a set of records, each once, *)
LEMMA Listed ==
    ASSUME NEW S \in SUBSET Query, NEW s \in SetToSeqs(S)
    PROVE  s \in Seq(Query) /\ Table(s, S)
PROOF
<1>1. PICK n : n = Cardinality(S)
  OBVIOUS
<1>2. IsFiniteSet(S) /\ n \in Nat
  BY <1>1, QueryAssumption, FS_Subset, FS_CardinalityType
<1>3. s \in [1..n -> S] /\ \A i, j \in 1..n : i # j => s[i] # s[j]
  BY <1>1, Zenon DEF SetToSeqs
<1>4. s \in Seq(Query)
  BY <1>2, <1>3
<1>5. IsInjective(s)
  BY <1>3 DEF IsInjective
<1>6. s \in Surjection(1..n, S)
  <2>1. s \in Injection(1..n, S)
    BY <1>3, <1>5 DEF Injection
  <2>2. IsFiniteSet(1..n) /\ Cardinality(1..n) = n
    BY <1>2, FS_Interval
  <2> QED BY <1>1, <1>2, <2>1, <2>2, FS_Injection
<1>7. Range(s) = S
  BY <1>3, <1>6 DEF Surjection, Range
<1> QED BY <1>4, <1>5, <1>7 DEF Table

(* and two disjoint ones after each other. *)
LEMMA Together ==
    ASSUME NEW s \in Seq(Query), NEW t \in Seq(Query), NEW S, NEW T, Table(s, S), Table(t, T),
           S \cap T = {}
    PROVE  s \o t \in Seq(Query) /\ Table(s \o t, S \cup T)
PROOF
<1>1. PICK m, n, u : m = Len(s) /\ n = Len(t) /\ u = s \o t
  OBVIOUS
<1>2. m \in Nat /\ n \in Nat /\ DOMAIN s = 1..m /\ DOMAIN t = 1..n
  BY <1>1
<1>3. u \in Seq(Query) /\ Len(u) = m + n
      /\ \A j \in 1..m + n : u[j] = IF j <= m THEN s[j] ELSE t[j - m]
  <2>1. /\ s \o t \in Seq(Query) /\ Len(s \o t) = Len(s) + Len(t)
        /\ \A j \in 1..Len(s) + Len(t) : (s \o t)[j] = IF j <= Len(s) THEN s[j] ELSE t[j - Len(s)]
    BY ConcatProperties
  <2> QED BY <1>1, <2>1, Zenon
<1>4. DOMAIN u = 1..(m + n)
  BY <1>3
<1>5. ASSUME NEW j \in 1..(m + n) PROVE (j \in 1..m /\ u[j] = s[j]) \/ (j - m \in 1..n /\ u[j] = t[j - m])
  BY <1>2, <1>3
<1>6. /\ \A j, k \in 1..m : s[j] = s[k] => j = k
      /\ \A j, k \in 1..n : t[j] = t[k] => j = k
  BY <1>2 DEF Table, IsInjective
<1>7. (\A j \in 1..m : s[j] \in S) /\ (\A j \in 1..n : t[j] \in T)
  BY <1>2 DEF Table, Range
<1>8. IsInjective(u)
  <2> SUFFICES ASSUME NEW j \in 1..(m + n), NEW k \in 1..(m + n), u[j] = u[k] PROVE j = k
    BY <1>4 DEF IsInjective
  <2>1. CASE j \in 1..m /\ u[j] = s[j] /\ k \in 1..m /\ u[k] = s[k]
    BY <1>6, <2>1
  <2>2. CASE j - m \in 1..n /\ u[j] = t[j - m] /\ k - m \in 1..n /\ u[k] = t[k - m]
    <3>1. j - m = k - m
      BY <1>6, <2>2
    <3> QED BY <1>2, <3>1
  <2>3. ASSUME NEW x \in 1..m, NEW y \in 1..n PROVE s[x] # t[y]
    BY <1>7
  <2>4. (j \in 1..m /\ u[j] = s[j]) \/ (j - m \in 1..n /\ u[j] = t[j - m])
    BY <1>5
  <2>5. (k \in 1..m /\ u[k] = s[k]) \/ (k - m \in 1..n /\ u[k] = t[k - m])
    BY <1>5
  <2> QED BY <2>1, <2>2, <2>3, <2>4, <2>5
<1>9. Range(u) = S \cup T
  <2>1. ASSUME NEW x \in Range(u) PROVE x \in S \cup T
    <3>1. PICK j \in 1..(m + n) : x = u[j]
      BY <1>4 DEF Range
    <3> QED BY <1>5, <1>7, <3>1
  <2>2. ASSUME NEW x \in S PROVE x \in Range(u)
    <3>1. PICK j \in 1..m : x = s[j]
      BY <1>2 DEF Table, Range
    <3>2. j \in 1..(m + n) /\ u[j] = x
      BY <1>2, <1>3, <3>1
    <3> QED BY <1>4, <3>2 DEF Range
  <2>3. ASSUME NEW x \in T PROVE x \in Range(u)
    <3>1. PICK j \in 1..n : x = t[j]
      BY <1>2 DEF Table, Range
    <3>2. PICK k : k = j + m
      OBVIOUS
    <3>3. k \in 1..(m + n) /\ ~(k <= m) /\ k - m = j
      BY <1>2, <3>2
    <3>4. u[k] = x
      BY <1>3, <3>1, <3>3
    <3> QED BY <1>4, <3>3, <3>4 DEF Range
  <2> QED BY <2>1, <2>2, <2>3
<1> QED BY <1>1, <1>3, <1>8, <1>9 DEF Table

-----------------------------------------------------------------------------
(* The inductive invariant *)

States == Terminal \cup {"absent", "running"}
Record == [state : Terminal \cup {"absent", "running", "unreadable"}, earliest : Nat,
           next : Nat, since : Nat, segs : Segments, torn : BOOLEAN]
Writer == [finished : BOOLEAN, state : States, earliest : Nat, next : Nat, stuck : BOOLEAN,
           subs : SUBSET Observer, pump : {"none", "beginning", "running", "ending", "done"}]
Active == {"listing", "listed", "reading", "replayed", "live"}
Call == [pc : Active \cup {"idle", "found", "ended"}, query : Query \cup {"none"},
         at : Nat, to : Nat, snap : States \cup {"none"}, list : Seq(Nat), buf : Seq(Nat),
         sub : {"none", "open", "closed"}, lags : BOOLEAN,
         end : {"none", "sequence", "pruned", "limit", "notfound", "internal", "settled",
                "error", "lag", "shutdown"},
         whole : BOOLEAN]

Types ==
    /\ disk \in [Query -> Record] /\ writer \in [Query -> Writer]
    /\ live \subseteq Query /\ totalSet \in Nat /\ aged \subseteq Query /\ givenUp \subseteq Query
    /\ settled \in Seq(Query) /\ IsInjective(settled) /\ gc \in Seq(Query)
    /\ phase \in {"serving", "stopping", "down"}
    /\ obs \in [Observer -> Call] /\ abandoned \in [Query -> Seq(Nat)]
Limit == \A q \in Query : Cardinality(writer[q].subs) + Len(abandoned[q]) <= MaxObservers

(* Which table a record is in, and what its state file says, follow the pump. *)
PumpAgrees(q) ==
    /\ writer[q].pump = "none" =>
            /\ disk[q] = NoRecord /\ writer[q] = NoWriter
            /\ q \notin live \cup Range(settled) \cup givenUp
    /\ writer[q].pump = "beginning" =>
            /\ q \notin live \cup Range(settled) \cup givenUp
            /\ disk[q].state = "running" /\ disk[q].segs = <<>>
            /\ writer[q].earliest = 0 /\ writer[q].next = 0 /\ writer[q].finished
    /\ writer[q].pump = "running" =>
            q \in live /\ disk[q].state = "running" /\ ~writer[q].finished
    /\ writer[q].pump = "ending" =>
            /\ q \in live /\ disk[q].state \in Terminal /\ writer[q].finished
            /\ Window(q, disk[q].earliest, disk[q].next)
    /\ writer[q].pump = "done" =>
            writer[q].finished /\ (q \in live => disk[q].state = "running")
    /\ q \in live =>
            /\ q \notin givenUp \cup Range(settled) /\ disk[q].segs # <<>>
            /\ Window(q, writer[q].earliest, writer[q].next)
            /\ writer[q].finished => writer[q].state \in Terminal
    /\ q \notin live => writer[q].subs = {}

(* What a record holds, unless retention or a failed recovery has touched it *)
Kept(q) ==
    q \notin givenUp =>
        /\ Contiguous(disk[q].segs) /\ Positive(disk[q].segs)
        /\ disk[q].state \in Terminal => Window(q, disk[q].earliest, disk[q].next)
        /\ disk[q].state # "unreadable"
        /\ writer[q].pump = "done" => disk[q].state # "absent"
        /\ (phase # "down" /\ disk[q].state \in Terminal) => q \in live \cup Range(settled)
        /\ (phase # "down" /\ writer[q].pump = "done" /\ q \notin live) => disk[q].state \in Terminal

Down == phase = "down" =>
            /\ live = {} /\ settled = <<>> /\ gc = <<>>
            /\ \A q \in Query : writer[q].pump \in {"none", "done"}
Swept == \A i \in DOMAIN gc : gc[i] \in Range(settled) \cup givenUp
Following(o) ==
    /\ obs[o].pc # "idle" => obs[o].query \in Query
    /\ (obs[o].pc \in Active /\ obs[o].sub = "open") => o \in writer[obs[o].query].subs

IInv ==
    /\ Types /\ Limit /\ Down /\ Swept
    /\ \A q \in Query : PumpAgrees(q) /\ Kept(q)
    /\ \A o \in Observer : Following(o)

(* A function with the value at one argument replaced *)
LEMMA PutAt ==
    ASSUME NEW A, NEW B, NEW f \in [A -> B], NEW x \in A, NEW e \in B
    PROVE  \E g \in [A -> B] : /\ g = [f EXCEPT ![x] = e] /\ g[x] = e
                               /\ \A y \in A : y # x => g[y] = f[y]
PROOF
<1>1. PICK g : g = [f EXCEPT ![x] = e]
  OBVIOUS
<1>2. g \in [A -> B] /\ g[x] = e /\ \A y \in A : y # x => g[y] = f[y]
  BY <1>1
<1> QED BY <1>1, <1>2, Zenon

(* What holds of a query that a step leaves alone *)
SameFor(p) ==
    /\ disk'[p] = disk[p] /\ writer'[p] = writer[p]
    /\ p \in live' <=> p \in live
    /\ p \in Range(settled)' <=> p \in Range(settled)
    /\ p \in givenUp' <=> p \in givenUp
LEMMA Untouched ==
    ASSUME NEW p \in Query, PumpAgrees(p), Kept(p), SameFor(p), phase' = "down" \/ phase # "down"
    PROVE  PumpAgrees(p)' /\ Kept(p)'
PROOF
<1>1. PumpAgrees(p)'
  BY DEF PumpAgrees, SameFor, Window
<1>2. Kept(p)'
  BY DEF Kept, SameFor, Window
<1> QED BY <1>1, <1>2

(* The inductive invariant holds initially. *)
LEMMA InitIInv == Init => IInv
PROOF
<1> SUFFICES ASSUME Init PROVE IInv
  OBVIOUS
<1>1. Types
  <2>1. OldRecord \in Record /\ NoRecord \in Record
    <3>1. <<>> \in Segments /\ <<[base |-> 0, count |-> 1]>> \in Segments
      BY DEF Segments
    <3> QED BY <3>1 DEF OldRecord, NoRecord, Record, Terminal
  <2>2. NoWriter \in Writer /\ [NoWriter EXCEPT !.pump = "done"] \in Writer
    BY DEF NoWriter, Writer, States
  <2>3. Idle \in Call
    BY EmptySeq, Zenon DEF Idle, Call
  <2>4. /\ disk \in [Query -> Record] /\ writer \in [Query -> Writer]
        /\ obs \in [Observer -> Call] /\ abandoned \in [Query -> Seq(Nat)]
    <3>1. PICK d, w, v, i : d = OldRecord /\ w = NoWriter /\ v = [NoWriter EXCEPT !.pump = "done"] /\ i = Idle
      OBVIOUS
    <3>2. /\ disk = [q \in Query |-> IF q \in OldQuery THEN d ELSE NoRecord]
          /\ writer = [q \in Query |-> IF q \in OldQuery THEN v ELSE w]
          /\ obs = [o \in Observer |-> i] /\ abandoned = [q \in Query |-> <<>>]
      BY <3>1, Zenon DEF Init
    <3>3. <<>> \in Seq(Nat)
      BY EmptySeq, Zenon
    <3> QED BY <2>1, <2>2, <2>3, <3>1, <3>2, <3>3
  <2>5. settled \in Seq(Query) /\ IsInjective(settled)
    BY QueryAssumption, Listed DEF Init, Table
  <2>6. totalSet \in Nat
    BY QueryAssumption, FS_Subset, FS_CardinalityType DEF Init
  <2>7. gc \in Seq(Query) /\ live \subseteq Query /\ aged \subseteq Query /\ givenUp \subseteq Query
        /\ phase \in {"serving", "stopping", "down"}
    BY DEF Init
  <2> QED BY <2>4, <2>5, <2>6, <2>7 DEF Types
<1>2. Table(settled, OldQuery)
  BY QueryAssumption, Listed DEF Init
<1>3. ASSUME NEW q \in Query PROVE PumpAgrees(q) /\ Kept(q)
  <2>1. CASE q \in OldQuery
    <3>1. disk[q] = OldRecord /\ writer[q] = [NoWriter EXCEPT !.pump = "done"]
      BY <2>1 DEF Init
    <3>2. live = {} /\ givenUp = {} /\ q \in Range(settled) /\ phase = "serving"
      <4>1. live = {} /\ givenUp = {} /\ phase = "serving"
        BY DEF Init
      <4> QED BY <1>2, <2>1, <4>1 DEF Table
    <3>3. /\ writer[q].pump = "done" /\ writer[q].finished /\ writer[q].subs = {}
          /\ disk[q].state = "settled" /\ disk[q].earliest = 0 /\ disk[q].next = 1
          /\ disk[q].segs = <<[base |-> 0, count |-> 1]>>
      BY <3>1 DEF NoWriter, OldRecord, NoRecord
    <3>4. PICK segs : segs = <<[base |-> 0, count |-> 1]>>
      OBVIOUS
    <3>5. Len(segs) = 1 /\ DOMAIN segs = 1..1 /\ segs[1].base = 0 /\ segs[1].count = 1 /\ segs # <<>>
      BY <3>4
    <3>6. Contiguous(segs) /\ Positive(segs)
      BY <3>5 DEF Contiguous, Positive
    <3>7. StartOf(segs) = 0 /\ EndOf(segs) = 1
      BY <3>5 DEF StartOf, EndOf, Last
    <3>8. Window(q, 0, 1)
      BY <3>3, <3>4, <3>5, <3>7 DEF Window
    <3>9. PumpAgrees(q)
      BY <3>2, <3>3 DEF PumpAgrees
    <3>10. Kept(q)
      <4>1. Contiguous(disk[q].segs) /\ Positive(disk[q].segs)
        BY <3>3, <3>4, <3>6, Zenon
      <4>2. Window(q, disk[q].earliest, disk[q].next)
        BY <3>3, <3>8, Zenon
      <4>3. disk[q].state \in Terminal /\ disk[q].state # "unreadable" /\ disk[q].state # "absent"
        BY <3>3 DEF Terminal
      <4> QED BY <3>2, <4>1, <4>2, <4>3, Zenon DEF Kept
    <3> QED BY <3>9, <3>10
  <2>2. CASE q \notin OldQuery
    <3>1. disk[q] = NoRecord /\ writer[q] = NoWriter
      BY <2>2 DEF Init
    <3>2. live = {} /\ givenUp = {} /\ q \notin Range(settled)
      <4>1. live = {} /\ givenUp = {}
        BY DEF Init
      <4> QED BY <1>2, <2>2, <4>1 DEF Table
    <3>3. writer[q].pump = "none" /\ writer[q].subs = {} /\ disk[q].state = "absent" /\ disk[q].segs = <<>>
      BY <3>1 DEF NoWriter, NoRecord
    <3>4. Contiguous(<<>>) /\ Positive(<<>>)
      BY DEF Contiguous, Positive
    <3>5. PumpAgrees(q)
      BY <3>1, <3>2, <3>3 DEF PumpAgrees
    <3>6. Kept(q)
      BY <3>2, <3>3, <3>4 DEF Kept, Terminal
    <3> QED BY <3>5, <3>6
  <2> QED BY <2>1, <2>2
<1>4. Limit
  <2> SUFFICES ASSUME NEW q \in Query PROVE Cardinality(writer[q].subs) + Len(abandoned[q]) <= MaxObservers
    BY DEF Limit
  <2>1. writer[q].subs = {} /\ abandoned[q] = <<>>
    BY DEF Init, NoWriter
  <2>2. Cardinality({}) = 0 /\ Len(<<>>) = 0
    BY FS_EmptySet
  <2> QED BY <2>1, <2>2, QueryAssumption
<1>5. ASSUME NEW o \in Observer PROVE Following(o)
  <2>1. obs[o] = Idle
    BY DEF Init
  <2> QED BY <2>1 DEF Following, Idle, Active
<1>6. Down /\ Swept
  BY DEF Init, Down, Swept
<1> QED BY <1>1, <1>3, <1>4, <1>5, <1>6 DEF IInv

(* A step that neither calls nor subscribers take part in *)
Quiet == /\ obs' = obs /\ abandoned' = abandoned
         /\ \A p \in Query : writer'[p].subs = writer[p].subs
LEMMA QuietKeeps ==
    ASSUME IInv, Quiet
    PROVE  Limit' /\ \A o \in Observer : Following(o)'
PROOF
<1>1. Limit'
  <2>1. \A p \in Query : writer'[p].subs = writer[p].subs /\ abandoned'[p] = abandoned[p]
    BY DEF Quiet
  <2>2. \A p \in Query : Cardinality(writer[p].subs) + Len(abandoned[p]) <= MaxObservers
    BY DEF IInv, Limit
  <2>3. \A p \in Query : Cardinality(writer'[p].subs) + Len(abandoned'[p]) <= MaxObservers
    BY <2>1, <2>2
  <2> QED BY <2>3 DEF Limit
<1>2. ASSUME NEW o \in Observer PROVE Following(o)'
  <2>1. Following(o)
    BY DEF IInv
  <2>2. obs' = obs /\ \A p \in Query : writer'[p].subs = writer[p].subs
    BY DEF Quiet
  <2>3. obs[o].pc \in Active => obs[o].query \in Query
    BY <2>1 DEF Following, Active
  <2> QED BY <2>1, <2>2, <2>3 DEF Following
<1> QED BY <1>1, <1>2

(* A step of one turn *)
LEMMA OneTurn ==
    ASSUME IInv, NEW q \in Query, Types', Limit', Down', Swept', PumpAgrees(q)', Kept(q)',
           \A p \in Query : p # q => SameFor(p), phase' = phase,
           \A o \in Observer : Following(o)'
    PROVE  IInv'
PROOF
<1>1. ASSUME NEW p \in Query PROVE PumpAgrees(p)' /\ Kept(p)'
  <2>1. CASE p = q
    BY <2>1
  <2>2. CASE p # q
    <3>1. PumpAgrees(p) /\ Kept(p)
      BY DEF IInv
    <3> QED BY <2>2, <3>1, Untouched
  <2> QED BY <2>1, <2>2
<1> QED BY <1>1 DEF IInv

(* The pump of a turn: its lemmas follow the order of the actions. *)
LEMMA BeginRecordKeeps ==
    ASSUME IInv, NEW q \in Query, BeginRecord(q)
    PROVE  IInv'
PROOF
<1>1. Types /\ PumpAgrees(q) /\ Kept(q) /\ Down /\ Swept
  BY DEF IInv
<1>2. disk \in [Query -> Record] /\ writer \in [Query -> Writer]
  BY <1>1 DEF Types
<1>3. phase = "serving" /\ disk[q] = NoRecord /\ writer[q].pump = "none" /\ q \notin givenUp
  BY DEF BeginRecord
<1>4. /\ live' = live /\ settled' = settled /\ totalSet' = totalSet /\ aged' = aged /\ gc' = gc
      /\ phase' = phase /\ obs' = obs /\ abandoned' = abandoned /\ givenUp' = givenUp
  BY DEF BeginRecord
<1>5. PICK d, w : d = [disk[q] EXCEPT !.state = "running"] /\ w = [writer[q] EXCEPT !.pump = "beginning"]
  OBVIOUS
<1>6. /\ d \in Record /\ d.state = "running" /\ d.segs = <<>>
      /\ d.earliest = 0 /\ d.next = 0
  <2>1. disk[q] \in Record
    BY <1>2
  <2>2. d \in Record /\ d.state = "running" /\ d.segs = disk[q].segs
        /\ d.earliest = disk[q].earliest /\ d.next = disk[q].next
    BY <1>5, <2>1 DEF Record
  <2> QED BY <1>3, <2>2 DEF NoRecord
<1>7. /\ w \in Writer /\ w.pump = "beginning" /\ w.subs = writer[q].subs /\ w.finished
      /\ w.earliest = 0 /\ w.next = 0 /\ w.subs = {}
  <2>1. writer[q] \in Writer
    BY <1>2
  <2>2. writer[q] = NoWriter
    BY <1>1, <1>3 DEF PumpAgrees
  <2>3. /\ w \in Writer /\ w.pump = "beginning" /\ w.subs = writer[q].subs /\ w.finished = writer[q].finished
        /\ w.earliest = writer[q].earliest /\ w.next = writer[q].next
    BY <1>5, <2>1 DEF Writer
  <2> QED BY <2>2, <2>3 DEF NoWriter
<1>8. disk' = [disk EXCEPT ![q] = d] /\ writer' = [writer EXCEPT ![q] = w]
  BY <1>5 DEF BeginRecord
<1>9. /\ disk' \in [Query -> Record] /\ disk'[q] = d
      /\ \A p \in Query : p # q => disk'[p] = disk[p]
  BY <1>2, <1>6, <1>8, PutAt
<1>10. /\ writer' \in [Query -> Writer] /\ writer'[q] = w
       /\ \A p \in Query : p # q => writer'[p] = writer[p]
  BY <1>2, <1>7, <1>8, PutAt
<1>11. Types'
  BY <1>1, <1>4, <1>9, <1>10 DEF Types
<1>12. Quiet
  <2>1. \A p \in Query : writer'[p].subs = writer[p].subs
    BY <1>7, <1>10
  <2> QED BY <1>4, <2>1 DEF Quiet
<1>13. Down' /\ Swept'
  <2>1. Down'
    BY <1>3, <1>4 DEF Down
  <2>2. Swept'
    BY <1>1, <1>4 DEF Swept
  <2> QED BY <2>1, <2>2
<1>14. PumpAgrees(q)'
  <2>1. q \notin live \cup Range(settled)
    BY <1>1, <1>3 DEF PumpAgrees
  <2> QED BY <1>3, <1>4, <1>6, <1>7, <1>9, <1>10, <2>1 DEF PumpAgrees
<1>15. Kept(q)'
  <2>1. Contiguous(<<>>) /\ Positive(<<>>)
    BY DEF Contiguous, Positive
  <2> QED BY <1>6, <1>7, <1>9, <1>10, <2>1 DEF Kept, Terminal
<1>16. \A p \in Query : p # q => SameFor(p)
  BY <1>4, <1>9, <1>10 DEF SameFor
<1> QED BY <1>4, <1>11, <1>12, <1>13, <1>14, <1>15, <1>16, QuietKeeps, OneTurn

LEMMA BeginWriterKeeps ==
    ASSUME IInv, NEW q \in Query, BeginWriter(q)
    PROVE  IInv'
PROOF
<1>1. Types /\ PumpAgrees(q) /\ Kept(q) /\ Down /\ Swept
  BY DEF IInv
<1>2. disk \in [Query -> Record] /\ writer \in [Query -> Writer] /\ disk[q] \in Record /\ writer[q] \in Writer
  BY <1>1 DEF Types
<1>3. writer[q].pump = "beginning"
  BY DEF BeginWriter
<1>4. /\ settled' = settled /\ totalSet' = totalSet /\ aged' = aged /\ gc' = gc
      /\ phase' = phase /\ obs' = obs /\ abandoned' = abandoned
  BY DEF BeginWriter
<1>5. /\ q \notin live \cup Range(settled) \cup givenUp
      /\ disk[q].state = "running" /\ disk[q].segs = <<>>
      /\ writer[q].earliest = 0 /\ writer[q].next = 0 /\ writer[q].finished
  BY <1>1, <1>3 DEF PumpAgrees
<1>6. phase # "down"
  BY <1>1, <1>3 DEF Down
<1>7. CASE /\ disk' = [disk EXCEPT ![q].segs = <<[base |-> 0, count |-> 0]>>]
           /\ writer' = [writer EXCEPT ![q] =
                 [@ EXCEPT !.finished = FALSE, !.state = "running", !.pump = "running"]]
           /\ live' = live \cup {q}
           /\ UNCHANGED <<givenUp, troubles>>
  <2>1. PICK segs, d, w : /\ segs = <<[base |-> 0, count |-> 0]>> /\ d = [disk[q] EXCEPT !.segs = segs]
                          /\ w = [writer[q] EXCEPT !.finished = FALSE, !.state = "running", !.pump = "running"]
    OBVIOUS
  <2>2. /\ segs \in Segments /\ Len(segs) = 1 /\ DOMAIN segs = 1..1 /\ segs # <<>>
        /\ segs[1].base = 0 /\ segs[1].count = 0
    BY <2>1 DEF Segments
  <2>3. d \in Record /\ d.state = "running" /\ d.segs = segs
    BY <1>2, <1>5, <2>1, <2>2 DEF Record
  <2>4. /\ w \in Writer /\ ~w.finished /\ w.pump = "running" /\ w.subs = writer[q].subs
        /\ w.earliest = 0 /\ w.next = 0
    BY <1>2, <1>5, <2>1 DEF Writer, States
  <2>5. disk' = [disk EXCEPT ![q] = d] /\ writer' = [writer EXCEPT ![q] = w]
    BY <1>7, <2>1
  <2>6. /\ disk' \in [Query -> Record] /\ disk'[q] = d
        /\ \A p \in Query : p # q => disk'[p] = disk[p]
    BY <1>2, <2>3, <2>5, PutAt
  <2>7. /\ writer' \in [Query -> Writer] /\ writer'[q] = w
        /\ \A p \in Query : p # q => writer'[p] = writer[p]
    BY <1>2, <2>4, <2>5, PutAt
  <2>8. live' = live \cup {q} /\ givenUp' = givenUp
    BY <1>7
  <2>9. Types'
    BY <1>1, <1>4, <2>6, <2>7, <2>8 DEF Types
  <2>10. Quiet
    <3>1. \A p \in Query : writer'[p].subs = writer[p].subs
      BY <2>4, <2>7
    <3> QED BY <1>4, <3>1 DEF Quiet
  <2>11. Down' /\ Swept'
    <3>1. Down'
      BY <1>4, <1>6 DEF Down
    <3>2. Swept'
      BY <1>1, <1>4, <2>8 DEF Swept
    <3> QED BY <3>1, <3>2
  <2>12. StartOf(segs) = 0 /\ EndOf(segs) = 0 /\ Contiguous(segs) /\ Positive(segs)
    <3>1. StartOf(segs) = 0 /\ EndOf(segs) = 0
      BY <2>2, Ends
    <3> QED BY <2>2, <3>1 DEF Contiguous, Positive
  <2>13. Window(q, writer[q].earliest, writer[q].next)'
    BY <2>2, <2>3, <2>4, <2>6, <2>7, <2>12 DEF Window
  <2>14. PumpAgrees(q)'
    BY <1>4, <1>5, <2>2, <2>3, <2>4, <2>6, <2>7, <2>8, <2>13 DEF PumpAgrees
  <2>15. Kept(q)'
    BY <2>3, <2>4, <2>6, <2>7, <2>12 DEF Kept, Terminal
  <2>16. \A p \in Query : p # q => SameFor(p)
    BY <1>4, <2>6, <2>7, <2>8 DEF SameFor
  <2> QED BY <1>4, <2>9, <2>10, <2>11, <2>14, <2>15, <2>16, QuietKeeps, OneTurn
<1>8. CASE /\ disk' = [disk EXCEPT ![q] = NoRecord]
           /\ writer' = [writer EXCEPT ![q].pump = "done"]
           /\ givenUp' = givenUp \cup {q}
           /\ UNCHANGED live
  <2>1. PICK w : w = [writer[q] EXCEPT !.pump = "done"]
    OBVIOUS
  <2>2. NoRecord \in Record
    <3>1. <<>> \in Segments
      BY DEF Segments
    <3> QED BY <3>1 DEF NoRecord, Record, Terminal
  <2>3. w \in Writer /\ w.finished /\ w.pump = "done" /\ w.subs = writer[q].subs
    BY <1>2, <1>5, <2>1 DEF Writer
  <2>4. writer' = [writer EXCEPT ![q] = w]
    BY <1>8, <2>1
  <2>5. /\ disk' \in [Query -> Record]
        /\ \A p \in Query : p # q => disk'[p] = disk[p]
    BY <1>2, <1>8, <2>2, PutAt
  <2>6. /\ writer' \in [Query -> Writer] /\ writer'[q] = w
        /\ \A p \in Query : p # q => writer'[p] = writer[p]
    BY <1>2, <2>3, <2>4, PutAt
  <2>7. live' = live /\ givenUp' = givenUp \cup {q}
    BY <1>8
  <2>8. Types'
    BY <1>1, <1>4, <2>5, <2>6, <2>7 DEF Types
  <2>9. Quiet
    <3>1. \A p \in Query : writer'[p].subs = writer[p].subs
      BY <2>3, <2>6
    <3> QED BY <1>4, <3>1 DEF Quiet
  <2>10. Down' /\ Swept'
    <3>1. Down'
      BY <1>4, <1>6 DEF Down
    <3>2. Swept'
      BY <1>1, <1>4, <2>7 DEF Swept
    <3> QED BY <3>1, <3>2
  <2>11. PumpAgrees(q)'
    <3>1. writer[q].subs = {}
      BY <1>1, <1>5 DEF PumpAgrees
    <3> QED BY <1>5, <2>3, <2>6, <2>7, <3>1 DEF PumpAgrees
  <2>12. Kept(q)'
    BY <2>7 DEF Kept
  <2>13. \A p \in Query : p # q => SameFor(p)
    BY <1>4, <2>5, <2>6, <2>7 DEF SameFor
  <2> QED BY <1>4, <2>8, <2>9, <2>10, <2>11, <2>12, <2>13, QuietKeeps, OneTurn
<1> QED BY <1>7, <1>8 DEF BeginWriter

LEMMA AppendFailsKeeps ==
    ASSUME IInv, NEW q \in Query, AppendFails(q)
    PROVE  IInv'
PROOF
<1>1. Types /\ PumpAgrees(q) /\ Kept(q) /\ Down /\ Swept
  BY DEF IInv
<1>2. disk \in [Query -> Record] /\ writer \in [Query -> Writer] /\ disk[q] \in Record /\ writer[q] \in Writer
  BY <1>1 DEF Types
<1>3. /\ live' = live /\ settled' = settled /\ totalSet' = totalSet /\ aged' = aged /\ gc' = gc
      /\ phase' = phase /\ obs' = obs /\ abandoned' = abandoned /\ givenUp' = givenUp
  BY DEF AppendFails
<1>4. PICK torn \in BOOLEAN : disk' = [disk EXCEPT ![q].torn = torn]
  BY DEF AppendFails
<1>5. PICK d, w : d = [disk[q] EXCEPT !.torn = torn] /\ w = [writer[q] EXCEPT !.stuck = TRUE]
  OBVIOUS
<1>6. d \in Record /\ \A x \in {"state", "earliest", "next", "since", "segs"} : d[x] = disk[q][x]
  BY <1>2, <1>5 DEF Record
<1>7. w \in Writer /\ \A x \in {"finished", "state", "earliest", "next", "subs", "pump"} : w[x] = writer[q][x]
  BY <1>2, <1>5 DEF Writer
<1>8. disk' = [disk EXCEPT ![q] = d] /\ writer' = [writer EXCEPT ![q] = w]
  BY <1>4, <1>5 DEF AppendFails
<1>9. /\ disk' \in [Query -> Record] /\ disk'[q] = d
      /\ \A p \in Query : p # q => disk'[p] = disk[p]
  BY <1>2, <1>6, <1>8, PutAt
<1>10. /\ writer' \in [Query -> Writer] /\ writer'[q] = w
       /\ \A p \in Query : p # q => writer'[p] = writer[p]
  BY <1>2, <1>7, <1>8, PutAt
<1>11. Types'
  BY <1>1, <1>3, <1>9, <1>10 DEF Types
<1>12. Quiet
  <2>1. w.subs = writer[q].subs
    BY <1>7
  <2>2. \A p \in Query : writer'[p].subs = writer[p].subs
    BY <1>10, <2>1
  <2> QED BY <1>3, <2>2 DEF Quiet
<1>13. Down' /\ Swept'
  <2>1. writer[q].pump = "running" /\ phase # "down"
    BY <1>1 DEF AppendFails, Down
  <2>2. Down'
    BY <1>3, <2>1 DEF Down
  <2>3. Swept'
    BY <1>1, <1>3 DEF Swept
  <2> QED BY <2>2, <2>3
<1>14. /\ disk'[q].state = disk[q].state /\ disk'[q].earliest = disk[q].earliest
       /\ disk'[q].next = disk[q].next /\ disk'[q].segs = disk[q].segs
  BY <1>6, <1>9
<1>15. /\ writer'[q].finished = writer[q].finished /\ writer'[q].state = writer[q].state
       /\ writer'[q].earliest = writer[q].earliest /\ writer'[q].next = writer[q].next
       /\ writer'[q].subs = writer[q].subs /\ writer'[q].pump = writer[q].pump
  BY <1>7, <1>10
<1>16. writer[q].pump = "running"
  BY DEF AppendFails
<1>17. PumpAgrees(q)'
  BY <1>1, <1>3, <1>14, <1>15, <1>16 DEF PumpAgrees, Window
<1>18. Kept(q)'
  BY <1>1, <1>3, <1>14, <1>15 DEF Kept, Window
<1>19. \A p \in Query : p # q => SameFor(p)
  BY <1>3, <1>9, <1>10 DEF SameFor
<1> QED BY <1>3, <1>11, <1>12, <1>13, <1>17, <1>18, <1>19, QuietKeeps, OneTurn

LEMMA FinishKeeps ==
    ASSUME IInv, NEW q \in Query, NEW outcome \in Terminal, Finish(q, outcome)
    PROVE  IInv'
PROOF
<1>1. Types /\ PumpAgrees(q) /\ Kept(q) /\ Down /\ Swept
  BY DEF IInv
<1>2. disk \in [Query -> Record] /\ writer \in [Query -> Writer] /\ disk[q] \in Record /\ writer[q] \in Writer
  BY <1>1 DEF Types
<1>3. /\ live' = live /\ settled' = settled /\ totalSet' = totalSet /\ aged' = aged /\ gc' = gc
      /\ phase' = phase /\ obs' = obs /\ abandoned' = abandoned /\ givenUp' = givenUp
  BY DEF Finish
<1>4. writer[q].pump = "running"
  BY DEF Finish
<1>5. /\ q \in live /\ disk[q].state = "running" /\ q \notin givenUp \cup Range(settled)
      /\ disk[q].segs # <<>> /\ Window(q, writer[q].earliest, writer[q].next)
  BY <1>1, <1>4 DEF PumpAgrees
<1>6. phase # "down"
  BY <1>1, <1>4 DEF Down
<1>7. Down' /\ Swept'
  <2>1. Down'
    BY <1>3, <1>6 DEF Down
  <2>2. Swept'
    BY <1>1, <1>3 DEF Swept
  <2> QED BY <2>1, <2>2
<1>8. outcome \in States
  BY DEF States
<1>9. CASE /\ disk' = [disk EXCEPT ![q] = [@ EXCEPT !.state = outcome, !.since = Now,
                             !.earliest = writer[q].earliest, !.next = writer[q].next]]
           /\ writer' = [writer EXCEPT ![q] = [@ EXCEPT !.finished = TRUE,
                             !.state = outcome, !.pump = "ending"]]
           /\ UNCHANGED troubles
  <2>1. PICK now : now = Now
    OBVIOUS
  <2>2. now \in Nat
    <3>1. \A p \in Query : disk[p].since \in Nat
      BY <1>2 DEF Record
    <3> QED BY <2>1, <3>1, NowIs
  <2>3. PICK d, w : /\ d = [disk[q] EXCEPT !.state = outcome, !.since = now,
                                    !.earliest = writer[q].earliest, !.next = writer[q].next]
                    /\ w = [writer[q] EXCEPT !.finished = TRUE, !.state = outcome, !.pump = "ending"]
    OBVIOUS
  <2>4. writer[q].earliest \in Nat /\ writer[q].next \in Nat
    BY <1>2 DEF Writer
  <2>5. /\ d \in Record /\ d.state = outcome /\ d.segs = disk[q].segs
        /\ d.earliest = writer[q].earliest /\ d.next = writer[q].next
    BY <1>2, <2>2, <2>3, <2>4 DEF Record
  <2>6. /\ w \in Writer /\ w.finished /\ w.state = outcome /\ w.pump = "ending"
        /\ w.subs = writer[q].subs /\ w.earliest = writer[q].earliest /\ w.next = writer[q].next
    BY <1>2, <1>8, <2>3 DEF Writer
  <2>7. disk' = [disk EXCEPT ![q] = d] /\ writer' = [writer EXCEPT ![q] = w]
    BY <1>9, <2>1, <2>3
  <2>8. /\ disk' \in [Query -> Record] /\ disk'[q] = d
        /\ \A p \in Query : p # q => disk'[p] = disk[p]
    BY <1>2, <2>5, <2>7, PutAt
  <2>9. /\ writer' \in [Query -> Writer] /\ writer'[q] = w
        /\ \A p \in Query : p # q => writer'[p] = writer[p]
    BY <1>2, <2>6, <2>7, PutAt
  <2>10. Types'
    BY <1>1, <1>3, <2>8, <2>9 DEF Types
  <2>11. Quiet
    <3>1. \A p \in Query : writer'[p].subs = writer[p].subs
      BY <2>6, <2>9
    <3> QED BY <1>3, <3>1 DEF Quiet
  <2>12. Window(q, disk[q].earliest, disk[q].next)' /\ Window(q, writer[q].earliest, writer[q].next)'
    BY <1>5, <2>5, <2>6, <2>8, <2>9 DEF Window
  <2>13. PumpAgrees(q)'
    BY <1>3, <1>5, <2>5, <2>6, <2>8, <2>9, <2>12 DEF PumpAgrees
  <2>14. Kept(q)'
    <3>1. outcome # "unreadable" /\ outcome # "absent"
      BY DEF Terminal
    <3> QED BY <1>1, <1>3, <1>5, <2>5, <2>6, <2>8, <2>9, <2>12, <3>1 DEF Kept
  <2>15. \A p \in Query : p # q => SameFor(p)
    BY <1>3, <2>8, <2>9 DEF SameFor
  <2> QED BY <1>3, <1>7, <2>10, <2>11, <2>13, <2>14, <2>15, QuietKeeps, OneTurn
<1>10. CASE /\ Trouble
            /\ writer' = [writer EXCEPT ![q] = [@ EXCEPT !.finished = TRUE,
                              !.state = outcome, !.pump = "done"]]
            /\ UNCHANGED disk
  <2>1. PICK w : w = [writer[q] EXCEPT !.finished = TRUE, !.state = outcome, !.pump = "done"]
    OBVIOUS
  <2>2. /\ w \in Writer /\ w.finished /\ w.state = outcome /\ w.pump = "done"
        /\ w.subs = writer[q].subs /\ w.earliest = writer[q].earliest /\ w.next = writer[q].next
    BY <1>2, <1>8, <2>1 DEF Writer
  <2>3. writer' = [writer EXCEPT ![q] = w] /\ disk' = disk
    BY <1>10, <2>1
  <2>4. /\ writer' \in [Query -> Writer] /\ writer'[q] = w
        /\ \A p \in Query : p # q => writer'[p] = writer[p]
    BY <1>2, <2>2, <2>3, PutAt
  <2>5. Types'
    BY <1>1, <1>3, <2>3, <2>4 DEF Types
  <2>6. Quiet
    <3>1. \A p \in Query : writer'[p].subs = writer[p].subs
      BY <2>2, <2>4
    <3> QED BY <1>3, <3>1 DEF Quiet
  <2>7. Window(q, writer[q].earliest, writer[q].next)'
    BY <1>5, <2>2, <2>3, <2>4 DEF Window
  <2>8. PumpAgrees(q)'
    BY <1>3, <1>5, <2>2, <2>3, <2>4, <2>7 DEF PumpAgrees
  <2>9. Kept(q)'
    BY <1>1, <1>3, <1>5, <2>2, <2>3, <2>4 DEF Kept, Terminal
  <2>10. \A p \in Query : p # q => SameFor(p)
    BY <1>3, <2>3, <2>4 DEF SameFor
  <2> QED BY <1>3, <1>7, <2>5, <2>6, <2>8, <2>9, <2>10, QuietKeeps, OneTurn
<1> QED BY <1>9, <1>10 DEF Finish

(* With no more subscribers anywhere the limit is kept. *)
LEMMA LimitKeeps ==
    ASSUME IInv, Types',
           \A p \in Query : /\ writer'[p].subs \subseteq writer[p].subs
                            /\ Len(abandoned'[p]) <= Len(abandoned[p])
    PROVE  Limit'
PROOF
<1> SUFFICES ASSUME NEW p \in Query
             PROVE  Cardinality(writer'[p].subs) + Len(abandoned'[p]) <= MaxObservers
  BY DEF Limit
<1>1. PICK s, t, m, n : s = writer[p].subs /\ t = writer'[p].subs /\ m = Len(abandoned[p]) /\ n = Len(abandoned'[p])
  OBVIOUS
<1>2. m \in Nat /\ n \in Nat /\ n <= m
  <2>1. abandoned[p] \in Seq(Nat)
    BY DEF IInv, Types
  <2>2. abandoned'[p] \in Seq(Nat)
    BY DEF Types
  <2> QED BY <1>1, <2>1, <2>2
<1>3. Cardinality(t) <= Cardinality(s) /\ Cardinality(s) \in Nat /\ Cardinality(t) \in Nat
  <2>1. s \subseteq Observer
    <3>1. writer[p] \in Writer
      BY DEF IInv, Types
    <3> QED BY <1>1, <3>1 DEF Writer
  <2>2. IsFiniteSet(s) /\ t \in SUBSET s
    BY <1>1, <2>1, QueryAssumption, FS_Subset
  <2> QED BY <2>2, FS_Subset, FS_CardinalityType
<1>4. Cardinality(s) + m <= MaxObservers /\ MaxObservers \in Nat
  BY <1>1, QueryAssumption DEF IInv, Limit
<1>5. Cardinality(t) + n <= MaxObservers
  BY <1>2, <1>3, <1>4
<1> QED BY <1>1, <1>5

(* The segments after an append *)
LEMMA AppendedSegments ==
    ASSUME NEW segs \in Segments, segs # <<>>, Contiguous(segs), Positive(segs)
    PROVE  \E g, k, s : /\ g = (LET r == Rotated(segs, EndOf(segs)) IN [r EXCEPT ![Len(r)].count = @ + 1])
                        /\ OneMore(segs, g) /\ k \in 1..Len(g) /\ s = Capped(g) /\ Latest(g, k, s)
PROOF
<1>1. PICK g : g = (LET r == Rotated(segs, EndOf(segs)) IN [r EXCEPT ![Len(r)].count = @ + 1])
  OBVIOUS
<1>2. OneMore(segs, g)
  BY <1>1, Grown
<1>3. g \in Segments /\ g # <<>> /\ Contiguous(g) /\ \A i \in 1..Len(g) : g[i].count > 0
  BY <1>2 DEF OneMore
<1>4. PICK k \in 1..Len(g) : Capped(g) = SubSeq(g, k, Len(g))
  BY <1>3, CappedIs
<1>5. PICK s : s = Capped(g)
  OBVIOUS
<1>6. Latest(g, k, s)
  BY <1>3, <1>4, <1>5, Dropped
<1> QED BY <1>1, <1>2, <1>4, <1>5, <1>6

(* Publishing leaves a call its subscription or closes it. *)
LEMMA PublishedIs ==
    ASSUME Types, NEW q \in Query, NEW frame \in Nat, NEW o \in Observer
    PROVE  LET c == Published(q, frame)[o] IN
           /\ c \in Call
           /\ c.pc = obs[o].pc /\ c.query = obs[o].query
           /\ c.sub = "open" => obs[o].sub = "open"
           /\ (o \in writer[q].subs /\ Full(o)) => c.sub = "closed"
PROOF
<1>1. PICK c : c = Published(q, frame)[o]
  OBVIOUS
<1>2. obs[o] \in Call
  BY DEF Types
<1>3. CASE o \notin writer[q].subs
  BY <1>1, <1>2, <1>3 DEF Published
<1>4. CASE o \in writer[q].subs /\ Full(o)
  <2>1. c = [obs[o] EXCEPT !.sub = "closed", !.lags = TRUE]
    BY <1>1, <1>4 DEF Published
  <2>2. c \in Call /\ c.pc = obs[o].pc /\ c.query = obs[o].query /\ c.sub = "closed"
    BY <1>2, <2>1 DEF Call
  <2> QED BY <1>1, <2>2
<1>5. CASE o \in writer[q].subs /\ ~Full(o)
  <2>1. PICK b : b = Append(obs[o].buf, frame)
    OBVIOUS
  <2>2. c = [obs[o] EXCEPT !.buf = b]
    BY <1>1, <1>5, <2>1 DEF Published
  <2>3. b \in Seq(Nat)
    <3>1. obs[o].buf \in Seq(Nat)
      BY <1>2 DEF Call
    <3> QED BY <2>1, <3>1
  <2>4. c \in Call /\ c.pc = obs[o].pc /\ c.query = obs[o].query /\ c.sub = obs[o].sub
    BY <1>2, <2>2, <2>3 DEF Call
  <2> QED BY <1>1, <1>5, <2>4
<1> QED BY <1>3, <1>4, <1>5

LEMMA AppendFrameKeeps ==
    ASSUME IInv, NEW q \in Query, AppendFrame(q)
    PROVE  IInv'
PROOF
<1>1. Types /\ PumpAgrees(q) /\ Kept(q) /\ Down /\ Swept
  BY DEF IInv
<1>2. disk \in [Query -> Record] /\ writer \in [Query -> Writer] /\ disk[q] \in Record /\ writer[q] \in Writer
  BY <1>1 DEF Types
<1>3. /\ live' = live /\ settled' = settled /\ totalSet' = totalSet /\ aged' = aged /\ gc' = gc
      /\ phase' = phase /\ givenUp' = givenUp
  BY DEF AppendFrame
<1>4. writer[q].pump = "running"
  BY DEF AppendFrame
<1>5. /\ q \in live /\ disk[q].state = "running" /\ q \notin givenUp \cup Range(settled)
      /\ disk[q].segs # <<>> /\ Window(q, writer[q].earliest, writer[q].next) /\ ~writer[q].finished
  BY <1>1, <1>4 DEF PumpAgrees
<1>6. PICK segs, next : segs = disk[q].segs /\ next = writer[q].next
  OBVIOUS
<1>7. /\ segs \in Segments /\ segs # <<>> /\ Contiguous(segs) /\ Positive(segs)
      /\ next = EndOf(segs) /\ next \in Nat
  <2>1. segs \in Segments /\ next \in Nat
    BY <1>2, <1>6 DEF Record, Writer
  <2> QED BY <1>1, <1>5, <1>6, <2>1 DEF Kept, Window
<1>8. PICK g, k, s : /\ g = (LET r == Rotated(segs, EndOf(segs)) IN [r EXCEPT ![Len(r)].count = @ + 1])
                     /\ OneMore(segs, g) /\ k \in 1..Len(g) /\ s = Capped(g) /\ Latest(g, k, s)
  BY <1>7, AppendedSegments
<1>9. /\ s \in Segments /\ s # <<>> /\ Contiguous(s) /\ Positive(s) /\ EndOf(s) = next + 1
      /\ Head(s).base = StartOf(s) /\ StartOf(s) \in Nat
  <2>1. s \in Segments /\ s # <<>> /\ Contiguous(s) /\ Positive(s) /\ EndOf(s) = EndOf(g)
    BY <1>8 DEF Latest
  <2>2. EndOf(g) = next + 1
    BY <1>7, <1>8 DEF OneMore
  <2>3. Head(s).base = StartOf(s) /\ StartOf(s) \in Nat
    BY <2>1, Ends DEF StartOf
  <2> QED BY <2>1, <2>2, <2>3
<1>10. PICK subs, e : subs = {o \in writer[q].subs : ~Full(o)} /\ e = Head(s).base
  OBVIOUS
<1>11. PICK d, w : /\ d = [disk[q] EXCEPT !.segs = s]
                   /\ w = [writer[q] EXCEPT !.next = next + 1, !.earliest = e, !.subs = subs]
  OBVIOUS
<1>12. d \in Record /\ d.state = "running" /\ d.segs = s
  BY <1>2, <1>5, <1>9, <1>11 DEF Record
<1>13. /\ w \in Writer /\ w.next = next + 1 /\ w.earliest = e /\ w.subs = subs /\ w.pump = "running"
       /\ ~w.finished
  <2>1. subs \subseteq Observer
    BY <1>2, <1>10 DEF Writer
  <2>2. e \in Nat /\ next + 1 \in Nat
    BY <1>7, <1>9, <1>10
  <2> QED BY <1>2, <1>4, <1>5, <1>11, <2>1, <2>2 DEF Writer
<1>14. disk' = [disk EXCEPT ![q] = d] /\ writer' = [writer EXCEPT ![q] = w] /\ obs' = Published(q, next)
       /\ abandoned' = [abandoned EXCEPT ![q] = StillRoom(@)]
  <2>1. LET n == writer[q].next
            grown == LET segs_1 == Rotated(disk[q].segs, n)
                     IN  [segs_1 EXCEPT ![Len(segs_1)].count = @ + 1]
            kept == Capped(grown)
        IN  /\ disk' = [disk EXCEPT ![q].segs = kept]
            /\ writer' = [writer EXCEPT
                 ![q].next = n + 1, ![q].earliest = Head(kept).base,
                 ![q].subs = {o \in @ : ~Full(o)}]
            /\ obs' = Published(q, n)
    BY DEF AppendFrame
  <2>2. /\ disk' = [disk EXCEPT ![q].segs = s]
        /\ writer' = [writer EXCEPT ![q].next = next + 1, ![q].earliest = e, ![q].subs = subs]
        /\ obs' = Published(q, next)
    BY <1>6, <1>7, <1>8, <1>10, <2>1
  <2>3. /\ disk' = [disk EXCEPT ![q] = d] /\ writer' = [writer EXCEPT ![q] = w]
    BY <1>11, <2>2
  <2> QED BY <2>2, <2>3 DEF AppendFrame
<1>15. /\ disk' \in [Query -> Record] /\ disk'[q] = d
       /\ \A p \in Query : p # q => disk'[p] = disk[p]
  BY <1>2, <1>12, <1>14, PutAt
<1>16. /\ writer' \in [Query -> Writer] /\ writer'[q] = w
       /\ \A p \in Query : p # q => writer'[p] = writer[p]
  BY <1>2, <1>13, <1>14, PutAt
<1>17. /\ abandoned' \in [Query -> Seq(Nat)]
       /\ \A p \in Query : Len(abandoned'[p]) <= Len(abandoned[p])
  <2>1. abandoned \in [Query -> Seq(Nat)]
    BY <1>1 DEF Types
  <2>2. PICK f : f = StillRoom(abandoned[q])
    OBVIOUS
  <2>3. f \in Seq(Nat) /\ Len(f) <= Len(abandoned[q])
    BY <2>1, <2>2, RoomLeft
  <2>4. abandoned' = [abandoned EXCEPT ![q] = f]
    BY <1>14, <2>2
  <2>5. /\ abandoned' \in [Query -> Seq(Nat)] /\ abandoned'[q] = f
        /\ \A p \in Query : p # q => abandoned'[p] = abandoned[p]
    BY <2>1, <2>3, <2>4, PutAt
  <2>6. \A p \in Query : Len(abandoned[p]) \in Nat
    BY <2>1
  <2> QED BY <2>3, <2>5, <2>6
<1>18. obs' \in [Observer -> Call]
  <2>1. obs' = [o \in Observer |-> obs'[o]]
    BY <1>14, Zenon DEF Published
  <2>2. \A o \in Observer : obs'[o] \in Call
    BY <1>1, <1>7, <1>14, PublishedIs
  <2> QED BY <2>1, <2>2
<1>19. Types'
  BY <1>1, <1>3, <1>15, <1>16, <1>17, <1>18 DEF Types
<1>20. Limit'
  <2>1. \A p \in Query : writer'[p].subs \subseteq writer[p].subs
    BY <1>10, <1>13, <1>16
  <2> QED BY <1>17, <1>19, <2>1, LimitKeeps
<1>21. Down' /\ Swept'
  <2>1. phase # "down"
    BY <1>1, <1>4 DEF Down
  <2>2. Down'
    BY <1>3, <2>1 DEF Down
  <2>3. Swept'
    BY <1>1, <1>3 DEF Swept
  <2> QED BY <2>2, <2>3
<1>22. ASSUME NEW o \in Observer PROVE Following(o)'
  <2>1. Following(o)
    BY DEF IInv
  <2>2. PICK c : c = obs'[o]
    OBVIOUS
  <2>3. /\ c.pc = obs[o].pc /\ c.query = obs[o].query
        /\ c.sub = "open" => obs[o].sub = "open"
        /\ (o \in writer[q].subs /\ Full(o)) => c.sub = "closed"
    BY <1>1, <1>7, <1>14, <2>2, PublishedIs
  <2>4. ASSUME c.pc \in Active, c.sub = "open" PROVE o \in writer'[c.query].subs
    <3>1. c.query \in Query /\ o \in writer[c.query].subs
      BY <2>1, <2>3, <2>4 DEF Following, Active
    <3>2. c.query = q => ~Full(o)
      BY <2>3, <2>4, <3>1
    <3> QED BY <1>10, <1>13, <1>16, <3>1, <3>2
  <2>5. c.pc # "idle" => c.query \in Query
    BY <2>1, <2>3 DEF Following
  <2> QED BY <2>2, <2>4, <2>5 DEF Following
<1>23. Window(q, writer[q].earliest, writer[q].next)'
  BY <1>9, <1>10, <1>12, <1>13, <1>15, <1>16 DEF Window
<1>24. PumpAgrees(q)'
  BY <1>3, <1>5, <1>9, <1>12, <1>13, <1>15, <1>16, <1>23 DEF PumpAgrees
<1>25. Kept(q)'
  BY <1>9, <1>12, <1>13, <1>15, <1>16 DEF Kept, Terminal
<1>26. \A p \in Query : p # q => SameFor(p)
  BY <1>3, <1>15, <1>16 DEF SameFor
<1> QED BY <1>3, <1>19, <1>20, <1>21, <1>22, <1>24, <1>25, <1>26, OneTurn

(* What segments hold is a number. *)
LEMMA HeldNat == ASSUME NEW segs \in Segments PROVE Held(segs) \in Nat
PROOF
<1> DEFINE D == DOMAIN segs
           step == [i \in D |-> [n \in Nat |-> n + segs[i].count]]
<1>1. segs \in Seq([base : Nat, count : Nat])
  BY DEF Segments
<1>2. \A i \in D : segs[i].count \in Nat
  <2>1. \A i \in D : segs[i] \in [base : Nat, count : Nat]
    BY <1>1, Positions
  <2> QED BY <2>1
<1>3. \A s \in SUBSET D : s # {} => Max(s) \in D
  BY <1>1, Positions, Zenon
<1>4. PICK h \in [SUBSET D -> Nat] : FoldsLeft(h, segs, 0, step)
  <2>1. step \in [DOMAIN segs -> [Nat -> Nat]] /\ 0 \in Nat
    BY <1>2
  <2> HIDE DEF step
  <2> QED BY <1>1, <2>1, FoldLeftDefined, Zenon
<1>5. h = [s \in SUBSET DOMAIN segs |->
             IF s = {} THEN 0 ELSE h[s \ {Max(s)}] + segs[Max(s)].count]
  <2>1. ASSUME NEW s \in SUBSET D, s # {} PROVE h[s] = h[s \ {Max(s)}] + segs[Max(s)].count
    <3>1. Max(s) \in D /\ h[s \ {Max(s)}] \in Nat
      BY <1>3, <2>1
    <3>2. h[s] = step[Max(s)][h[s \ {Max(s)}]]
      BY <1>4, <2>1 DEF FoldsLeft
    <3> QED BY <3>1, <3>2
  <2> QED BY <1>4, <2>1 DEF FoldsLeft
<1>6. PICK it : /\ it = [s \in SUBSET DOMAIN segs |->
                           IF s = {} THEN 0 ELSE it[s \ {Max(s)}] + segs[Max(s)].count]
                /\ Held(segs) = it[DOMAIN segs]
  <2>1. PICK it : it = CHOOSE iter : iter = [s \in SUBSET DOMAIN segs |->
                           IF s = {} THEN 0 ELSE iter[s \ {Max(s)}] + segs[Max(s)].count]
    OBVIOUS
  <2>2. it = [s \in SUBSET DOMAIN segs |->
                           IF s = {} THEN 0 ELSE it[s \ {Max(s)}] + segs[Max(s)].count]
    BY <1>5, <2>1, Zenon
  <2>3. Held(segs) = it[DOMAIN segs]
    BY <2>1, Zenon DEF Held, FoldLeft, MapThenFoldSet
  <2> QED BY <2>2, <2>3
<1>7. it[DOMAIN segs] \in Nat
  <2>1. PICK P : P = [s \in SUBSET D |-> Nat]
    OBVIOUS
  <2>2. it[{}] \in P[{}]
    BY <1>6, <2>1
  <2>3. ASSUME NEW s \in SUBSET D, s # {}, it[s \ {Max(s)}] \in P[s \ {Max(s)}] PROVE it[s] \in P[s]
    <3>1. Max(s) \in D /\ it[s \ {Max(s)}] \in Nat
      BY <1>3, <2>1, <2>3
    <3>2. it[s] = it[s \ {Max(s)}] + segs[Max(s)].count
      BY <1>6, <2>3
    <3> QED BY <1>2, <2>1, <3>1, <3>2
  <2>4. it[DOMAIN segs] \in P[DOMAIN segs]
    BY <1>1, <2>2, <2>3, FoldLeftKeeps, Zenon
  <2> QED BY <2>1, <2>4
<1> QED BY <1>6, <1>7

LEMMA EndSubscriberKeeps ==
    ASSUME IInv, NEW q \in Query, NEW o \in Observer, EndSubscriber(q, o)
    PROVE  IInv'
PROOF
<1>1. Types /\ PumpAgrees(q) /\ Kept(q) /\ Down /\ Swept
  BY DEF IInv
<1>2. /\ writer \in [Query -> Writer] /\ writer[q] \in Writer
      /\ obs \in [Observer -> Call] /\ obs[o] \in Call
  BY <1>1 DEF Types
<1>3. /\ disk' = disk /\ live' = live /\ settled' = settled /\ totalSet' = totalSet /\ aged' = aged
      /\ gc' = gc /\ phase' = phase /\ givenUp' = givenUp /\ abandoned' = abandoned
  BY DEF EndSubscriber
<1>4. writer[q].pump = "ending"
  BY DEF EndSubscriber
<1>5. PICK c, w : c = [obs[o] EXCEPT !.sub = "closed"] /\ w = [writer[q] EXCEPT !.subs = @ \ {o}]
  OBVIOUS
<1>6. c \in Call /\ c.sub = "closed" /\ c.pc = obs[o].pc /\ c.query = obs[o].query
  BY <1>2, <1>5 DEF Call
<1>7. /\ w \in Writer /\ w.subs = writer[q].subs \ {o} /\ w.finished = writer[q].finished
      /\ w.state = writer[q].state /\ w.earliest = writer[q].earliest /\ w.next = writer[q].next
      /\ w.pump = writer[q].pump
  BY <1>2, <1>5 DEF Writer
<1>8. obs' = [obs EXCEPT ![o] = c] /\ writer' = [writer EXCEPT ![q] = w]
  BY <1>5 DEF EndSubscriber
<1>9. /\ obs' \in [Observer -> Call] /\ obs'[o] = c
      /\ \A p \in Observer : p # o => obs'[p] = obs[p]
  BY <1>2, <1>6, <1>8, PutAt
<1>10. /\ writer' \in [Query -> Writer] /\ writer'[q] = w
       /\ \A p \in Query : p # q => writer'[p] = writer[p]
  BY <1>2, <1>7, <1>8, PutAt
<1>11. Types'
  BY <1>1, <1>3, <1>9, <1>10 DEF Types
<1>12. Limit'
  <2>1. \A p \in Query : writer'[p].subs \subseteq writer[p].subs
    BY <1>7, <1>10
  <2>2. \A p \in Query : Len(abandoned'[p]) <= Len(abandoned[p])
    <3>1. \A p \in Query : Len(abandoned[p]) \in Nat
      BY <1>1 DEF Types
    <3> QED BY <1>3, <3>1
  <2> QED BY <1>11, <2>1, <2>2, LimitKeeps
<1>13. Down' /\ Swept'
  <2>1. phase # "down"
    BY <1>1, <1>4 DEF Down
  <2>2. Down'
    BY <1>3, <2>1 DEF Down
  <2>3. Swept'
    BY <1>1, <1>3 DEF Swept
  <2> QED BY <2>2, <2>3
<1>14. ASSUME NEW p \in Observer PROVE Following(p)'
  <2>1. Following(p)
    BY DEF IInv
  <2>2. CASE p = o
    BY <1>6, <1>9, <2>1, <2>2 DEF Following
  <2>3. CASE p # o
    <3>1. obs'[p] = obs[p]
      BY <1>9, <2>3
    <3>2. \A r \in Query : p \in writer[r].subs => p \in writer'[r].subs
      BY <1>7, <1>10, <2>3
    <3>3. obs[p].pc \in Active => obs[p].query \in Query
      BY <2>1 DEF Following, Active
    <3> QED BY <2>1, <3>1, <3>2, <3>3 DEF Following
  <2> QED BY <2>2, <2>3
<1>15. PumpAgrees(q)'
  BY <1>1, <1>3, <1>4, <1>7, <1>10 DEF PumpAgrees, Window
<1>16. Kept(q)'
  BY <1>1, <1>3, <1>7, <1>10 DEF Kept, Window
<1>17. \A p \in Query : p # q => SameFor(p)
  BY <1>3, <1>10 DEF SameFor
<1> QED BY <1>3, <1>11, <1>12, <1>13, <1>14, <1>15, <1>16, <1>17, OneTurn

LEMMA SettleRecordKeeps ==
    ASSUME IInv, NEW q \in Query, SettleRecord(q)
    PROVE  IInv'
PROOF
<1>1. Types /\ PumpAgrees(q) /\ Kept(q) /\ Down /\ Swept
  BY DEF IInv
<1>2. /\ writer \in [Query -> Writer] /\ writer[q] \in Writer /\ disk[q] \in Record
      /\ abandoned \in [Query -> Seq(Nat)] /\ settled \in Seq(Query) /\ IsInjective(settled)
  BY <1>1 DEF Types
<1>3. /\ disk' = disk /\ obs' = obs /\ aged' = aged /\ gc' = gc /\ phase' = phase /\ givenUp' = givenUp
      /\ live' = live \ {q} /\ settled' = Append(settled, q)
      /\ totalSet' = totalSet + Held(disk[q].segs)
      /\ writer' = [writer EXCEPT ![q].pump = "done"] /\ abandoned' = [abandoned EXCEPT ![q] = <<>>]
  BY DEF SettleRecord
<1>4. writer[q].pump = "ending" /\ writer[q].subs = {}
  BY DEF SettleRecord
<1>5. /\ q \in live /\ disk[q].state \in Terminal /\ writer[q].finished /\ q \notin givenUp \cup Range(settled)
      /\ Window(q, disk[q].earliest, disk[q].next)
  BY <1>1, <1>4 DEF PumpAgrees
<1>6. settled' \in Seq(Query) /\ IsInjective(settled') /\ Range(settled') = Range(settled) \cup {q}
  <2>1. Table(settled, Range(settled))
    BY <1>2 DEF Table
  <2>2. Append(settled, q) \in Seq(Query) /\ Table(Append(settled, q), Range(settled) \cup {q})
    BY <1>2, <1>5, <2>1, Joins
  <2> QED BY <1>3, <2>2 DEF Table
<1>7. totalSet' \in Nat
  <2>1. disk[q].segs \in Segments /\ totalSet \in Nat
    BY <1>1, <1>2 DEF Record, Types
  <2>2. PICK n : n = Held(disk[q].segs) /\ n \in Nat
    BY <2>1, HeldNat
  <2> QED BY <1>3, <2>1, <2>2
<1>8. PICK w : w = [writer[q] EXCEPT !.pump = "done"]
  OBVIOUS
<1>9. /\ w \in Writer /\ w.subs = {} /\ w.finished /\ w.pump = "done"
  BY <1>2, <1>4, <1>5, <1>8 DEF Writer
<1>10. /\ writer' \in [Query -> Writer] /\ writer'[q] = w
       /\ \A p \in Query : p # q => writer'[p] = writer[p]
  <2>1. writer' = [writer EXCEPT ![q] = w]
    BY <1>3, <1>8
  <2> QED BY <1>2, <1>9, <2>1, PutAt
<1>11. /\ abandoned' \in [Query -> Seq(Nat)] /\ abandoned'[q] = <<>>
       /\ \A p \in Query : p # q => abandoned'[p] = abandoned[p]
  <2>1. <<>> \in Seq(Nat)
    BY EmptySeq, Zenon
  <2> QED BY <1>2, <1>3, <2>1, PutAt
<1>12. Types'
  BY <1>1, <1>3, <1>6, <1>7, <1>10, <1>11 DEF Types
<1>13. \A p \in Query : writer'[p].subs = writer[p].subs
  BY <1>4, <1>9, <1>10
<1>14. Limit'
  <2>1. \A p \in Query : Len(abandoned'[p]) <= Len(abandoned[p])
    <3>1. \A p \in Query : Len(abandoned[p]) \in Nat
      BY <1>2
    <3>2. Len(<<>>) = 0
      OBVIOUS
    <3> QED BY <1>11, <3>1, <3>2
  <2> QED BY <1>12, <1>13, <2>1, LimitKeeps
<1>15. Down' /\ Swept'
  <2>1. phase # "down"
    BY <1>1, <1>4 DEF Down
  <2>2. Down'
    BY <1>3, <2>1 DEF Down
  <2>3. Swept'
    BY <1>1, <1>3, <1>6 DEF Swept
  <2> QED BY <2>2, <2>3
<1>16. ASSUME NEW o \in Observer PROVE Following(o)'
  <2>1. Following(o)
    BY DEF IInv
  <2>2. obs[o].pc \in Active => obs[o].query \in Query
    BY <2>1 DEF Following, Active
  <2> QED BY <1>3, <1>13, <2>1, <2>2 DEF Following
<1>17. PumpAgrees(q)'
  BY <1>3, <1>9, <1>10 DEF PumpAgrees
<1>18. Kept(q)'
  <2>1. disk[q].state # "unreadable" /\ disk[q].state # "absent"
    BY <1>5 DEF Terminal
  <2> QED BY <1>1, <1>3, <1>5, <1>6, <1>9, <1>10, <2>1 DEF Kept, Window
<1>19. \A p \in Query : p # q => SameFor(p)
  BY <1>3, <1>6, <1>10 DEF SameFor
<1> QED BY <1>3, <1>12, <1>14, <1>15, <1>16, <1>17, <1>18, <1>19, OneTurn

-----------------------------------------------------------------------------
(* The calls of observers *)

(* A call changes nothing but itself, and the subscribers of one writer. *)
Rest == UNCHANGED <<disk, live, settled, totalSet, aged, gc, phase, givenUp>>
Tied(c, o) ==
    /\ c.pc # "idle" => c.query \in Query
    /\ (c.pc \in Active /\ c.sub = "open") => o \in writer[c.query].subs

LEMMA CallKeeps ==
    ASSUME IInv, NEW o \in Observer, NEW c \in Call, obs' = [obs EXCEPT ![o] = c],
           Rest, Stay, Tied(c, o)
    PROVE  IInv'
PROOF
<1>1. Types /\ Limit /\ Down /\ Swept
  BY DEF IInv
<1>2. /\ disk' = disk /\ live' = live /\ settled' = settled /\ totalSet' = totalSet /\ aged' = aged
      /\ gc' = gc /\ phase' = phase /\ givenUp' = givenUp /\ writer' = writer /\ abandoned' = abandoned
  BY DEF Rest, Stay
<1>3. /\ obs' \in [Observer -> Call] /\ obs'[o] = c
      /\ \A p \in Observer : p # o => obs'[p] = obs[p]
  <2>1. obs \in [Observer -> Call]
    BY <1>1 DEF Types
  <2> QED BY <2>1, PutAt
<1>4. Types'
  BY <1>1, <1>2, <1>3 DEF Types
<1>5. Limit' /\ Down' /\ Swept'
  BY <1>1, <1>2 DEF Limit, Down, Swept
<1>6. ASSUME NEW p \in Query PROVE PumpAgrees(p)' /\ Kept(p)'
  <2>1. PumpAgrees(p) /\ Kept(p)
    BY DEF IInv
  <2> QED BY <1>2, <2>1 DEF PumpAgrees, Kept, Window
<1>7. ASSUME NEW p \in Observer PROVE Following(p)'
  <2>1. Following(p)
    BY DEF IInv
  <2> QED BY <1>2, <1>3, <2>1 DEF Following, Tied
<1> QED BY <1>4, <1>5, <1>6, <1>7 DEF IInv

(* The limit of observers after a step that changes the subscribers of one query *)
LEMMA LimitAt ==
    ASSUME Limit, NEW q \in Query, \A p \in Query : p # q => writer'[p].subs = writer[p].subs
                                                       /\ abandoned'[p] = abandoned[p],
           Cardinality(writer'[q].subs) + Len(abandoned'[q]) <= MaxObservers
    PROVE  Limit'
PROOF
<1>1. ASSUME NEW p \in Query PROVE Cardinality(writer'[p].subs) + Len(abandoned'[p]) <= MaxObservers
  <2>1. CASE p = q
    BY <2>1
  <2>2. CASE p # q
    <3>1. writer'[p].subs = writer[p].subs /\ abandoned'[p] = abandoned[p]
      BY <2>2
    <3>2. Cardinality(writer[p].subs) + Len(abandoned[p]) <= MaxObservers
      BY DEF Limit
    <3> QED BY <3>1, <3>2
  <2> QED BY <2>1, <2>2
<1> QED BY <1>1 DEF Limit

(* A caller that leaves takes its subscription or abandons it. *)
LEMMA LeaveKeeps ==
    ASSUME IInv, NEW o \in Observer, NEW c \in Call, obs' = [obs EXCEPT ![o] = c],
           Rest, Leave(o), obs[o].pc \in Active, c.pc \notin Active, c.pc # "idle" => c.query \in Query
    PROVE  IInv'
PROOF
<1>1. Types /\ Limit /\ Down /\ Swept /\ Following(o)
  BY DEF IInv
<1>2. CASE obs[o].sub # "open"
  <2>1. Stay
    BY <1>2 DEF Leave, Stay
  <2>2. Tied(c, o)
    BY DEF Tied
  <2> QED BY <2>1, <2>2, CallKeeps
<1>3. CASE obs[o].sub = "open"
  <2>1. PICK q : q = obs[o].query
    OBVIOUS
  <2>2. q \in Query /\ o \in writer[q].subs /\ PumpAgrees(q) /\ Kept(q)
    <3>1. q \in Query
      BY <1>1, <2>1 DEF Following, Active
    <3> QED BY <1>1, <1>3, <2>1, <3>1 DEF Following, IInv
  <2>3. /\ disk' = disk /\ live' = live /\ settled' = settled /\ totalSet' = totalSet /\ aged' = aged
        /\ gc' = gc /\ phase' = phase /\ givenUp' = givenUp
    BY DEF Rest
  <2>4. PICK w, n, a : w = [writer[q] EXCEPT !.subs = @ \ {o}] /\ n = Len(obs[o].buf) /\ a = Append(abandoned[q], n)
    OBVIOUS
  <2>5. writer' = [writer EXCEPT ![q] = w] /\ abandoned' = [abandoned EXCEPT ![q] = a]
    BY <1>3, <2>1, <2>4 DEF Leave
  <2>6. /\ writer \in [Query -> Writer] /\ writer[q] \in Writer /\ obs \in [Observer -> Call]
        /\ abandoned \in [Query -> Seq(Nat)] /\ abandoned[q] \in Seq(Nat) /\ obs[o] \in Call
    BY <1>1, <2>2 DEF Types
  <2>7. /\ w \in Writer /\ w.subs = writer[q].subs \ {o} /\ w.finished = writer[q].finished
        /\ w.state = writer[q].state /\ w.earliest = writer[q].earliest /\ w.next = writer[q].next
        /\ w.pump = writer[q].pump
    BY <2>4, <2>6 DEF Writer
  <2>8. a \in Seq(Nat) /\ Len(a) = Len(abandoned[q]) + 1 /\ Len(abandoned[q]) \in Nat
    <3>1. obs[o].buf \in Seq(Nat)
      BY <2>6 DEF Call
    <3>2. n \in Nat
      BY <2>4, <3>1
    <3> QED BY <2>4, <2>6, <3>2
  <2>9. /\ writer' \in [Query -> Writer] /\ writer'[q] = w
        /\ \A p \in Query : p # q => writer'[p] = writer[p]
    BY <2>2, <2>5, <2>6, <2>7, PutAt
  <2>10. /\ abandoned' \in [Query -> Seq(Nat)] /\ abandoned'[q] = a
         /\ \A p \in Query : p # q => abandoned'[p] = abandoned[p]
    BY <2>2, <2>5, <2>6, <2>8, PutAt
  <2>11. /\ obs' \in [Observer -> Call] /\ obs'[o] = c
         /\ \A p \in Observer : p # o => obs'[p] = obs[p]
    BY <2>6, PutAt
  <2>12. Types'
    BY <1>1, <2>3, <2>9, <2>10, <2>11 DEF Types
  <2>13. Limit'
    <3>1. PICK s : s = writer[q].subs
      OBVIOUS
    <3>2. IsFiniteSet(s) /\ o \in s
      <4>1. s \subseteq Observer
        BY <2>6, <3>1 DEF Writer
      <4> QED BY <2>2, <3>1, <4>1, QueryAssumption, FS_Subset
    <3>3. Cardinality(s \ {o}) = Cardinality(s) - 1 /\ Cardinality(s) \in Nat
      BY <3>2, FS_RemoveElement, FS_CardinalityType
    <3>4. Cardinality(s) + Len(abandoned[q]) <= MaxObservers
      BY <1>1, <2>2, <3>1 DEF Limit
    <3>5. Cardinality(writer'[q].subs) + Len(abandoned'[q]) <= MaxObservers
      <4>1. Cardinality(writer'[q].subs) = Cardinality(s) - 1 /\ Len(abandoned'[q]) = Len(abandoned[q]) + 1
        BY <2>7, <2>8, <2>9, <2>10, <3>1, <3>3
      <4>2. (Cardinality(s) - 1) + (Len(abandoned[q]) + 1) = Cardinality(s) + Len(abandoned[q])
        BY <2>8, <3>3
      <4> QED BY <3>4, <4>1, <4>2, Zenon
    <3> QED BY <1>1, <2>2, <2>9, <2>10, <3>5, LimitAt
  <2>14. Down' /\ Swept'
    <3>1. Down'
      <4>1. \A p \in Query : writer'[p].pump = writer[p].pump
        BY <2>7, <2>9
      <4> QED BY <1>1, <2>3, <4>1 DEF Down
    <3>2. Swept'
      BY <1>1, <2>3 DEF Swept
    <3> QED BY <3>1, <3>2
  <2>15. ASSUME NEW p \in Observer PROVE Following(p)'
    <3>1. Following(p)
      BY DEF IInv
    <3>2. CASE p = o
      BY <2>11, <3>2 DEF Following
    <3>3. CASE p # o
      <4>1. obs'[p] = obs[p]
        BY <2>11, <3>3
      <4>2. \A r \in Query : p \in writer[r].subs => p \in writer'[r].subs
        BY <2>7, <2>9, <3>3
      <4>3. obs[p].pc \in Active => obs[p].query \in Query
        BY <3>1 DEF Following, Active
      <4> QED BY <3>1, <4>1, <4>2, <4>3 DEF Following
    <3> QED BY <3>2, <3>3
  <2>16. PumpAgrees(q)'
    <3>1. writer[q].pump # "none"
      BY <2>2 DEF PumpAgrees, NoWriter
    <3> QED BY <2>2, <2>3, <2>7, <2>9, <3>1 DEF PumpAgrees, Window
  <2>17. Kept(q)'
    BY <2>2, <2>3, <2>7, <2>9 DEF Kept, Window
  <2>18. \A p \in Query : p # q => SameFor(p)
    BY <2>3, <2>9 DEF SameFor
  <2> QED BY <2>2, <2>3, <2>12, <2>13, <2>14, <2>15, <2>16, <2>17, <2>18, OneTurn
<1> QED BY <1>2, <1>3

(* What Ended makes of a call *)
LEMMA EndedIs ==
    ASSUME Types, NEW o \in Observer,
           NEW how \in {"none", "sequence", "pruned", "limit", "notfound", "internal", "settled",
                        "error", "lag", "shutdown"}
    PROVE  LET c == Ended(o, how) IN
           /\ c \in Call /\ c.pc = "ended" /\ c.end = how
           /\ \A f \in {"query", "at", "to", "snap", "list", "buf", "sub", "lags", "whole"} : c[f] = obs[o][f]
PROOF
<1>1. obs[o] \in Call
  BY DEF Types
<1>2. PICK c : c = Ended(o, how)
  OBVIOUS
<1>3. c = [obs[o] EXCEPT !.pc = "ended", !.end = how]
  BY <1>2 DEF Ended
<1>4. c \in Call /\ c.pc = "ended" /\ c.end = how
  BY <1>1, <1>3 DEF Call
<1>5. \A f \in {"query", "at", "to", "snap", "list", "buf", "sub", "lags", "whole"} : c[f] = obs[o][f]
  BY <1>1, <1>3 DEF Call
<1> QED BY <1>2, <1>4, <1>5

(* What Replaying makes of a call *)
Replay(c, call, from, to, state, sub) ==
    /\ c \in Call /\ c.query = call.query /\ c.list = call.list /\ c.buf = call.buf
    /\ c.lags = call.lags /\ c.whole = call.whole
    /\ from > to => c.pc = "ended" /\ c.end = "sequence" /\ c.at = call.at
    /\ from <= to => /\ c.pc = IF to > from THEN "listing" ELSE "replayed"
                     /\ c.at = from /\ c.to = to /\ c.snap = state /\ c.sub = sub /\ c.end = call.end
LEMMA ReplayingIs ==
    ASSUME NEW call \in Call, NEW from \in Nat, NEW to \in Nat, NEW state \in States,
           NEW sub \in {"none", "open"}
    PROVE  Replay(Replaying(call, from, to, state, sub), call, from, to, state, sub)
PROOF
<1>1. PICK c : c = Replaying(call, from, to, state, sub)
  OBVIOUS
<1>2. CASE from > to
  <2>1. c = [call EXCEPT !.pc = "ended", !.end = "sequence"]
    BY <1>1, <1>2 DEF Replaying
  <2>2. /\ c \in Call /\ c.query = call.query /\ c.list = call.list /\ c.buf = call.buf
        /\ c.lags = call.lags /\ c.whole = call.whole
        /\ c.pc = "ended" /\ c.end = "sequence" /\ c.at = call.at
    BY <2>1 DEF Call
  <2>3. Replay(c, call, from, to, state, sub)
    BY <1>2, <2>2 DEF Replay
  <2> QED BY <1>1, <2>3
<1>3. CASE ~(from > to)
  <2>1. PICK pc \in {"listing", "replayed"} : pc = IF to > from THEN "listing" ELSE "replayed"
    OBVIOUS
  <2>2. c = [call EXCEPT !.pc = pc, !.at = from, !.to = to, !.snap = state, !.sub = sub]
    BY <1>1, <1>3, <2>1 DEF Replaying
  <2>3. /\ c \in Call /\ c.query = call.query /\ c.list = call.list /\ c.buf = call.buf
        /\ c.lags = call.lags /\ c.whole = call.whole
        /\ c.pc = pc /\ c.at = from /\ c.to = to /\ c.snap = state /\ c.sub = sub /\ c.end = call.end
    BY <2>2 DEF Call, Active
  <2>4. Replay(c, call, from, to, state, sub)
    BY <1>3, <2>1, <2>3 DEF Replay
  <2> QED BY <1>1, <2>4
<1> QED BY <1>2, <1>3

LEMMA ObserveQueryKeeps ==
    ASSUME IInv, NEW o \in Observer, NEW q \in Query, NEW from \in Nat, ObserveQuery(o, q, from)
    PROVE  IInv'
PROOF
<1>1. Types
  BY DEF IInv
<1>2. disk[q] \in Record /\ Idle \in Call
  <2>1. disk[q] \in Record
    BY <1>1 DEF Types
  <2>2. Idle \in Call
    BY EmptySeq, Zenon DEF Idle, Call
  <2> QED BY <2>1, <2>2
<1>3. PICK called : called = [Idle EXCEPT !.query = q, !.at = from]
  OBVIOUS
<1>4. called \in Call /\ called.query = q /\ called.sub = "none"
  <2>1. called \in Call /\ called.query = q /\ called.sub = Idle.sub
    BY <1>2, <1>3 DEF Call
  <2> QED BY <2>1 DEF Idle
<1>5. Rest /\ Stay
  BY DEF ObserveQuery, Rest, Stay
<1>6. obs' = [obs EXCEPT ![o] =
             IF q \in live THEN [called EXCEPT !.pc = "found"]
             ELSE IF disk[q].state \notin Terminal
                  THEN [called EXCEPT !.pc = "ended", !.end = "notfound"]
             ELSE Replaying(called, from, disk[q].next, disk[q].state, "none")]
  BY <1>3 DEF ObserveQuery
<1>7. CASE q \in live
  <2>1. PICK c : c = [called EXCEPT !.pc = "found"]
    OBVIOUS
  <2>2. c \in Call /\ c.query = q /\ c.pc = "found"
    BY <1>4, <2>1 DEF Call
  <2>3. obs' = [obs EXCEPT ![o] = c]
    BY <1>6, <1>7, <2>1
  <2>4. Tied(c, o)
    BY <2>2 DEF Tied, Active
  <2> QED BY <1>5, <2>2, <2>3, <2>4, CallKeeps
<1>8. CASE q \notin live /\ disk[q].state \notin Terminal
  <2>1. PICK c : c = [called EXCEPT !.pc = "ended", !.end = "notfound"]
    OBVIOUS
  <2>2. c \in Call /\ c.query = q /\ c.pc = "ended"
    BY <1>4, <2>1 DEF Call
  <2>3. obs' = [obs EXCEPT ![o] = c]
    BY <1>6, <1>8, <2>1
  <2>4. Tied(c, o)
    BY <2>2 DEF Tied, Active
  <2> QED BY <1>5, <2>2, <2>3, <2>4, CallKeeps
<1>9. CASE q \notin live /\ disk[q].state \in Terminal
  <2>1. PICK c : c = Replaying(called, from, disk[q].next, disk[q].state, "none")
    OBVIOUS
  <2>2. disk[q].next \in Nat /\ disk[q].state \in States
    BY <1>2, <1>9 DEF Record, States
  <2>3. c \in Call /\ c.query = q /\ (c.pc = "ended" \/ c.sub = "none")
    <3>1. Replay(c, called, from, disk[q].next, disk[q].state, "none")
      BY <1>4, <2>1, <2>2, ReplayingIs
    <3> QED BY <1>4, <2>2, <3>1 DEF Replay
  <2>4. obs' = [obs EXCEPT ![o] = c]
    BY <1>6, <1>9, <2>1
  <2>5. Tied(c, o)
    BY <2>3 DEF Tied, Active
  <2> QED BY <1>5, <2>3, <2>4, <2>5, CallKeeps
<1> QED BY <1>7, <1>8, <1>9

(* An observer is added to the subscribers of a writer. *)
Subscribes(o, q) ==
    Registers(o, q) /\ writer' = [writer EXCEPT ![q].subs = @ \cup {o}] /\ abandoned' = abandoned
LEMMA RegistersKeeps ==
    ASSUME IInv, NEW o \in Observer, NEW q \in Query, NEW c \in Call, obs' = [obs EXCEPT ![o] = c],
           Rest, Subscribes(o, q), c.query = q
    PROVE  IInv'
PROOF
<1>1. Types /\ Limit /\ Down /\ Swept /\ PumpAgrees(q) /\ Kept(q)
  BY DEF IInv
<1>2. /\ disk' = disk /\ live' = live /\ settled' = settled /\ totalSet' = totalSet /\ aged' = aged
      /\ gc' = gc /\ phase' = phase /\ givenUp' = givenUp /\ abandoned' = abandoned
  BY DEF Rest, Subscribes
<1>3. /\ writer \in [Query -> Writer] /\ writer[q] \in Writer /\ obs \in [Observer -> Call]
      /\ abandoned \in [Query -> Seq(Nat)]
  BY <1>1 DEF Types
<1>4. q \in live /\ ~writer[q].finished /\ writer[q].pump = "running"
  <2>1. ~writer[q].finished
    BY DEF Subscribes, Registers
  <2>2. writer[q].pump \in {"none", "beginning", "running", "ending", "done"}
    BY <1>3 DEF Writer
  <2>3. writer[q].pump = "none" => writer[q].finished
    BY <1>1 DEF PumpAgrees, NoWriter
  <2> QED BY <1>1, <2>1, <2>2, <2>3 DEF PumpAgrees
<1>5. PICK w : w = [writer[q] EXCEPT !.subs = @ \cup {o}]
  OBVIOUS
<1>6. /\ w \in Writer /\ w.subs = writer[q].subs \cup {o} /\ w.finished = writer[q].finished
      /\ w.state = writer[q].state /\ w.earliest = writer[q].earliest /\ w.next = writer[q].next
      /\ w.pump = writer[q].pump
  BY <1>3, <1>5 DEF Writer
<1>7. /\ writer' \in [Query -> Writer] /\ writer'[q] = w
      /\ \A p \in Query : p # q => writer'[p] = writer[p]
  <2>1. writer' = [writer EXCEPT ![q] = w]
    BY <1>5 DEF Subscribes
  <2> QED BY <1>3, <1>6, <2>1, PutAt
<1>8. /\ obs' \in [Observer -> Call] /\ obs'[o] = c
      /\ \A p \in Observer : p # o => obs'[p] = obs[p]
  BY <1>3, PutAt
<1>9. Types'
  BY <1>1, <1>2, <1>7, <1>8 DEF Types
<1>10. Limit'
  <2>1. PICK s, n : s = writer[q].subs /\ n = Len(abandoned[q])
    OBVIOUS
  <2>2. IsFiniteSet(s) /\ n \in Nat
    <3>1. s \subseteq Observer
      BY <1>3, <2>1 DEF Writer
    <3>2. n \in Nat
      BY <1>3, <2>1
    <3> QED BY <3>1, <3>2, QueryAssumption, FS_Subset
  <2>3. Cardinality(s \cup {o}) \in {Cardinality(s), Cardinality(s) + 1} /\ Cardinality(s) \in Nat
    BY <2>2, FS_AddElement, FS_CardinalityType
  <2>4. Cardinality(s) + n < MaxObservers /\ MaxObservers \in Nat
    BY <2>1, QueryAssumption DEF Subscribes, Registers
  <2>5. Cardinality(writer'[q].subs) + Len(abandoned'[q]) <= MaxObservers
    <3>1. Cardinality(s \cup {o}) + n <= MaxObservers
      BY <2>2, <2>3, <2>4
    <3> QED BY <1>2, <1>6, <1>7, <2>1, <3>1
  <2> QED BY <1>1, <1>2, <1>7, <2>5, LimitAt
<1>11. Down' /\ Swept'
  <2>1. \A p \in Query : writer'[p].pump = writer[p].pump
    BY <1>6, <1>7
  <2>2. Down'
    BY <1>1, <1>2, <2>1 DEF Down
  <2>3. Swept'
    BY <1>1, <1>2 DEF Swept
  <2> QED BY <2>2, <2>3
<1>12. ASSUME NEW p \in Observer PROVE Following(p)'
  <2>1. Following(p)
    BY DEF IInv
  <2>2. CASE p = o
    BY <1>6, <1>7, <1>8, <2>2 DEF Following
  <2>3. CASE p # o
    <3>1. obs'[p] = obs[p]
      BY <1>8, <2>3
    <3>2. \A r \in Query : p \in writer[r].subs => p \in writer'[r].subs
      BY <1>6, <1>7
    <3>3. obs[p].pc \in Active => obs[p].query \in Query
      BY <2>1 DEF Following, Active
    <3> QED BY <2>1, <3>1, <3>2, <3>3 DEF Following
  <2> QED BY <2>2, <2>3
<1>13. PumpAgrees(q)'
  BY <1>1, <1>2, <1>4, <1>6, <1>7 DEF PumpAgrees, Window
<1>14. Kept(q)'
  BY <1>1, <1>2, <1>6, <1>7 DEF Kept, Window
<1>15. \A p \in Query : p # q => SameFor(p)
  BY <1>2, <1>7 DEF SameFor
<1> QED BY <1>2, <1>9, <1>10, <1>11, <1>12, <1>13, <1>14, <1>15, OneTurn

LEMMA AttachWriterKeeps ==
    ASSUME IInv, NEW o \in Observer, AttachWriter(o)
    PROVE  IInv'
PROOF
<1>1. Types /\ Following(o)
  BY DEF IInv
<1>2. PICK q, from, w : q = obs[o].query /\ from = obs[o].at /\ w = writer[q]
  OBVIOUS
<1>3. obs[o].pc = "found" /\ obs[o] \in Call
  BY <1>1 DEF AttachWriter, Types
<1>4. q \in Query /\ from \in Nat
  <2>1. q \in Query
    BY <1>1, <1>2, <1>3 DEF Following
  <2> QED BY <1>2, <1>3, <2>1 DEF Call
<1>5. w \in Writer /\ w.next \in Nat /\ w.earliest \in Nat /\ w.state \in States
  <2>1. w \in Writer
    BY <1>1, <1>2, <1>4 DEF Types
  <2> QED BY <2>1 DEF Writer
<1>6. /\ obs' = [obs EXCEPT ![o] =
              IF from < w.earliest THEN Ended(o, "pruned")
              ELSE IF Registers(o, q) \/ w.finished \/ from > w.next
                   THEN Replaying(obs[o], from, w.next, w.state, IF w.finished THEN "none" ELSE "open")
              ELSE Ended(o, "limit")]
      /\ writer' = IF Registers(o, q) THEN [writer EXCEPT ![q].subs = @ \cup {o}] ELSE writer
      /\ abandoned' = abandoned
  <2>1. /\ obs' = [obs EXCEPT ![o] =
              IF from < w.earliest THEN Ended(o, "pruned")
              ELSE IF Registers(o, q) \/ w.finished \/ from > w.next
                   THEN Replaying(@, from, w.next, w.state, IF w.finished THEN "none" ELSE "open")
              ELSE Ended(o, "limit")]
        /\ writer' = IF Registers(o, q) THEN [writer EXCEPT ![q].subs = @ \cup {o}] ELSE writer
        /\ abandoned' = abandoned
    BY <1>2, Zenon DEF AttachWriter
  <2> QED BY <2>1
<1>7. Rest
  BY DEF AttachWriter, Serving, Rest
<1>8. CASE Registers(o, q)
  <2>1. ~w.finished /\ w.earliest <= from
    BY <1>2, <1>8 DEF Registers
  <2>2. PICK c : c = Replaying(obs[o], from, w.next, w.state, "open")
    OBVIOUS
  <2>3. c \in Call /\ c.query = q
    <3>1. Replay(c, obs[o], from, w.next, w.state, "open")
      BY <1>3, <1>4, <1>5, <2>2, ReplayingIs
    <3> QED BY <1>2, <3>1 DEF Replay
  <2>4. obs' = [obs EXCEPT ![o] = c]
    <3>1. ~(from < w.earliest)
      BY <1>4, <1>5, <2>1
    <3> QED BY <1>6, <1>8, <2>1, <2>2, <3>1
  <2>5. Subscribes(o, q)
    BY <1>6, <1>8 DEF Subscribes
  <2> QED BY <1>4, <1>6, <1>7, <1>8, <2>3, <2>4, <2>5, RegistersKeeps
<1>9. CASE ~Registers(o, q)
  <2>1. Stay
    BY <1>6, <1>9 DEF Stay
  <2>2. CASE from < w.earliest
    <3>1. PICK c : c = Ended(o, "pruned")
      OBVIOUS
    <3>2. c \in Call /\ c.pc = "ended" /\ c.query = q
      BY <1>1, <1>2, <3>1, EndedIs
    <3>3. obs' = [obs EXCEPT ![o] = c]
      BY <1>6, <2>2, <3>1
    <3>4. Tied(c, o)
      BY <1>4, <3>2 DEF Tied, Active
    <3> QED BY <1>7, <2>1, <3>2, <3>3, <3>4, CallKeeps
  <2>3. CASE ~(from < w.earliest) /\ (w.finished \/ from > w.next)
    <3>1. PICK sub \in {"none", "open"} : sub = IF w.finished THEN "none" ELSE "open"
      OBVIOUS
    <3>2. PICK c : c = Replaying(obs[o], from, w.next, w.state, sub)
      OBVIOUS
    <3>3. c \in Call /\ c.query = q /\ (c.pc = "ended" \/ c.sub = "none")
      <4>1. Replay(c, obs[o], from, w.next, w.state, sub)
        BY <1>3, <1>4, <1>5, <3>1, <3>2, ReplayingIs
      <4>2. w.finished => sub = "none"
        BY <3>1
      <4> QED BY <1>2, <1>4, <1>5, <2>3, <4>1, <4>2 DEF Replay
    <3>4. obs' = [obs EXCEPT ![o] = c]
      BY <1>6, <2>3, <3>1, <3>2
    <3>5. Tied(c, o)
      BY <1>4, <3>3 DEF Tied, Active
    <3> QED BY <1>7, <2>1, <3>3, <3>4, <3>5, CallKeeps
  <2>4. CASE ~(from < w.earliest) /\ ~(w.finished \/ from > w.next)
    <3>1. PICK c : c = Ended(o, "limit")
      OBVIOUS
    <3>2. c \in Call /\ c.pc = "ended" /\ c.query = q
      BY <1>1, <1>2, <3>1, EndedIs
    <3>3. obs' = [obs EXCEPT ![o] = c]
      BY <1>6, <1>9, <2>4, <3>1
    <3>4. Tied(c, o)
      BY <1>4, <3>2 DEF Tied, Active
    <3> QED BY <1>7, <2>1, <3>2, <3>3, <3>4, CallKeeps
  <2> QED BY <2>2, <2>3, <2>4
<1> QED BY <1>8, <1>9

(* The larger and the smaller of two numbers *)
LEMMA PairMax ==
    ASSUME NEW a \in Nat, NEW b \in Nat
    PROVE  /\ Max({a, b}) \in Nat /\ Max({a, b}) >= a /\ Max({a, b}) >= b /\ Max({a, b}) \in {a, b}
PROOF
<1>1. PICK m \in {a, b} : m >= a /\ m >= b
  OBVIOUS
<1>2. PICK n : n = Max({a, b})
  OBVIOUS
<1>3. n = CHOOSE x \in {a, b} : \A y \in {a, b} : x >= y
  BY <1>2 DEF Max
<1>4. n \in {a, b} /\ \A y \in {a, b} : n >= y
  <2>1. \A y \in {a, b} : m >= y
    BY <1>1
  <2> QED BY <1>1, <1>3, <2>1
<1> QED BY <1>2, <1>4

LEMMA PairMin ==
    ASSUME NEW a \in Nat, NEW b \in Nat
    PROVE  /\ Min({a, b}) \in Nat /\ Min({a, b}) <= a /\ Min({a, b}) <= b /\ Min({a, b}) \in {a, b}
PROOF
<1>1. PICK m \in {a, b} : m <= a /\ m <= b
  OBVIOUS
<1>2. PICK n : n = Min({a, b})
  OBVIOUS
<1>3. n = CHOOSE x \in {a, b} : \A y \in {a, b} : x <= y
  BY <1>2 DEF Min
<1>4. n \in {a, b} /\ \A y \in {a, b} : n <= y
  <2>1. \A y \in {a, b} : m <= y
    BY <1>1
  <2> QED BY <1>1, <1>3, <2>1
<1> QED BY <1>2, <1>4

(* A call that ends leaves its subscription behind. *)
LEMMA EndingKeeps ==
    ASSUME IInv, NEW o \in Observer,
           NEW how \in {"none", "sequence", "pruned", "limit", "notfound", "internal", "settled",
                        "error", "lag", "shutdown"},
           obs' = [obs EXCEPT ![o] = Ended(o, how)], Rest, obs[o].pc \in Active, Leave(o) \/ Stay
    PROVE  IInv'
PROOF
<1>1. Types /\ Following(o)
  BY DEF IInv
<1>2. PICK c : c = Ended(o, how)
  OBVIOUS
<1>3. c \in Call /\ c.pc = "ended" /\ c.query = obs[o].query
  BY <1>1, <1>2, EndedIs
<1>4. obs' = [obs EXCEPT ![o] = c]
  BY <1>2
<1>5. c.query \in Query /\ c.pc \notin Active
  BY <1>1, <1>3 DEF Following, Active
<1>6. Tied(c, o)
  BY <1>5 DEF Tied
<1> QED BY <1>3, <1>4, <1>5, <1>6, LeaveKeeps, CallKeeps

(* A call that goes on keeps what it is about. *)
LEMMA GoesOn ==
    ASSUME IInv, NEW o \in Observer, NEW c \in Call, obs' = [obs EXCEPT ![o] = c], Rest, Stay,
           obs[o].pc \in Active, c.query = obs[o].query, c.sub = obs[o].sub
    PROVE  IInv'
PROOF
<1>1. Following(o)
  BY DEF IInv
<1>2. Tied(c, o)
  BY <1>1 DEF Following, Tied, Active
<1> QED BY <1>2, CallKeeps

LEMMA ListSegmentsKeeps ==
    ASSUME IInv, NEW o \in Observer, ListSegments(o)
    PROVE  IInv'
PROOF
<1>1. Types /\ Following(o)
  BY DEF IInv
<1>2. PICK q : q = obs[o].query
  OBVIOUS
<1>3. obs[o].pc = "listing" /\ obs[o].pc \in Active /\ obs[o] \in Call /\ q \in Query
  <2>1. obs[o].pc = "listing" /\ obs[o] \in Call
    BY <1>1 DEF ListSegments, Types
  <2> QED BY <1>1, <1>2, <2>1 DEF Following, Active
<1>4. Rest
  BY DEF ListSegments, Serving, Rest
<1>5. CASE disk[q] = NoRecord
  <2>1. PICK how \in {"notfound", "internal"} : Leave(o) /\ obs' = [obs EXCEPT ![o] = Ended(o, how)]
    BY <1>2, <1>5 DEF ListSegments
  <2> QED BY <1>3, <1>4, <2>1, EndingKeeps
<1>6. CASE disk[q] # NoRecord
  <2>1. PICK list : list = [i \in DOMAIN disk[q].segs |-> disk[q].segs[i].base]
    OBVIOUS
  <2>2. list \in Seq(Nat)
    <3>1. disk[q].segs \in Segments
      <4>1. disk[q] \in Record
        BY <1>1, <1>3 DEF Types
      <4> QED BY <4>1 DEF Record
    <3>2. PICK n \in Nat : DOMAIN disk[q].segs = 1..n /\ \A i \in 1..n : disk[q].segs[i].base \in Nat
      BY <3>1, SegmentsAre
    <3>3. list \in [1..n -> Nat]
      BY <2>1, <3>2
    <3> QED BY <3>2, <3>3, SeqDef
  <2>3. PICK c : c = [obs[o] EXCEPT !.pc = "listed", !.list = list]
    OBVIOUS
  <2>4. c \in Call /\ c.query = obs[o].query /\ c.sub = obs[o].sub
    BY <1>3, <2>2, <2>3 DEF Call, Active
  <2>5. Stay /\ obs' = [obs EXCEPT ![o].pc = "listed", ![o].list = list]
    BY <1>2, <1>6, <2>1 DEF ListSegments
  <2>6. obs' = [obs EXCEPT ![o] = c]
    BY <2>3, <2>5
  <2> QED BY <1>3, <1>4, <2>4, <2>5, <2>6, GoesOn
<1> QED BY <1>5, <1>6

LEMMA StatSegmentsKeeps ==
    ASSUME IInv, NEW o \in Observer, StatSegments(o)
    PROVE  IInv'
PROOF
<1>1. Types
  BY DEF IInv
<1>2. obs[o].pc \in Active /\ obs[o] \in Call
  BY <1>1 DEF StatSegments, Types, Active
<1>3. Rest
  BY DEF StatSegments, Serving, Rest
<1>4. CASE Vanished(o)
  <2>1. Leave(o) /\ obs' = [obs EXCEPT ![o] = Ended(o, "internal")]
    BY <1>4 DEF StatSegments
  <2> QED BY <1>2, <1>3, <2>1, EndingKeeps
<1>5. CASE ~Vanished(o)
  <2>1. Stay /\ obs' = [obs EXCEPT ![o].pc = "reading"]
    BY <1>5 DEF StatSegments
  <2>2. PICK c : c = [obs[o] EXCEPT !.pc = "reading"]
    OBVIOUS
  <2>3. c \in Call /\ c.query = obs[o].query /\ c.sub = obs[o].sub
    BY <1>2, <2>2 DEF Call, Active
  <2>4. obs' = [obs EXCEPT ![o] = c]
    BY <2>1, <2>2
  <2> QED BY <1>2, <1>3, <2>1, <2>3, <2>4, GoesOn
<1> QED BY <1>4, <1>5

LEMMA ReadSegmentKeeps ==
    ASSUME IInv, NEW o \in Observer, ReadSegment(o)
    PROVE  IInv'
PROOF
<1>1. Types /\ Following(o)
  BY DEF IInv
<1>2. PICK q, at, list : q = obs[o].query /\ at = obs[o].at /\ list = obs[o].list
  OBVIOUS
<1>3. obs[o].pc = "reading" /\ obs[o].pc \in Active /\ obs[o] \in Call /\ q \in Query
  <2>1. obs[o].pc = "reading" /\ obs[o] \in Call
    BY <1>1 DEF ReadSegment, Types
  <2> QED BY <1>1, <1>2, <2>1 DEF Following, Active
<1>4. at \in Nat /\ list \in Seq(Nat) /\ obs[o].to \in Nat
  BY <1>2, <1>3 DEF Call
<1>5. Rest
  BY DEF ReadSegment, Serving, Rest
<1>6. CASE at >= obs[o].to \/ list = <<>>
  <2>1. Stay /\ obs' = [obs EXCEPT ![o].pc = "replayed", ![o].list = <<>>]
    BY <1>2, <1>6 DEF ReadSegment
  <2>2. PICK c : c = [obs[o] EXCEPT !.pc = "replayed", !.list = <<>>]
    OBVIOUS
  <2>3. c \in Call /\ c.query = obs[o].query /\ c.sub = obs[o].sub
    <3>1. <<>> \in Seq(Nat)
      BY EmptySeq, Zenon
    <3> QED BY <1>3, <2>2, <3>1 DEF Call, Active
  <2>4. obs' = [obs EXCEPT ![o] = c]
    BY <2>1, <2>2
  <2> QED BY <1>3, <1>5, <2>1, <2>3, <2>4, GoesOn
<1>7. CASE ~(at >= obs[o].to \/ list = <<>>) /\ (Head(list) > at \/ Opened(q, Head(list)) = {})
  <2>1. Leave(o) /\ obs' = [obs EXCEPT ![o] = Ended(o, "pruned")]
    BY <1>2, <1>7 DEF ReadSegment
  <2> QED BY <1>3, <1>5, <2>1, EndingKeeps
<1>8. CASE ~(at >= obs[o].to \/ list = <<>>) /\ ~(Head(list) > at \/ Opened(q, Head(list)) = {})
  <2>1. Stay /\ \E i \in Opened(q, Head(list)) :
            obs' = [obs EXCEPT ![o] = [obs[o] EXCEPT !.list = Tail(obs[o].list),
                        !.at = Max({at, Min({Head(list) + disk[q].segs[i].count, obs[o].to})})]]
    BY <1>2, <1>8 DEF ReadSegment
  <2>2. PICK i \in Opened(q, Head(list)) :
            obs' = [obs EXCEPT ![o] = [obs[o] EXCEPT !.list = Tail(obs[o].list),
                        !.at = Max({at, Min({Head(list) + disk[q].segs[i].count, obs[o].to})})]]
    BY <2>1
  <2>3. PICK to, tail : to = Max({at, Min({Head(list) + disk[q].segs[i].count, obs[o].to})})
                        /\ tail = Tail(list)
    OBVIOUS
  <2>4. tail \in Seq(Nat) /\ Head(list) \in Nat
    BY <1>4, <1>8, <2>3
  <2>5. to \in Nat
    <3>1. disk[q].segs[i].count \in Nat
      <4>1. disk[q].segs \in Segments
        <5>1. disk[q] \in Record
          BY <1>1, <1>3 DEF Types
        <5> QED BY <5>1 DEF Record
      <4> QED BY <4>1, SegmentsAre DEF Opened
    <3>2. PICK h : h = Head(list) + disk[q].segs[i].count
      OBVIOUS
    <3>3. h \in Nat
      BY <2>4, <3>1, <3>2
    <3>4. PICK e : e = Min({h, obs[o].to})
      OBVIOUS
    <3>5. e \in Nat
      BY <1>4, <3>3, <3>4, PairMin, Zenon
    <3>6. to = Max({at, e})
      BY <2>3, <3>2, <3>4, Zenon
    <3> QED BY <1>4, <3>5, <3>6, PairMax, Zenon
  <2>6. PICK c : c = [obs[o] EXCEPT !.list = tail, !.at = to]
    OBVIOUS
  <2>7. c \in Call /\ c.query = obs[o].query /\ c.sub = obs[o].sub
    BY <1>3, <2>4, <2>5, <2>6 DEF Call
  <2>8. obs' = [obs EXCEPT ![o] = c]
    BY <1>2, <2>2, <2>3, <2>6
  <2> QED BY <1>3, <1>5, <2>1, <2>7, <2>8, GoesOn
<1> QED BY <1>6, <1>7, <1>8

LEMMA ReplayedKeeps ==
    ASSUME IInv, NEW o \in Observer, Replayed(o)
    PROVE  IInv'
PROOF
<1>1. Types
  BY DEF IInv
<1>2. obs[o].pc = "replayed" /\ obs[o].pc \in Active /\ obs[o] \in Call
  BY <1>1 DEF Replayed, Types, Active
<1>3. Rest /\ Stay
  BY DEF Replayed, Serving, Rest
<1>4. CASE obs[o].sub = "none"
  <2>1. obs' = [obs EXCEPT ![o] = Ended(o, EndOfTurn(obs[o].snap))]
    BY <1>4 DEF Replayed
  <2>2. PICK how \in {"settled", "error"} : how = EndOfTurn(obs[o].snap)
    BY DEF EndOfTurn
  <2>3. obs' = [obs EXCEPT ![o] = Ended(o, how)]
    BY <2>1, <2>2
  <2> QED BY <1>2, <1>3, <2>3, EndingKeeps
<1>5. CASE obs[o].sub # "none"
  <2>1. PICK whole \in BOOLEAN : whole = (obs[o].at = obs[o].to)
    OBVIOUS
  <2>2. PICK c : c = [obs[o] EXCEPT !.pc = "live", !.at = obs[o].to, !.whole = whole]
    OBVIOUS
  <2>3. c \in Call /\ c.query = obs[o].query /\ c.sub = obs[o].sub
    <3>1. obs[o].to \in Nat
      BY <1>2 DEF Call
    <3> QED BY <1>2, <2>2, <3>1 DEF Call, Active
  <2>4. obs' = [obs EXCEPT ![o] = c]
    BY <1>5, <2>1, <2>2 DEF Replayed
  <2> QED BY <1>2, <1>3, <2>3, <2>4, GoesOn
<1> QED BY <1>4, <1>5

LEMMA ReceiveFrameKeeps ==
    ASSUME IInv, NEW o \in Observer, ReceiveFrame(o)
    PROVE  IInv'
PROOF
<1>1. Types
  BY DEF IInv
<1>2. obs[o].pc = "live" /\ obs[o].pc \in Active /\ obs[o] \in Call /\ obs[o].buf # <<>>
  BY <1>1 DEF ReceiveFrame, Types, Active
<1>3. Rest /\ Stay
  BY DEF ReceiveFrame, Serving, Rest
<1>4. PICK at, tail : at = Head(obs[o].buf) + 1 /\ tail = Tail(obs[o].buf)
  OBVIOUS
<1>5. at \in Nat /\ tail \in Seq(Nat)
  <2>1. obs[o].buf \in Seq(Nat)
    BY <1>2 DEF Call
  <2> QED BY <1>2, <1>4, <2>1
<1>6. PICK c : c = [obs[o] EXCEPT !.whole = obs[o].whole /\ Head(obs[o].buf) = obs[o].at,
                                  !.at = at, !.buf = tail]
  OBVIOUS
<1>7. c \in Call /\ c.query = obs[o].query /\ c.sub = obs[o].sub
  BY <1>2, <1>5, <1>6 DEF Call
<1>8. obs' = [obs EXCEPT ![o] = c]
  <2>1. obs' = [obs EXCEPT ![o] = [obs[o] EXCEPT
                    !.whole = obs[o].whole /\ Head(obs[o].buf) = obs[o].at,
                    !.at = Head(obs[o].buf) + 1, !.buf = Tail(obs[o].buf)]]
    BY DEF ReceiveFrame
  <2> QED BY <1>4, <1>6, <2>1, Zenon
<1> QED BY <1>2, <1>3, <1>7, <1>8, GoesOn

LEMMA SubscriptionEndsKeeps ==
    ASSUME IInv, NEW o \in Observer, SubscriptionEnds(o)
    PROVE  IInv'
PROOF
<1>1. obs[o].pc \in Active
  BY DEF SubscriptionEnds, Active
<1>2. Rest /\ Stay
  BY DEF SubscriptionEnds, Serving, Rest
<1>3. \E how \in {"lag", "settled", "error", "notfound"} : obs' = [obs EXCEPT ![o] = Ended(o, how)]
  <2>1. PICK state : state = IF obs[o].query \in live THEN writer[obs[o].query].state
                             ELSE disk[obs[o].query].state
    OBVIOUS
  <2>2. PICK how : how = IF obs[o].lags THEN "lag"
                         ELSE IF state \in Terminal THEN EndOfTurn(state) ELSE "notfound"
    OBVIOUS
  <2>3. how \in {"lag", "settled", "error", "notfound"}
    BY <2>2 DEF EndOfTurn
  <2>4. obs' = [obs EXCEPT ![o] = Ended(o, how)]
    BY <2>1, <2>2 DEF SubscriptionEnds
  <2> QED BY <2>3, <2>4
<1> QED BY <1>1, <1>2, <1>3, EndingKeeps

LEMMA InterruptedKeeps ==
    ASSUME IInv, NEW o \in Observer, Interrupted(o)
    PROVE  IInv'
PROOF
<1>1. Rest /\ Leave(o)
  BY DEF Interrupted, Serving, Rest
<1>2. CASE obs[o].pc = "live" /\ obs' = [obs EXCEPT ![o] = Ended(o, "shutdown")]
  BY <1>1, <1>2, EndingKeeps DEF Active
<1>3. CASE obs[o].pc \in {"listing", "listed", "reading", "replayed", "live"} /\ obs' = [obs EXCEPT ![o] = Idle]
  <2>1. Idle \in Call
    BY EmptySeq, Zenon DEF Idle, Call
  <2>2. Idle.pc = "idle"
    BY DEF Idle
  <2> QED BY <1>1, <1>3, <2>1, <2>2, LeaveKeeps DEF Active
<1> QED BY <1>2, <1>3 DEF Interrupted

LEMMA ObserveAgainKeeps ==
    ASSUME IInv, NEW o \in Observer, ObserveAgain(o)
    PROVE  IInv'
PROOF
<1>1. Rest /\ Stay /\ obs' = [obs EXCEPT ![o] = Idle]
  BY DEF ObserveAgain, Serving, Rest
<1>2. Idle \in Call
  BY EmptySeq, Zenon DEF Idle, Call
<1>3. Tied(Idle, o)
  BY DEF Tied, Idle, Active
<1> QED BY <1>1, <1>2, <1>3, CallKeeps

-----------------------------------------------------------------------------
(* Retention *)

(* The clock and the sweep *)
LEMMA AgeKeeps ==
    ASSUME IInv, NEW q \in Query, Age(q)
    PROVE  IInv'
PROOF
<1>1. Types /\ Limit /\ Down /\ Swept
  BY DEF IInv
<1>2. /\ disk' = disk /\ live' = live /\ settled' = settled /\ totalSet' = totalSet
      /\ gc' = gc /\ phase' = phase /\ givenUp' = givenUp /\ writer' = writer /\ abandoned' = abandoned
      /\ obs' = obs /\ aged' = aged \cup {q}
  BY DEF Age
<1>3. Types' /\ Limit' /\ Down' /\ Swept'
  <2>1. Types'
    BY <1>1, <1>2 DEF Types
  <2> QED BY <1>1, <1>2, <2>1 DEF Limit, Down, Swept
<1>4. ASSUME NEW p \in Query PROVE PumpAgrees(p)' /\ Kept(p)'
  <2>1. PumpAgrees(p) /\ Kept(p)
    BY DEF IInv
  <2> QED BY <1>2, <2>1 DEF PumpAgrees, Kept, Window
<1>5. ASSUME NEW o \in Observer PROVE Following(o)'
  <2>1. Following(o)
    BY DEF IInv
  <2> QED BY <1>2, <2>1 DEF Following
<1> QED BY <1>3, <1>4, <1>5 DEF IInv

LEMMA RunGCKeeps ==
    ASSUME IInv, RunGC
    PROVE  IInv'
PROOF
<1>1. Types /\ Limit /\ Down /\ Swept
  BY DEF IInv
<1>2. /\ disk' = disk /\ live' = live /\ settled' = settled /\ totalSet' = totalSet
      /\ aged' = aged /\ phase' = phase /\ givenUp' = givenUp /\ writer' = writer
      /\ abandoned' = abandoned /\ obs' = obs /\ phase # "down"
  BY DEF RunGC
<1>3. gc' \in Seq(Range(settled))
  <2> DEFINE expired == SettledIn(aged)
             rest == SettledIn(Query \ aged)
             fits(n) == totalSet - BytesOf(expired) - BytesOf(SubSeq(rest, 1, n)) <= MaxTotalBytes
             T == {n \in 0..Len(rest) : fits(n) \/ n = Len(rest)}
  <2>1. settled \in Seq(Query)
    BY <1>1 DEF Types
  <2>2. expired \in Seq(Range(settled)) /\ rest \in Seq(Range(settled))
    BY <2>1, ListSettled
  <2> HIDE DEF expired, rest, fits
  <2>3. Len(rest) \in Nat
    BY <2>2
  <2>4. Len(rest) \in T /\ T \subseteq Nat
    BY <2>3
  <2>5. PICK m \in T : \A n \in T : m <= n
    BY <2>4, Least
  <2>6. ASSUME NEW n \in 0..(m - 1) PROVE ~fits(n)
    <3>1. n \in 0..Len(rest) /\ ~(m <= n)
      BY <2>3, <2>5
    <3>2. n \notin T
      BY <2>5, <3>1
    <3> QED BY <3>1, <3>2
  <2>7. PICK k : k = CHOOSE n \in 0..Len(rest) :
                        (fits(n) \/ n = Len(rest)) /\ \A i \in 0..(n - 1) : ~fits(i)
    OBVIOUS
  <2>8. k \in 0..Len(rest)
    <3>1. m \in 0..Len(rest) /\ (fits(m) \/ m = Len(rest)) /\ \A i \in 0..(m - 1) : ~fits(i)
      BY <2>5, <2>6
    <3> QED BY <2>7, <3>1, Zenon
  <2>9. PICK first : first = SubSeq(rest, 1, k)
    OBVIOUS
  <2>10. first \in Seq(Range(settled))
    <3>1. k \in Int /\ \A i \in 1..k : rest[i] \in Range(settled)
      BY <2>2, <2>3, <2>8
    <3>2. SubSeq(rest, 1, k) \in Seq(Range(settled))
      BY <3>1, SubSeqProperties
    <3> QED BY <2>9, <3>2
  <2>11. gc' = expired \o first
    BY <2>7, <2>9, Zenon DEF RunGC, expired, rest, fits
  <2> QED BY <2>2, <2>10, <2>11, ConcatProperties
<1>4. gc' \in Seq(Query) /\ \A i \in DOMAIN gc' : gc'[i] \in Range(settled)
  <2>1. Range(settled) \subseteq Query
    BY <1>1 DEF Types, Range
  <2>2. \A i \in DOMAIN gc' : gc'[i] \in Range(settled)
    BY <1>3
  <2> QED BY <1>3, <2>1, <2>2
<1>5. Types' /\ Limit' /\ Down' /\ Swept'
  <2>1. Types'
    BY <1>1, <1>2, <1>4 DEF Types
  <2>2. Limit' /\ Down'
    BY <1>1, <1>2 DEF Limit, Down
  <2>3. Swept'
    BY <1>2, <1>4 DEF Swept
  <2> QED BY <2>1, <2>2, <2>3
<1>6. ASSUME NEW p \in Query PROVE PumpAgrees(p)' /\ Kept(p)'
  <2>1. PumpAgrees(p) /\ Kept(p)
    BY DEF IInv
  <2> QED BY <1>2, <2>1 DEF PumpAgrees, Kept, Window
<1>7. ASSUME NEW o \in Observer PROVE Following(o)'
  <2>1. Following(o)
    BY DEF IInv
  <2> QED BY <1>2, <2>1 DEF Following
<1> QED BY <1>5, <1>6, <1>7 DEF IInv

LEMMA ForgetRecordKeeps ==
    ASSUME IInv, NEW q \in Query, ForgetRecord(q)
    PROVE  IInv'
PROOF
<1>1. Types /\ PumpAgrees(q) /\ Down /\ Swept
  BY DEF IInv
<1>2. /\ disk' = disk /\ live' = live /\ totalSet' = totalSet /\ aged' = aged /\ gc' = gc
      /\ phase' = phase /\ writer' = writer /\ abandoned' = abandoned /\ obs' = obs
      /\ givenUp' = givenUp \cup {q} /\ gc # <<>>
  BY DEF ForgetRecord
<1>3. PICK i \in DOMAIN settled : settled[i] = q /\ settled' = RemoveAt(settled, i)
  BY DEF ForgetRecord
<1>4. settled' \in Seq(Query) /\ IsInjective(settled') /\ Range(settled') = Range(settled) \ {q}
  <2>1. settled \in Seq(Query) /\ IsInjective(settled)
    BY <1>1 DEF Types
  <2>2. RemoveAt(settled, i) \in Seq(Query) /\ Table(RemoveAt(settled, i), Range(settled) \ {settled[i]})
    BY <2>1, Leaves
  <2> QED BY <1>3, <2>2 DEF Table
<1>5. q \in Range(settled)
  BY <1>3 DEF Range
<1>6. Types'
  BY <1>1, <1>2, <1>4 DEF Types
<1>7. Quiet
  BY <1>2 DEF Quiet
<1>8. Down' /\ Swept'
  <2>1. phase # "down"
    BY <1>1, <1>2 DEF Down
  <2>2. Down'
    BY <1>2, <2>1 DEF Down
  <2>3. Swept'
    BY <1>1, <1>2, <1>4 DEF Swept
  <2> QED BY <2>2, <2>3
<1>9. PumpAgrees(q)'
  <2>1. writer[q].pump \notin {"none", "beginning", "running", "ending"} /\ q \notin live
    BY <1>1, <1>5 DEF PumpAgrees
  <2> QED BY <1>1, <1>2, <2>1 DEF PumpAgrees
<1>10. Kept(q)'
  BY <1>2 DEF Kept
<1>11. \A p \in Query : p # q => SameFor(p)
  BY <1>2, <1>4 DEF SameFor
<1> QED BY <1>2, <1>6, <1>7, <1>8, <1>9, <1>10, <1>11, QuietKeeps, OneTurn

LEMMA RemoveFileKeeps ==
    ASSUME IInv, NEW q \in Query, RemoveFile(q)
    PROVE  IInv'
PROOF
<1>1. Types /\ PumpAgrees(q) /\ Down /\ Swept
  BY DEF IInv
<1>2. /\ live' = live /\ settled' = settled /\ totalSet' = totalSet /\ aged' = aged
      /\ phase' = phase /\ writer' = writer /\ abandoned' = abandoned /\ obs' = obs
      /\ givenUp' = givenUp /\ gc # <<>> /\ q = Head(gc) /\ q \notin Range(settled)
  BY DEF RemoveFile
<1>3. disk \in [Query -> Record] /\ disk[q] \in Record /\ disk[q].segs \in Segments /\ gc \in Seq(Query)
  <2>1. disk \in [Query -> Record] /\ disk[q] \in Record /\ gc \in Seq(Query)
    BY <1>1 DEF Types
  <2> QED BY <2>1 DEF Record
<1>4. q \in givenUp
  <2>1. 1 \in DOMAIN gc /\ q = gc[1]
    BY <1>2, <1>3
  <2> QED BY <1>1, <1>2, <2>1 DEF Swept
<1>5. writer[q].pump \notin {"none", "beginning", "running", "ending"} /\ q \notin live
  BY <1>1, <1>4 DEF PumpAgrees
<1>6. gc' = gc \/ gc' = Tail(gc)
  BY DEF RemoveFile
<1>7. gc' \in Seq(Query) /\ \A i \in DOMAIN gc' : \E j \in DOMAIN gc : gc'[i] = gc[j]
  BY <1>2, <1>3, <1>6
<1>8. PICK d \in Record : disk' = [disk EXCEPT ![q] = d]
  <2>1. CASE \E i \in DOMAIN disk[q].segs : disk' = [disk EXCEPT ![q].segs = RemoveAt(@, i)]
    <3>1. PICK i \in DOMAIN disk[q].segs : disk' = [disk EXCEPT ![q].segs = RemoveAt(disk[q].segs, i)]
      BY <2>1
    <3>2. PICK segs : segs = RemoveAt(disk[q].segs, i)
      OBVIOUS
    <3>3. segs \in Segments
      <4>1. PICK S : S = [base : Nat, count : Nat]
        OBVIOUS
      <4>2. disk[q].segs \in Seq(S)
        BY <1>3, <4>1 DEF Segments
      <4>3. PICK t \in Seq(S) : Left(t, disk[q].segs, i)
        BY <4>2, Removed, Zenon
      <4> QED BY <3>2, <4>1, <4>3 DEF Left, Segments
    <3>4. PICK d : d = [disk[q] EXCEPT !.segs = segs]
      OBVIOUS
    <3>5. d \in Record
      BY <1>3, <3>3, <3>4 DEF Record
    <3>6. disk' = [disk EXCEPT ![q] = d]
      BY <3>1, <3>2, <3>4
    <3> QED BY <3>5, <3>6
  <2>2. CASE disk' = [disk EXCEPT ![q].state = "unreadable"]
    <3>1. PICK d : d = [disk[q] EXCEPT !.state = "unreadable"]
      OBVIOUS
    <3>2. d \in Record
      BY <1>3, <3>1 DEF Record
    <3>3. disk' = [disk EXCEPT ![q] = d]
      BY <2>2, <3>1
    <3> QED BY <3>2, <3>3
  <2>3. CASE disk' = [disk EXCEPT ![q] = NoRecord]
    <3>1. NoRecord \in Record
      <4>1. <<>> \in Segments
        BY DEF Segments
      <4> QED BY <4>1 DEF NoRecord, Record, Terminal
    <3> QED BY <2>3, <3>1
  <2>4. CASE disk' = disk
    <3>1. disk' = [disk EXCEPT ![q] = disk[q]]
      BY <1>3, <2>4
    <3> QED BY <1>3, <3>1
  <2> QED BY <2>1, <2>2, <2>3, <2>4 DEF RemoveFile
<1>9. /\ disk' \in [Query -> Record] /\ \A p \in Query : p # q => disk'[p] = disk[p]
  BY <1>3, <1>8, PutAt
<1>10. Types'
  BY <1>1, <1>2, <1>7, <1>9 DEF Types
<1>11. Quiet
  BY <1>2 DEF Quiet
<1>12. Down' /\ Swept'
  <2>1. phase # "down"
    BY <1>1, <1>2 DEF Down
  <2>2. Down'
    BY <1>2, <2>1 DEF Down
  <2>3. Swept'
    BY <1>1, <1>2, <1>7 DEF Swept
  <2> QED BY <2>2, <2>3
<1>13. PumpAgrees(q)'
  BY <1>1, <1>2, <1>5 DEF PumpAgrees
<1>14. Kept(q)'
  BY <1>2, <1>4 DEF Kept
<1>15. \A p \in Query : p # q => SameFor(p)
  BY <1>2, <1>9 DEF SameFor
<1> QED BY <1>2, <1>10, <1>11, <1>12, <1>13, <1>14, <1>15, QuietKeeps, OneTurn

-----------------------------------------------------------------------------
(* The controller's life *)

(* A shutdown or a crash, and the recovery after it *)
LEMMA StopKeeps ==
    ASSUME IInv, Stop
    PROVE  IInv'
PROOF
<1>1. Types /\ Limit /\ Down /\ Swept
  BY DEF IInv
<1>2. /\ disk' = disk /\ live' = live /\ settled' = settled /\ totalSet' = totalSet
      /\ gc' = gc /\ givenUp' = givenUp /\ writer' = writer /\ abandoned' = abandoned
      /\ obs' = obs /\ aged' = aged /\ phase = "serving" /\ phase' = "stopping"
  BY DEF Stop
<1>3. Types' /\ Limit' /\ Down' /\ Swept'
  <2>1. Types'
    BY <1>1, <1>2 DEF Types
  <2> QED BY <1>1, <1>2, <2>1 DEF Limit, Down, Swept
<1>4. ASSUME NEW p \in Query PROVE PumpAgrees(p)' /\ Kept(p)'
  <2>1. PumpAgrees(p) /\ Kept(p)
    BY DEF IInv
  <2> QED BY <1>2, <2>1 DEF PumpAgrees, Kept, Window
<1>5. ASSUME NEW o \in Observer PROVE Following(o)'
  <2>1. Following(o)
    BY DEF IInv
  <2> QED BY <1>2, <2>1 DEF Following
<1> QED BY <1>3, <1>4, <1>5 DEF IInv

LEMMA ExitKeeps ==
    ASSUME IInv, Exit
    PROVE  IInv'
PROOF
<1>1. Types
  BY DEF IInv
<1>2. disk \in [Query -> Record] /\ writer \in [Query -> Writer]
  BY <1>1 DEF Types
<1>3. /\ aged' = aged /\ givenUp' = givenUp /\ phase' = "down"
      /\ live' = {} /\ settled' = <<>> /\ totalSet' = 0 /\ gc' = <<>>
      /\ obs' = [o \in Observer |-> Idle] /\ abandoned' = [q \in Query |-> <<>>]
  BY DEF Exit
<1>4. PICK cut \in SUBSET {q \in live : ~writer[q].finished} :
            disk' = [q \in Query |-> IF q \in cut THEN [disk[q] EXCEPT !.torn = TRUE] ELSE disk[q]]
  BY DEF Exit
<1>5. ASSUME NEW q \in Query
      PROVE  /\ disk'[q] \in Record /\ disk'[q].state = disk[q].state /\ disk'[q].segs = disk[q].segs
             /\ disk'[q].earliest = disk[q].earliest /\ disk'[q].next = disk[q].next
             /\ q \notin live => disk'[q] = disk[q]
  <2>1. disk[q] \in Record
    BY <1>2
  <2>2. PICK d : d = [disk[q] EXCEPT !.torn = TRUE]
    OBVIOUS
  <2>3. /\ d \in Record /\ d.state = disk[q].state /\ d.segs = disk[q].segs
        /\ d.earliest = disk[q].earliest /\ d.next = disk[q].next
    BY <2>1, <2>2 DEF Record
  <2>4. disk'[q] = IF q \in cut THEN d ELSE disk[q]
    BY <1>4, <2>2
  <2> QED BY <2>1, <2>3, <2>4
<1>6. disk' \in [Query -> Record]
  <2>1. disk' = [q \in Query |-> disk'[q]]
    BY <1>4
  <2> QED BY <1>5, <2>1
<1>7. PICK w, v : w = NoWriter /\ v = [NoWriter EXCEPT !.pump = "done"]
  OBVIOUS
<1>8. /\ w \in Writer /\ v \in Writer /\ w.subs = {} /\ v.subs = {} /\ v.finished
      /\ w.pump = "none" /\ v.pump = "done"
  BY <1>7 DEF NoWriter, Writer, States
<1>9. writer' = [q \in Query |-> IF writer[q].pump = "none" THEN w ELSE v]
  BY <1>7 DEF Exit
<1>10. Types'
  <2>1. writer' \in [Query -> Writer]
    BY <1>8, <1>9
  <2>2. obs' \in [Observer -> Call]
    <3>1. Idle \in Call
      BY EmptySeq, Zenon DEF Idle, Call
    <3> QED BY <1>3, <3>1
  <2>3. abandoned' \in [Query -> Seq(Nat)]
    <3>1. <<>> \in Seq(Nat)
      BY EmptySeq, Zenon
    <3> QED BY <1>3, <3>1
  <2>4. settled' \in Seq(Query) /\ IsInjective(settled') /\ gc' \in Seq(Query)
    <3>1. <<>> \in Seq(Query) /\ IsInjective(<<>>)
      BY DEF IsInjective
    <3> QED BY <1>3, <3>1
  <2> QED BY <1>1, <1>3, <1>6, <2>1, <2>2, <2>3, <2>4 DEF Types
<1>11. Limit'
  <2> SUFFICES ASSUME NEW q \in Query PROVE Cardinality(writer'[q].subs) + Len(abandoned'[q]) <= MaxObservers
    BY DEF Limit
  <2>1. writer'[q].subs = {} /\ abandoned'[q] = <<>>
    BY <1>3, <1>8, <1>9
  <2>2. Cardinality({}) = 0 /\ Len(<<>>) = 0
    BY FS_EmptySet
  <2> QED BY <2>1, <2>2, QueryAssumption
<1>12. Down' /\ Swept'
  <2>1. \A q \in Query : writer'[q].pump \in {"none", "done"}
    BY <1>8, <1>9
  <2> QED BY <1>3, <2>1 DEF Down, Swept
<1>13. ASSUME NEW q \in Query PROVE PumpAgrees(q)' /\ Kept(q)'
  <2>1. PumpAgrees(q) /\ Kept(q)
    BY DEF IInv
  <2>2. Range(settled') = {}
    BY <1>3 DEF Range
  <2>3. CASE writer[q].pump = "none"
    <3>1. writer'[q] = NoWriter
      BY <1>7, <1>9, <2>3
    <3>2. disk'[q] = NoRecord /\ q \notin givenUp
      BY <1>5, <2>1, <2>3 DEF PumpAgrees
    <3>3. PumpAgrees(q)'
      BY <1>3, <1>7, <1>8, <2>2, <3>1, <3>2 DEF PumpAgrees
    <3>4. Kept(q)'
      BY <1>3, <1>5, <1>7, <1>8, <2>1, <3>1 DEF Kept, Window
    <3> QED BY <3>3, <3>4
  <2>4. CASE writer[q].pump # "none"
    <3>1. writer'[q].pump = "done" /\ writer'[q].finished /\ writer'[q].subs = {}
      BY <1>8, <1>9, <2>4
    <3>2. PumpAgrees(q)'
      BY <1>3, <2>2, <3>1 DEF PumpAgrees
    <3>3. q \notin givenUp => disk[q].state # "absent"
      <4>1. writer[q].pump \in {"beginning", "running", "ending", "done"}
        <5>1. writer[q] \in Writer
          BY <1>2
        <5> QED BY <2>4, <5>1 DEF Writer
      <4> QED BY <2>1, <4>1 DEF PumpAgrees, Kept, Terminal
    <3>4. Kept(q)'
      BY <1>3, <1>5, <2>1, <3>3 DEF Kept, Window
    <3> QED BY <3>2, <3>4
  <2> QED BY <2>3, <2>4
<1>14. ASSUME NEW o \in Observer PROVE Following(o)'
  <2>1. obs'[o] = Idle
    BY <1>3
  <2> QED BY <2>1 DEF Following, Idle, Active
<1> QED BY <1>10, <1>11, <1>12, <1>13, <1>14 DEF IInv

(* What recovery makes of a record *)
Restored(d, q) ==
    /\ d \in Record /\ d.segs = disk[q].segs
    /\ disk[q].state = "running" =>
            d.state = "lost" /\ d.earliest = StartOf(d.segs) /\ d.next = EndOf(d.segs)
    /\ disk[q].state # "running" =>
            d.state = disk[q].state /\ d.earliest = disk[q].earliest /\ d.next = disk[q].next
    /\ disk[q] = NoRecord => d = NoRecord
LEMMA RecoveredIs ==
    ASSUME NEW q \in Query, disk \in [Query -> Record]
    PROVE  Restored(Recovered(q), q)
PROOF
<1>1. PICK d : d = Recovered(q)
  OBVIOUS
<1>2. disk[q] \in Record
  OBVIOUS
<1>3. CASE disk[q].state = "running"
  <2>1. PICK now, start, end : now = Now /\ start = StartOf(disk[q].segs) /\ end = EndOf(disk[q].segs)
    OBVIOUS
  <2>2. now \in Nat
    <3>1. \A p \in Query : disk[p].since \in Nat
      BY DEF Record
    <3> QED BY <2>1, <3>1, NowIs
  <2>3. start \in Nat /\ end \in Nat
    <3>1. disk[q].segs \in Segments
      BY <1>2 DEF Record
    <3> QED BY <2>1, <3>1, Ends
  <2>4. d = [disk[q] EXCEPT !.state = "lost", !.torn = FALSE, !.since = now, !.earliest = start, !.next = end]
    BY <1>1, <1>3, <2>1 DEF Recovered
  <2>5. d \in Record /\ d.segs = disk[q].segs /\ d.state = "lost" /\ d.earliest = start /\ d.next = end
    BY <1>2, <2>2, <2>3, <2>4 DEF Record, Terminal
  <2>6. disk[q] # NoRecord
    BY <1>3 DEF NoRecord
  <2> QED BY <1>1, <1>3, <2>1, <2>5, <2>6 DEF Restored
<1>4. CASE disk[q].state # "running"
  <2>1. d = [disk[q] EXCEPT !.torn = FALSE]
    BY <1>1, <1>4 DEF Recovered
  <2>2. /\ d \in Record /\ d.segs = disk[q].segs /\ d.state = disk[q].state
        /\ d.earliest = disk[q].earliest /\ d.next = disk[q].next
    BY <1>2, <2>1 DEF Record
  <2>3. disk[q] = NoRecord => d = NoRecord
    <3>1. disk[q] = NoRecord => disk[q].torn = FALSE
      BY DEF NoRecord
    <3>2. disk[q].torn = FALSE => d = disk[q]
      BY <1>2, <2>1 DEF Record
    <3> QED BY <3>1, <3>2
  <2> QED BY <1>1, <1>4, <2>2, <2>3 DEF Restored
<1> QED BY <1>3, <1>4

LEMMA OpenKeeps ==
    ASSUME IInv, OpenQueryStore
    PROVE  IInv'
PROOF
<1>1. Types /\ Limit /\ Down /\ Swept
  BY DEF IInv
<1>2. disk \in [Query -> Record] /\ writer \in [Query -> Writer]
  BY <1>1 DEF Types
<1>3. /\ phase = "down" /\ phase' = "serving" /\ writer' = writer /\ live' = live /\ gc' = gc
      /\ obs' = obs /\ abandoned' = abandoned /\ aged' = aged \ New
      /\ totalSet' = MapThenSumSet(Bytes, Known)
  BY DEF OpenQueryStore
<1>4. live = {} /\ settled = <<>> /\ gc = <<>> /\ \A q \in Query : writer[q].pump \in {"none", "done"}
  BY <1>1, <1>3 DEF Down
<1>5. Known \in SUBSET Query /\ New \in SUBSET Query /\ New \subseteq Known
  BY DEF Known, New
<1>6. settled' \in Seq(Query) /\ IsInjective(settled') /\ Range(settled') = Known
  <2>1. PICK old \in SetToSeqs(Known \ New), order \in SetToSeqs(New) : settled' = old \o order
    BY DEF OpenQueryStore
  <2>2. old \in Seq(Query) /\ Table(old, Known \ New) /\ order \in Seq(Query) /\ Table(order, New)
    <3>1. Known \ New \in SUBSET Query
      BY <1>5
    <3>2. old \in Seq(Query) /\ Table(old, Known \ New)
      BY <3>1, Listed
    <3>3. order \in Seq(Query) /\ Table(order, New)
      BY <1>5, Listed
    <3> QED BY <3>2, <3>3
  <2>3. old \o order \in Seq(Query) /\ Table(old \o order, (Known \ New) \cup New)
    <3>1. (Known \ New) \cap New = {}
      OBVIOUS
    <3> QED BY <2>2, <3>1, Together
  <2>4. (Known \ New) \cup New = Known
    BY <1>5
  <2> QED BY <2>1, <2>3, <2>4 DEF Table
<1>7. totalSet' \in Nat
  <2>1. IsFiniteSet(Known)
    BY <1>5, QueryAssumption, FS_Subset
  <2>2. ASSUME NEW q \in Known PROVE Bytes(q) \in Nat
    <3>1. disk[q].segs \in Segments
      <4>1. disk[q] \in Record
        BY <1>2, <1>5
      <4> QED BY <4>1 DEF Record
    <3> QED BY <3>1, HeldNat DEF Bytes
  <2>3. MapThenSumSet(Bytes, Known) \in Nat
    <3>1. \A q \in Known : Bytes(q) \in Nat
      BY <2>2
    <3> QED BY <2>1, <3>1, SumOfBytes
  <2> QED BY <1>3, <2>3
<1>8. ASSUME NEW q \in Query PROVE Restored(Recovered(q), q)
  BY <1>2, RecoveredIs
<1>9. ASSUME NEW q \in Query, disk[q].state = "running"
      PROVE  LET d == [disk[q] EXCEPT !.torn = FALSE] IN
             d \in Record /\ d.state = "running" /\ d.segs = disk[q].segs
  <2>1. disk[q] \in Record
    BY <1>2
  <2>2. PICK d : d = [disk[q] EXCEPT !.torn = FALSE]
    OBVIOUS
  <2>3. d \in Record /\ d.state = disk[q].state /\ d.segs = disk[q].segs
    BY <2>1, <2>2 DEF Record
  <2> QED BY <1>9, <2>2, <2>3
<1>10. /\ disk' \in [Query -> Record] /\ givenUp' \subseteq Query /\ givenUp \subseteq givenUp'
       /\ givenUp' \ givenUp \subseteq Known
       /\ \A q \in Query : Restored(disk'[q], q) \/ (q \in givenUp' /\ q \in Known)
  <2>1. PICK f : f = [q \in Query |-> Recovered(q)]
    OBVIOUS
  <2>2. f \in [Query -> Record] /\ \A q \in Query : f[q] = Recovered(q)
    <3>1. \A q \in Query : Recovered(q) \in Record
      BY <1>8 DEF Restored
    <3> QED BY <2>1, <3>1
  <2>3. CASE disk' = [q \in Query |-> Recovered(q)] /\ UNCHANGED <<givenUp, troubles>>
    <3>1. disk' = f /\ givenUp' = givenUp
      BY <2>1, <2>3
    <3>2. givenUp \subseteq Query
      BY <1>1 DEF Types
    <3> QED BY <1>8, <2>2, <3>1, <3>2
  <2>4. CASE \E q \in Known : /\ disk[q].state = "running"
                              /\ disk' = [[p \in Query |-> Recovered(p)] EXCEPT ![q] = 
                                            [disk[q] EXCEPT !.torn = FALSE]]
                              /\ givenUp' = givenUp \cup {q}
    <3>1. PICK q \in Known : /\ disk[q].state = "running"
                             /\ disk' = [f EXCEPT ![q] = [disk[q] EXCEPT !.torn = FALSE]]
                             /\ givenUp' = givenUp \cup {q}
      BY <2>1, <2>4, Zenon
    <3>2. PICK d : d = [disk[q] EXCEPT !.torn = FALSE]
      OBVIOUS
    <3>3. q \in Query
      BY <1>5
    <3>4. d \in Record
      BY <1>9, <3>1, <3>2, <3>3
    <3>5. disk' = [f EXCEPT ![q] = d]
      BY <3>1, <3>2
    <3>6. /\ disk' \in [Query -> Record] /\ \A p \in Query : p # q => disk'[p] = f[p]
      BY <2>2, <3>3, <3>4, <3>5, PutAt
    <3>7. givenUp \subseteq Query /\ q \in Known /\ givenUp' = givenUp \cup {q}
      BY <1>1, <3>1 DEF Types
    <3>8. \A p \in Query : p # q => Restored(disk'[p], p)
      BY <1>8, <2>2, <3>6
    <3> QED BY <3>3, <3>6, <3>7, <3>8
  <2> QED BY <2>3, <2>4 DEF OpenQueryStore
<1>11. Types'
  <2>1. aged \subseteq Query /\ abandoned \in [Query -> Seq(Nat)] /\ obs \in [Observer -> Call] /\ gc \in Seq(Query)
    BY <1>1 DEF Types
  <2>2. aged' \subseteq Query
    BY <1>3, <2>1
  <2>3. live' \subseteq Query
    BY <1>3, <1>4
  <2> QED BY <1>2, <1>3, <1>6, <1>7, <1>10, <2>1, <2>2, <2>3 DEF Types
<1>12. Limit' /\ Down' /\ Swept'
  <2>1. Limit' /\ Down'
    BY <1>1, <1>3 DEF Limit, Down
  <2>2. Swept'
    BY <1>3, <1>4 DEF Swept
  <2> QED BY <2>1, <2>2
<1>13. ASSUME NEW o \in Observer PROVE Following(o)'
  <2>1. Following(o)
    BY DEF IInv
  <2> QED BY <1>3, <2>1 DEF Following
<1>14. ASSUME NEW q \in Query PROVE PumpAgrees(q)' /\ Kept(q)'
  <2>1. PumpAgrees(q) /\ Kept(q) /\ writer[q].pump \in {"none", "done"}
    BY <1>4 DEF IInv
  <2>2. CASE writer[q].pump = "none"
    <3>1. disk[q] = NoRecord /\ writer[q] = NoWriter /\ q \notin givenUp /\ q \notin Known
      BY <2>1, <2>2 DEF PumpAgrees, Known
    <3>2. q \notin givenUp' /\ disk'[q] = NoRecord
      BY <1>10, <3>1 DEF Restored
    <3>3. writer[q].subs = {} /\ disk[q].segs = <<>> /\ disk[q].state = "absent"
      BY <3>1 DEF NoWriter, NoRecord
    <3>4. PumpAgrees(q)'
      BY <1>3, <1>4, <1>6, <2>2, <3>1, <3>2, <3>3 DEF PumpAgrees
    <3>5. Contiguous(<<>>) /\ Positive(<<>>)
      BY DEF Contiguous, Positive
    <3>6. Kept(q)'
      BY <1>3, <2>2, <3>1, <3>2, <3>3, <3>5 DEF Kept, Terminal
    <3> QED BY <3>4, <3>6
  <2>3. CASE writer[q].pump = "done"
    <3>1. PumpAgrees(q)'
      BY <1>3, <1>4, <2>1, <2>3 DEF PumpAgrees
    <3>2. Kept(q)'
      <4> SUFFICES ASSUME q \notin givenUp' PROVE Kept(q)'
        BY DEF Kept
      <4>1. q \notin givenUp /\ Restored(disk'[q], q)
        BY <1>10
      <4>2. PICK d : d = disk'[q]
        OBVIOUS
      <4>3. disk[q].state \in Terminal \cup {"running"}
        <5>1. disk[q].state \in Terminal \cup {"absent", "running", "unreadable"}
          BY <1>2 DEF Record
        <5> QED BY <2>1, <2>3, <4>1, <5>1 DEF Kept
      <4>4. q \in Known
        BY <4>3 DEF Known, NoRecord, Terminal
      <4>5. d.segs = disk[q].segs /\ d.state \in Terminal /\ Contiguous(d.segs) /\ Positive(d.segs)
        BY <2>1, <4>1, <4>2, <4>3 DEF Restored, Kept, Terminal
      <4>6. Window(q, d.earliest, d.next)'
        <5>1. CASE disk[q].state = "running"
          <6>1. d.segs \in Segments
            BY <1>10, <4>2 DEF Record
          <6> QED BY <4>1, <4>2, <5>1, <6>1, Ends DEF Restored, Window
        <5>2. CASE disk[q].state # "running"
          <6>1. Window(q, disk[q].earliest, disk[q].next)
            BY <2>1, <4>1, <4>3, <5>2 DEF Kept
          <6> QED BY <4>1, <4>2, <5>2, <6>1 DEF Restored, Window
        <5> QED BY <5>1, <5>2
      <4> QED BY <1>6, <4>2, <4>4, <4>5, <4>6 DEF Kept, Terminal
    <3> QED BY <3>1, <3>2
  <2> QED BY <2>1, <2>2, <2>3
<1> QED BY <1>11, <1>12, <1>13, <1>14 DEF IInv

-----------------------------------------------------------------------------
(* The theorems *)

(* A step that changes nothing *)
LEMMA StutterKeeps ==
    ASSUME IInv, UNCHANGED vars
    PROVE  IInv'
PROOF
<1>1. Types /\ Limit /\ Down /\ Swept
  BY DEF IInv
<1>2. /\ disk' = disk /\ live' = live /\ settled' = settled /\ totalSet' = totalSet
      /\ gc' = gc /\ givenUp' = givenUp /\ writer' = writer /\ abandoned' = abandoned
      /\ obs' = obs /\ aged' = aged /\ phase' = phase
  BY DEF vars
<1>3. Types' /\ Limit' /\ Down' /\ Swept'
  <2>1. Types'
    BY <1>1, <1>2 DEF Types
  <2> QED BY <1>1, <1>2, <2>1 DEF Limit, Down, Swept
<1>4. ASSUME NEW p \in Query PROVE PumpAgrees(p)' /\ Kept(p)'
  <2>1. PumpAgrees(p) /\ Kept(p)
    BY DEF IInv
  <2> QED BY <1>2, <2>1 DEF PumpAgrees, Kept, Window
<1>5. ASSUME NEW o \in Observer PROVE Following(o)'
  <2>1. Following(o)
    BY DEF IInv
  <2> QED BY <1>2, <2>1 DEF Following
<1> QED BY <1>3, <1>4, <1>5 DEF IInv

(* Every step keeps the inductive invariant. *)
LEMMA NextIInv == IInv /\ [Next]_vars => IInv'
PROOF
<1> SUFFICES ASSUME IInv, [Next]_vars PROVE IInv'
  OBVIOUS
<1>1. ASSUME NEW q \in Query, Turn(q) PROVE IInv'
  <2>1. CASE BeginRecord(q)
    BY <2>1, BeginRecordKeeps
  <2>2. CASE BeginWriter(q)
    BY <2>2, BeginWriterKeeps
  <2>3. CASE AppendFrame(q)
    BY <2>3, AppendFrameKeeps
  <2>4. CASE AppendFails(q)
    BY <2>4, AppendFailsKeeps
  <2>5. CASE Finishes(q)
    BY <2>5, FinishKeeps DEF Finishes
  <2>6. CASE SettleRecord(q)
    BY <2>6, SettleRecordKeeps
  <2>7. CASE \E o \in Observer : EndSubscriber(q, o)
    BY <2>7, EndSubscriberKeeps
  <2> QED BY <1>1, <2>1, <2>2, <2>3, <2>4, <2>5, <2>6, <2>7 DEF Turn, Ending
<1>2. ASSUME NEW q \in Query, Retain(q) PROVE IInv'
  BY <1>2, AgeKeeps, ForgetRecordKeeps, RemoveFileKeeps DEF Retain
<1>3. ASSUME NEW o \in Observer, Observe(o) PROVE IInv'
  <2>1. CASE \E q \in Query, from \in 0..MaxFrames : ObserveQuery(o, q, from)
    <3>1. PICK q \in Query, from \in 0..MaxFrames : ObserveQuery(o, q, from)
      BY <2>1
    <3>2. from \in Nat
      OBVIOUS
    <3> QED BY <3>1, <3>2, ObserveQueryKeeps
  <2>2. CASE Serve(o)
    <3>1. CASE AttachWriter(o)
      BY <3>1, AttachWriterKeeps
    <3>2. CASE ListSegments(o)
      BY <3>2, ListSegmentsKeeps
    <3>3. CASE ReadSegment(o)
      BY <3>3, ReadSegmentKeeps
    <3>4. CASE Replayed(o)
      BY <3>4, ReplayedKeeps
    <3>5. CASE ReceiveFrame(o)
      BY <3>5, ReceiveFrameKeeps
    <3>6. CASE SubscriptionEnds(o)
      BY <3>6, SubscriptionEndsKeeps
    <3>7. CASE StatSegments(o)
      BY <3>7, StatSegmentsKeeps
    <3> QED BY <2>2, <3>1, <3>2, <3>3, <3>4, <3>5, <3>6, <3>7 DEF Serve
  <2>3. CASE Interrupted(o)
    BY <2>3, InterruptedKeeps
  <2>4. CASE ObserveAgain(o)
    BY <2>4, ObserveAgainKeeps
  <2> QED BY <1>3, <2>1, <2>2, <2>3, <2>4 DEF Observe
<1>4. CASE RunGC
  BY <1>4, RunGCKeeps
<1>5. CASE Stop
  BY <1>5, StopKeeps
<1>6. CASE Exit
  BY <1>6, ExitKeeps
<1>7. CASE OpenQueryStore
  BY <1>7, OpenKeeps
<1>8. CASE UNCHANGED vars
  BY <1>8, StutterKeeps
<1> QED BY <1>1, <1>2, <1>3, <1>4, <1>5, <1>6, <1>7, <1>8 DEF Next

(* The invariant that the theorem below follows from: tables, state files   *)
(* and segments agree with the place of each pump, in every reachable state *)
(* of query_store.go and query_writer.go.                                   *)
THEOREM StoreInductive == Spec => []IInv
PROOF
<1>1. Init => IInv
  BY InitIInv
<1>2. IInv /\ [Next]_vars => IInv'
  BY NextIInv
<1> QED BY <1>1, <1>2, PTL DEF Spec

(* RecordsWhole is part of what the invariant says. *)
LEMMA IInvImpliesWhole == IInv => RecordsWhole
PROOF
<1> SUFFICES ASSUME IInv PROVE RecordsWhole
  OBVIOUS
<1>1. TypeOK
  <2>1. Types /\ Limit
    BY DEF IInv
  <2> QED BY <2>1 DEF Types, Limit, TypeOK, Record, Writer, States
<1>2. ASSUME NEW q \in Query \ givenUp
      PROVE  /\ \A i \in 1..(Len(disk[q].segs) - 1) :
                   disk[q].segs[i + 1].base = disk[q].segs[i].base + disk[q].segs[i].count
             /\ disk[q].state \in Terminal => Window(q, disk[q].earliest, disk[q].next)
             /\ q \in live => Window(q, writer[q].earliest, writer[q].next)
             /\ (q \in live /\ disk[q].state = "running") => q \notin Range(settled)
             /\ (phase = "serving" /\ disk[q].state \in Terminal) => q \in live \cup Range(settled)
  <2>1. PumpAgrees(q) /\ Kept(q)
    BY DEF IInv
  <2>2. q \in live => Window(q, writer[q].earliest, writer[q].next) /\ q \notin Range(settled)
    BY <2>1 DEF PumpAgrees
  <2>3. /\ Contiguous(disk[q].segs)
        /\ disk[q].state \in Terminal => Window(q, disk[q].earliest, disk[q].next)
        /\ (phase # "down" /\ disk[q].state \in Terminal) => q \in live \cup Range(settled)
    BY <2>1 DEF Kept
  <2> QED BY <2>2, <2>3 DEF Contiguous
<1> QED BY <1>1, <1>2 DEF RecordsWhole

(* What a record promises to replay is what its segments hold, through      *)
(* every interleaving of the pump, retention, crashes and recovery.         *)
THEOREM RecordsWholeHolds == Spec => []RecordsWhole
PROOF
<1>1. Spec => []IInv
  BY StoreInductive
<1>2. IInv => RecordsWhole
  BY IInvImpliesWhole
<1> QED BY <1>1, <1>2, PTL

-----------------------------------------------------------------------------
(* Where frames lie in a record *)

(* With frames in each segment, bases grow. *)
LEMMA Monotone ==
    ASSUME NEW segs \in Segments, Contiguous(segs), \A i \in 1..Len(segs) : segs[i].count > 0,
           NEW i \in 1..Len(segs), NEW j \in 1..Len(segs), i < j
    PROVE  segs[i].base + segs[i].count <= segs[j].base
PROOF
<1> DEFINE T == {d \in Nat : i + 1 + d <= Len(segs) =>
                                 segs[i].base + segs[i].count <= segs[i + 1 + d].base}
<1>1. /\ Len(segs) \in Nat
      /\ \A k \in 1..Len(segs) : segs[k].base \in Nat /\ segs[k].count \in Nat
  BY SegmentsAre
<1>2. 0 \in T
  <2>1. i \in 1..(Len(segs) - 1) /\ i + 1 + 0 = i + 1
    BY <1>1
  <2>2. segs[i + 1].base = segs[i].base + segs[i].count
    BY <2>1 DEF Contiguous
  <2>3. segs[i].base + segs[i].count <= segs[i + 1].base
    BY <1>1, <2>1, <2>2
  <2> QED BY <2>1, <2>3
<1>3. ASSUME NEW d \in T PROVE d + 1 \in T
  <2>1. d \in Nat /\ (i + 1 + d <= Len(segs) => segs[i].base + segs[i].count <= segs[i + 1 + d].base)
    OBVIOUS
  <2>2. ASSUME i + 1 + (d + 1) <= Len(segs) PROVE segs[i].base + segs[i].count <= segs[i + 1 + (d + 1)].base
    <3>1. PICK k : k = i + 1 + d
      OBVIOUS
    <3>2. k \in 1..(Len(segs) - 1) /\ k \in 1..Len(segs) /\ k + 1 \in 1..Len(segs) /\ k + 1 = i + 1 + (d + 1)
      BY <1>1, <2>1, <2>2, <3>1
    <3>3. segs[k + 1].base = segs[k].base + segs[k].count
      BY <3>2 DEF Contiguous
    <3>4. segs[i].base + segs[i].count <= segs[k].base
      BY <2>1, <3>1, <3>2
    <3>5. /\ segs[k].base \in Nat /\ segs[k].count \in Nat /\ segs[i].base \in Nat /\ segs[i].count \in Nat
      BY <1>1, <3>2
    <3>6. segs[i].base + segs[i].count <= segs[k + 1].base
      <4>1. PICK a, b, e, f : /\ a = segs[i].base /\ b = segs[i].count
                              /\ e = segs[k].base /\ f = segs[k].count
        OBVIOUS
      <4>2. a \in Nat /\ b \in Nat /\ e \in Nat /\ f \in Nat /\ a + b <= e
        BY <3>4, <3>5, <4>1
      <4>3. a + b <= e + f
        BY <4>2
      <4> QED BY <3>3, <4>1, <4>3
    <3> QED BY <3>2, <3>6
  <2> QED BY <2>1, <2>2
<1>4. T \subseteq Nat
  OBVIOUS
<1> HIDE DEF T
<1>5. T = Nat
  BY <1>2, <1>3, <1>4, NatSet
<1>6. j - i - 1 \in T /\ i + 1 + (j - i - 1) = j /\ j <= Len(segs)
  BY <1>1, <1>5
<1> QED BY <1>6 DEF T

(* A record that holds frames has them in every segment. *)
LEMMA AllHold ==
    ASSUME NEW segs \in Segments, Positive(segs), EndOf(segs) > 0
    PROVE  segs # <<>> /\ \A i \in 1..Len(segs) : segs[i].count > 0
PROOF
<1>1. segs # <<>> /\ EndOf(segs) = segs[Len(segs)].base + segs[Len(segs)].count
  BY Ends
<1>2. /\ Len(segs) \in Nat /\ DOMAIN segs = 1..Len(segs)
      /\ \A i \in 1..Len(segs) : segs[i].base \in Nat /\ segs[i].count \in Nat
  BY SegmentsAre
<1>3. ASSUME NEW i \in 1..Len(segs) PROVE segs[i].count > 0
  <2>1. segs[i].count > 0 \/ (Len(segs) = 1 /\ segs[1].base = 0)
    BY <1>2 DEF Positive
  <2>2. CASE Len(segs) = 1 /\ segs[1].base = 0
    <3>1. i = 1 /\ segs[1].count \in Nat
      BY <1>2, <2>2
    <3> QED BY <1>1, <2>2, <3>1
  <2> QED BY <2>1, <2>2
<1> QED BY <1>1, <1>3

(* Below its end a segment lies below the end of the record. *)
LEMMA BelowEnd ==
    ASSUME NEW segs \in Segments, Contiguous(segs), \A i \in 1..Len(segs) : segs[i].count > 0,
           NEW i \in 1..Len(segs)
    PROVE  segs[i].base + segs[i].count <= EndOf(segs) /\ segs[i].base < EndOf(segs)
PROOF
<1>1. /\ Len(segs) \in Nat /\ segs # <<>>
      /\ \A k \in 1..Len(segs) : segs[k].base \in Nat /\ segs[k].count \in Nat
  BY SegmentsAre
<1>2. EndOf(segs) = segs[Len(segs)].base + segs[Len(segs)].count
  BY <1>1, Ends
<1>3. segs[i].base \in Nat /\ segs[i].count \in Nat /\ segs[i].count > 0
  BY <1>1
<1>4. Len(segs) \in 1..Len(segs) /\ segs[Len(segs)].base \in Nat /\ segs[Len(segs)].count \in Nat
  BY <1>1
<1>5. CASE i = Len(segs)
  BY <1>2, <1>3, <1>5
<1>6. CASE i # Len(segs)
  <2>1. i < Len(segs)
    BY <1>1, <1>6
  <2>2. segs[i].base + segs[i].count <= segs[Len(segs)].base
    BY <1>4, <2>1, Monotone
  <2>3. PICK a, b, e, f : /\ a = segs[i].base /\ b = segs[i].count
                          /\ e = segs[Len(segs)].base /\ f = segs[Len(segs)].count
    OBVIOUS
  <2>4. a \in Nat /\ b \in Nat /\ b > 0 /\ e \in Nat /\ f \in Nat /\ a + b <= e
    BY <1>3, <1>4, <2>2, <2>3
  <2>5. a + b <= e + f /\ a < e + f
    BY <2>4
  <2> QED BY <1>2, <2>3, <2>5
<1> QED BY <1>5, <1>6

(* Segments have different bases. *)
LEMMA OneBase ==
    ASSUME NEW segs \in Segments, Contiguous(segs), \A i \in 1..Len(segs) : segs[i].count > 0,
           NEW i \in 1..Len(segs), NEW j \in 1..Len(segs), segs[i].base = segs[j].base
    PROVE  i = j
PROOF
<1>1. /\ Len(segs) \in Nat
      /\ \A k \in 1..Len(segs) : segs[k].base \in Nat /\ segs[k].count \in Nat /\ segs[k].count > 0
  BY SegmentsAre
<1>2. CASE i < j
  <2>1. segs[i].base + segs[i].count <= segs[j].base
    BY <1>2, Monotone
  <2> QED BY <1>1, <2>1
<1>3. CASE j < i
  <2>1. segs[j].base + segs[j].count <= segs[i].base
    BY <1>3, Monotone
  <2> QED BY <1>1, <2>1
<1> QED BY <1>1, <1>2, <1>3

-----------------------------------------------------------------------------
(* What is true of a call *)

(* The pump no longer appends. *)
Over == {"ending", "done"}
(* The sequence of the next frame that a call has to send from its subscription *)
From(c) == IF c.pc = "live" THEN c.at ELSE c.to

(* A subscription holds the frames from there on, up to the writer's next;  *)
(* one that was closed has lagged behind, or the record has ended.          *)
Buffered(c, w, alive) ==
    c.pc \in Active =>
        /\ \A i \in DOMAIN c.buf : c.buf[i] = From(c) + i - 1
        /\ c.sub = "none" => c.buf = <<>> /\ c.pc # "live" /\ c.snap \in Terminal /\ w.pump \in Over
        /\ c.sub = "open" => From(c) + Len(c.buf) = w.next
        /\ (c.sub = "closed" /\ c.lags) => From(c) + Len(c.buf) < w.next
        /\ (c.sub = "closed" /\ ~c.lags) => w.pump \in Over /\ (alive => w.pump = "ending")
        /\ c.lags => c.sub = "closed"

(* Where a call stands, and what its end means, whatever retention does *)
Standing(c, w) ==
    /\ w.pump \in {"running", "ending", "done"}
    /\ c.end # "none" <=> c.pc = "ended"
    /\ c.end = "lag" => c.at < w.next
    /\ c.pc = "found" => /\ c.buf = <<>> /\ ~c.lags /\ c.whole
                         /\ w.finished => w.state \in Terminal

(* Each listed segment is still there, or was dropped from the front, and *)
(* goes on to the next one.                                               *)
Reads(c, segs) ==
    /\ c.list = <<>> => c.at = c.to
    /\ c.list # <<>> => c.list[1] <= c.at \/ c.at = c.to \/ StartOf(segs) > 0
    /\ \A k \in DOMAIN c.list :
          /\ c.list[k] < EndOf(segs)
          /\ c.list[k] < StartOf(segs) \/ \E i \in DOMAIN segs : segs[i].base = c.list[k]
          /\ \A i \in DOMAIN segs : segs[i].base = c.list[k] =>
                IF k < Len(c.list) THEN segs[i].base + segs[i].count = c.list[k + 1]
                ELSE segs[i].base + segs[i].count >= c.to

(* What a call has been told, and goes on to tell, of a record that is kept *)
Right(c, segs, w) ==
    /\ c.pc = "found" => segs # <<>> /\ w.earliest = StartOf(segs) /\ w.next = EndOf(segs)
    /\ c.pc \in Active =>
          /\ c.sub = "none" => c.to = EndOf(segs)
          /\ (c.sub = "closed" /\ ~c.lags) => From(c) + Len(c.buf) = EndOf(segs)
          /\ c.pc # "live" => c.to <= EndOf(segs) /\ c.at <= c.to
    /\ c.pc = "listing" => c.at < c.to
    /\ c.pc \in {"listed", "reading"} => Reads(c, segs)
    /\ c.pc = "replayed" => c.at = c.to
    /\ c.whole
    /\ c.end \in {"settled", "error"} => w.pump \in Over /\ c.at = EndOf(segs)
    /\ c.end # "notfound"
    /\ c.end \in {"pruned", "internal"} => StartOf(segs) > 0

(* Both together, for the record that the call is about *)
Told(c) ==
    LET q == c.query IN
    /\ Standing(c, writer[q]) /\ Buffered(c, writer[q], q \in live)
    /\ q \notin givenUp => Right(c, disk[q].segs, writer[q])

(* Subscribers of a writer are calls that follow it. *)
Subscribed ==
    \A q \in Query : \A o \in writer[q].subs :
        obs[o].pc \in Active /\ obs[o].query = q /\ obs[o].sub = "open"

(* The strengthening of ObserversServed that steps preserve *)
Served ==
    /\ Subscribed
    /\ \A o \in Observer : /\ obs[o].pc = "idle" => obs[o] = Idle
                           /\ obs[o].pc # "idle" => phase # "down" /\ Told(obs[o])

(* Reads looks at three fields of a call. *)
LEMMA ReadsAlike ==
    ASSUME NEW segs, NEW b, NEW c, Reads(b, segs), c.at = b.at, c.to = b.to, c.list = b.list
    PROVE  Reads(c, segs)
  BY Zenon DEF Reads

(* The listing of a record that holds frames *)
LEMMA ListingReads ==
    ASSUME NEW segs \in Segments, Contiguous(segs), Positive(segs), NEW c \in Call,
           c.at < c.to, c.to <= EndOf(segs), c.list = [i \in DOMAIN segs |-> segs[i].base]
    PROVE  Reads(c, segs)
PROOF
<1>1. c.at \in Nat /\ c.to \in Nat /\ EndOf(segs) \in Nat
  BY Ends DEF Call
<1>2. segs # <<>> /\ \A i \in 1..Len(segs) : segs[i].count > 0
  BY <1>1, AllHold
<1>3. /\ Len(segs) \in Nat /\ DOMAIN segs = 1..Len(segs) /\ 1 \in 1..Len(segs)
      /\ \A k \in 1..Len(segs) : segs[k].base \in Nat /\ segs[k].count \in Nat
  BY <1>2, SegmentsAre
<1>4. /\ EndOf(segs) = segs[Len(segs)].base + segs[Len(segs)].count /\ StartOf(segs) = segs[1].base
  BY <1>2, Ends
<1>5. /\ DOMAIN c.list = 1..Len(segs) /\ Len(c.list) = Len(segs) /\ c.list # <<>>
      /\ \A k \in 1..Len(segs) : c.list[k] = segs[k].base
  <2>1. c.list \in Seq(Nat)
    BY DEF Call
  <2>2. DOMAIN c.list = 1..Len(segs)
    BY <1>3
  <2>3. DOMAIN c.list = 1..Len(c.list) /\ Len(c.list) \in Nat
    BY <2>1
  <2>4. Len(c.list) = Len(segs)
    BY <1>3, <2>2, <2>3
  <2>5. c.list # <<>>
    BY <1>3, <2>2, <2>3
  <2> QED BY <1>3, <2>2, <2>4, <2>5
<1>6. c.list[1] <= c.at \/ StartOf(segs) > 0
  BY <1>1, <1>3, <1>4, <1>5
<1>7. ASSUME NEW k \in 1..Len(segs)
      PROVE  /\ c.list[k] < EndOf(segs)
             /\ \E i \in DOMAIN segs : segs[i].base = c.list[k]
             /\ \A i \in DOMAIN segs : segs[i].base = c.list[k] =>
                   IF k < Len(c.list) THEN segs[i].base + segs[i].count = c.list[k + 1]
                   ELSE segs[i].base + segs[i].count >= c.to
  <2>1. c.list[k] < EndOf(segs)
    BY <1>2, <1>5, BelowEnd
  <2>2. ASSUME NEW i \in 1..Len(segs), segs[i].base = c.list[k]
        PROVE  IF k < Len(c.list) THEN segs[i].base + segs[i].count = c.list[k + 1]
               ELSE segs[i].base + segs[i].count >= c.to
    <3>1. i = k
      BY <1>2, <1>5, <2>2, OneBase
    <3>2. CASE k < Len(segs)
      <4>1. k \in 1..(Len(segs) - 1) /\ k + 1 \in 1..Len(segs)
        BY <1>3, <3>2
      <4>2. segs[k + 1].base = segs[k].base + segs[k].count /\ c.list[k + 1] = segs[k + 1].base
        BY <1>5, <4>1 DEF Contiguous
      <4> QED BY <1>5, <3>1, <3>2, <4>2
    <3>3. CASE ~(k < Len(segs))
      <4>0. Len(segs) \in Nat
        BY <1>3
      <4>1. k = Len(segs)
        BY <3>3, <4>0
      <4>2. segs[i].base + segs[i].count >= c.to
        BY <1>1, <1>3, <1>4, <3>1, <4>1
      <4> QED BY <1>5, <3>3, <4>2
    <3> QED BY <3>2, <3>3
  <2> QED BY <1>3, <1>5, <2>1, <2>2
<1> QED BY <1>5, <1>6, <1>7 DEF Reads

(* What was listed goes on being readable while the record grows and drops segments. *)
LEMMA ReadsOn ==
    ASSUME NEW segs \in Segments, segs # <<>>, Contiguous(segs), Positive(segs),
           NEW g, OneMore(segs, g), NEW k \in 1..Len(g), NEW s, Latest(g, k, s),
           NEW c \in Call, Reads(c, segs)
    PROVE  Reads(c, s)
PROOF
<1>1. PICK n : n = Len(segs)
  OBVIOUS
<1>2. /\ n \in Nat /\ n \in 1..n /\ DOMAIN segs = 1..n
      /\ \A i \in 1..n : segs[i].base \in Nat /\ segs[i].count \in Nat
      /\ EndOf(segs) = segs[n].base + segs[n].count /\ EndOf(segs) \in Nat /\ StartOf(segs) \in Nat
  BY <1>1, SegmentsAre, Ends
<1>3. /\ g \in Segments /\ g # <<>> /\ Contiguous(g) /\ \A i \in 1..Len(g) : g[i].count > 0
      /\ EndOf(g) = EndOf(segs) + 1 /\ StartOf(g) = StartOf(segs) /\ Len(g) >= n
      /\ \A i \in 1..(n - 1) : g[i] = segs[i]
      /\ g[n].base = segs[n].base /\ g[n].count >= segs[n].count
      /\ \A i \in 1..Len(g) : i > n => g[i].base = EndOf(segs)
  BY <1>1 DEF OneMore
<1>4. /\ Len(g) \in Nat /\ \A i \in 1..Len(g) : g[i].base \in Nat /\ g[i].count \in Nat
      /\ StartOf(g) = g[1].base
  BY <1>3, SegmentsAre, Ends
<1>5. /\ s \in Segments /\ EndOf(s) = EndOf(segs) + 1 /\ StartOf(s) = g[k].base
      /\ Len(s) = Len(g) - k + 1 /\ \A j \in 1..Len(s) : s[j] = g[j + k - 1]
      /\ DOMAIN s = 1..Len(s)
  <2>1. s \in Segments
    BY DEF Latest
  <2> QED BY <1>3, <2>1, SegmentsAre DEF Latest
<1>6. StartOf(s) >= StartOf(segs) /\ StartOf(s) \in Nat
  <2>1. CASE k = 1
    BY <1>2, <1>3, <1>4, <1>5, <2>1
  <2>2. CASE k # 1
    <3>1. 1 \in 1..Len(g) /\ 1 < k
      BY <1>4, <2>2
    <3>2. g[1].base + g[1].count <= g[k].base
      BY <1>3, <3>1, Monotone
    <3> QED BY <1>3, <1>4, <1>5, <3>1, <3>2
  <2> QED BY <2>1, <2>2
<1>7. c.list \in Seq(Nat) /\ DOMAIN c.list = 1..Len(c.list) /\ Len(c.list) \in Nat /\ c.to \in Nat
  BY DEF Call
<1>8. /\ c.list = <<>> => c.at = c.to
      /\ c.list # <<>> => c.list[1] <= c.at \/ c.at = c.to \/ StartOf(segs) > 0
      /\ \A i \in DOMAIN c.list :
          /\ c.list[i] < EndOf(segs)
          /\ c.list[i] < StartOf(segs) \/ \E j \in DOMAIN segs : segs[j].base = c.list[i]
          /\ \A j \in DOMAIN segs : segs[j].base = c.list[i] =>
                IF i < Len(c.list) THEN segs[j].base + segs[j].count = c.list[i + 1]
                ELSE segs[j].base + segs[j].count >= c.to
  BY Zenon DEF Reads
<1>9. c.list # <<>> => c.list[1] <= c.at \/ c.at = c.to \/ StartOf(s) > 0
  <2>1. StartOf(segs) > 0 => StartOf(s) > 0
    BY <1>2, <1>6
  <2> QED BY <1>8, <2>1
<1>10. ASSUME NEW i \in DOMAIN c.list
       PROVE  c.list[i] < EndOf(s) /\ (c.list[i] < StartOf(s) \/ \E j \in DOMAIN s : s[j].base = c.list[i])
  <2>1. c.list[i] \in Nat /\ c.list[i] < EndOf(segs)
    BY <1>7, <1>8
  <2>2. c.list[i] < EndOf(s)
    BY <1>2, <1>5, <2>1
  <2>3. CASE c.list[i] < StartOf(segs)
    BY <1>2, <1>6, <2>1, <2>2, <2>3
  <2>4. CASE \E j \in DOMAIN segs : segs[j].base = c.list[i]
    <3>1. PICK j \in 1..n : segs[j].base = c.list[i]
      BY <1>2, <2>4
    <3>2. j \in 1..Len(g) /\ g[j].base = c.list[i]
      <4>1. j \in 1..Len(g)
        BY <1>2, <1>3, <1>4
      <4>2. j = n \/ j \in 1..(n - 1)
        BY <1>2
      <4> QED BY <1>3, <3>1, <4>1, <4>2
    <3>3. CASE j < k
      <4>1. g[j].base + g[j].count <= g[k].base
        BY <1>3, <3>2, <3>3, Monotone
      <4>2. g[j].count > 0 /\ g[j].count \in Nat /\ g[j].base \in Nat /\ g[k].base \in Nat
        BY <1>3, <1>4, <3>2
      <4> QED BY <1>5, <2>2, <3>2, <4>1, <4>2
    <3>4. CASE ~(j < k)
      <4>1. PICK m : m = j - k + 1
        OBVIOUS
      <4>2. m \in 1..Len(s) /\ m + k - 1 = j
        BY <1>4, <1>5, <3>2, <3>4, <4>1
      <4>3. s[m].base = c.list[i]
        BY <1>5, <3>2, <4>2
      <4> QED BY <1>5, <2>2, <4>2, <4>3
    <3> QED BY <3>3, <3>4
  <2> QED BY <1>8, <2>3, <2>4
<1>11. ASSUME NEW i \in DOMAIN c.list, NEW m \in DOMAIN s, s[m].base = c.list[i]
       PROVE  IF i < Len(c.list) THEN s[m].base + s[m].count = c.list[i + 1]
              ELSE s[m].base + s[m].count >= c.to
  <2>1. PICK j : j = m + k - 1
    OBVIOUS
  <2>2. j \in 1..Len(g) /\ s[m] = g[j]
    BY <1>4, <1>5, <2>1
  <2>3. g[j].base = c.list[i] /\ c.list[i] < EndOf(segs) /\ c.list[i] \in Nat
    BY <1>7, <1>8, <1>11, <2>2
  <2>4. j \in 1..n
    <3>1. ~(j > n)
      BY <1>2, <1>3, <2>2, <2>3
    <3> QED BY <1>2, <1>4, <2>2, <3>1
  <2>5. segs[j].base = g[j].base /\ g[j].count >= segs[j].count /\ (j # n => g[j] = segs[j])
    <3>1. CASE j = n
      BY <1>3, <3>1
    <3>2. CASE j # n
      <4>1. j \in 1..(n - 1)
        BY <1>2, <2>4, <3>2
      <4>2. g[j] = segs[j] /\ segs[j].count \in Nat
        BY <1>2, <1>3, <2>4, <4>1
      <4> QED BY <3>2, <4>2
    <3> QED BY <3>1, <3>2
  <2>6. IF i < Len(c.list) THEN segs[j].base + segs[j].count = c.list[i + 1]
        ELSE segs[j].base + segs[j].count >= c.to
    BY <1>2, <1>8, <2>3, <2>4, <2>5
  <2>7. CASE i < Len(c.list)
    <3>1. i + 1 \in DOMAIN c.list
      BY <1>7, <2>7
    <3>2. c.list[i + 1] < EndOf(segs) /\ segs[j].base + segs[j].count = c.list[i + 1]
      BY <1>8, <2>6, <2>7, <3>1
    <3>3. j # n
      BY <1>2, <3>2
    <3> QED BY <2>2, <2>5, <2>7, <3>2, <3>3
  <2>8. CASE ~(i < Len(c.list))
    <3>1. segs[j].base + segs[j].count >= c.to
      BY <2>6, <2>8
    <3>2. segs[j].base \in Nat /\ segs[j].count \in Nat /\ g[j].count \in Nat
      BY <1>2, <1>4, <2>2, <2>4
    <3>3. g[j].base + g[j].count >= c.to
      <4>1. PICK a, b, e : a = segs[j].base /\ b = segs[j].count /\ e = g[j].count
        OBVIOUS
      <4>2. a \in Nat /\ b \in Nat /\ e \in Nat /\ e >= b /\ a + b >= c.to /\ c.to \in Nat
        BY <1>7, <2>5, <3>1, <3>2, <4>1
      <4>3. a + e >= c.to
        BY <4>2
      <4> QED BY <2>5, <4>1, <4>3
    <3> QED BY <2>2, <2>8, <3>3
  <2> QED BY <2>7, <2>8
<1> QED BY <1>8, <1>9, <1>10, <1>11, Zenon DEF Reads

-----------------------------------------------------------------------------
(* Calls that a step leaves alone *)

(* What was told about q stays true. *)
StaysTrue(q) ==
    /\ givenUp \subseteq givenUp'
    /\ writer'[q].next = writer[q].next /\ writer'[q].earliest = writer[q].earliest
    /\ writer'[q].pump \in {"running", "ending", "done"}
    /\ writer[q].pump \in Over => writer'[q].pump \in Over
    /\ (q \in live => writer[q].pump = "ending") => (q \in live' => writer'[q].pump = "ending")
    /\ (writer[q].finished => writer[q].state \in Terminal) =>
            (writer'[q].finished => writer'[q].state \in Terminal)
    /\ q \notin givenUp' => disk'[q].segs = disk[q].segs

(* c is told the truth after a step. *)
ToldAfter(c) ==
    LET q == c.query IN
    /\ Standing(c, writer'[q]) /\ Buffered(c, writer'[q], q \in live')
    /\ q \notin givenUp' => Right(c, disk'[q].segs, writer'[q])
(* What was told to a call of a record stays true when the record does. *)
LEMMA ToldStill ==
    ASSUME NEW c, Told(c), StaysTrue(c.query)
    PROVE  ToldAfter(c)
PROOF
<1>1. PICK q, w, v : q = c.query /\ w = writer[q] /\ v = writer'[q]
  OBVIOUS
<1>2. /\ v.next = w.next /\ v.earliest = w.earliest
      /\ v.pump \in {"running", "ending", "done"} /\ (w.pump \in Over => v.pump \in Over)
      /\ (q \in live => w.pump = "ending") => (q \in live' => v.pump = "ending")
      /\ (w.finished => w.state \in Terminal) => (v.finished => v.state \in Terminal)
  BY <1>1 DEF StaysTrue
<1>3. givenUp \subseteq givenUp' /\ (q \notin givenUp' => disk'[q].segs = disk[q].segs)
  BY <1>1 DEF StaysTrue
<1>4. Standing(c, w) /\ Buffered(c, w, q \in live) /\ (q \notin givenUp => Right(c, disk[q].segs, w))
  BY <1>1 DEF Told
<1>5. Standing(c, v)
  BY <1>2, <1>4 DEF Standing
<1>6. Buffered(c, v, q \in live')
  <2>1. CASE c.pc \in Active
    <3>1. /\ \A i \in DOMAIN c.buf : c.buf[i] = From(c) + i - 1
          /\ c.sub = "none" => c.buf = <<>> /\ c.pc # "live" /\ c.snap \in Terminal /\ w.pump \in Over
          /\ c.sub = "open" => From(c) + Len(c.buf) = w.next
          /\ (c.sub = "closed" /\ c.lags) => From(c) + Len(c.buf) < w.next
          /\ (c.sub = "closed" /\ ~c.lags) => w.pump \in Over /\ (q \in live => w.pump = "ending")
          /\ c.lags => c.sub = "closed"
      BY <1>4, <2>1 DEF Buffered
    <3>2. /\ c.sub = "none" => c.buf = <<>> /\ c.pc # "live" /\ c.snap \in Terminal /\ v.pump \in Over
          /\ c.sub = "open" => From(c) + Len(c.buf) = v.next
          /\ (c.sub = "closed" /\ c.lags) => From(c) + Len(c.buf) < v.next
      BY <1>2, <3>1
    <3>3. (c.sub = "closed" /\ ~c.lags) => v.pump \in Over /\ (q \in live' => v.pump = "ending")
      BY <1>2, <3>1
    <3> QED BY <3>1, <3>2, <3>3 DEF Buffered
  <2>2. CASE c.pc \notin Active
    BY <2>2 DEF Buffered
  <2> QED BY <2>1, <2>2
<1>7. ASSUME q \notin givenUp' PROVE Right(c, disk'[q].segs, v)
  <2>1. PICK segs : segs = disk[q].segs /\ segs = disk'[q].segs
    BY <1>3, <1>7
  <2>2. Right(c, segs, w)
    BY <1>3, <1>4, <1>7, <2>1
  <2>3. Right(c, segs, v)
    <3>1. v.next = w.next /\ v.earliest = w.earliest /\ (w.pump \in Over => v.pump \in Over)
      BY <1>2
    <3> QED BY <2>2, <3>1 DEF Right
  <2> QED BY <2>1, <2>3
<1> QED BY <1>1, <1>5, <1>6, <1>7 DEF ToldAfter

(* A step that no call takes part in *)
LEMMA NoCall ==
    ASSUME Served, obs' = obs, phase # "down" => phase' # "down",
           \A q \in Query : writer'[q].subs \subseteq writer[q].subs,
           \A q \in Query : writer[q].pump \in {"running", "ending", "done"} => StaysTrue(q),
           Types, \A o \in Observer : Following(o)
    PROVE  Served'
PROOF
<1>1. Subscribed'
  BY DEF Served, Subscribed
<1>2. ASSUME NEW o \in Observer, obs[o].pc # "idle" PROVE phase' # "down" /\ Told(obs[o])'
  <2>1. phase # "down" /\ Told(obs[o])
    BY <1>2 DEF Served
  <2>2. obs[o].query \in Query
    BY <1>2 DEF Following
  <2>3. writer[obs[o].query].pump \in {"running", "ending", "done"}
    BY <2>1 DEF Told, Standing
  <2>4. StaysTrue(obs[o].query) /\ obs'[o] = obs[o]
    BY <2>2, <2>3
  <2>5. ToldAfter(obs[o])
    BY <2>1, <2>4, ToldStill
  <2>6. Told(obs[o])'
    BY <2>4, <2>5 DEF Told, ToldAfter
  <2> QED BY <2>1, <2>6
<1>3. \A o \in Observer : (obs[o].pc = "idle" => obs[o] = Idle)'
  BY DEF Served
<1>4. \A o \in Observer : (obs[o].pc # "idle" => phase # "down" /\ Told(obs[o]))'
  BY <1>2
<1> QED BY <1>1, <1>3, <1>4 DEF Served

(* A step that leaves a writer and its segments alone *)
LEMMA Alone ==
    ASSUME NEW q, givenUp \subseteq givenUp', writer'[q] = writer[q], q \in live' <=> q \in live,
           q \notin givenUp' => disk'[q].segs = disk[q].segs,
           writer[q].pump \in {"running", "ending", "done"}
    PROVE  StaysTrue(q)
  BY DEF StaysTrue

(* A step of the turn of q, which calls may have been told about *)
LEMMA TurnStep ==
    ASSUME IInv, Served, NEW q \in Query, obs' = obs, phase' = phase, givenUp' = givenUp,
           \A p \in Query : p # q => /\ writer'[p] = writer[p] /\ (p \in live' <=> p \in live)
                                     /\ disk'[p] = disk[p],
           writer'[q].subs = writer[q].subs,
           writer[q].pump \in {"running", "ending", "done"} => StaysTrue(q)
    PROVE  Served'
PROOF
<1>1. Types /\ \A o \in Observer : Following(o)
  BY DEF IInv
<1>2. ASSUME NEW p \in Query, writer[p].pump \in {"running", "ending", "done"} PROVE StaysTrue(p)
  <2>1. CASE p = q
    BY <1>2, <2>1
  <2>2. CASE p # q
    BY <1>2, <2>2, Alone
  <2> QED BY <2>1, <2>2
<1>3. \A p \in Query : writer'[p].subs \subseteq writer[p].subs
  OBVIOUS
<1> QED BY <1>1, <1>2, <1>3, NoCall

(* Before its record is live nobody follows a turn. *)
LEMMA BeginRecordServes ==
    ASSUME IInv, Served, NEW q \in Query, BeginRecord(q)
    PROVE  Served'
PROOF
<1>1. disk \in [Query -> Record] /\ writer \in [Query -> Writer] /\ writer[q] \in Writer
  BY DEF IInv, Types
<1>2. /\ disk' = [disk EXCEPT ![q].state = "running"] /\ writer' = [writer EXCEPT ![q].pump = "beginning"]
      /\ writer[q].pump = "none" /\ live' = live /\ phase' = phase /\ obs' = obs /\ givenUp' = givenUp
  BY DEF BeginRecord
<1>3. \A p \in Query : p # q => writer'[p] = writer[p] /\ disk'[p] = disk[p]
  BY <1>1, <1>2
<1>4. writer'[q].subs = writer[q].subs
  <2>1. PICK w : w = [writer[q] EXCEPT !.pump = "beginning"]
    OBVIOUS
  <2>2. writer' = [writer EXCEPT ![q] = w]
    BY <1>2, <2>1
  <2> QED BY <1>1, <2>1, <2>2 DEF Writer
<1> QED BY <1>2, <1>3, <1>4, TurnStep

(* A failed append changes no segment that was written whole. *)
LEMMA AppendFailsServes ==
    ASSUME IInv, Served, NEW q \in Query, AppendFails(q)
    PROVE  Served'
PROOF
<1>1. disk \in [Query -> Record] /\ writer \in [Query -> Writer] /\ writer[q] \in Writer /\ disk[q] \in Record
  BY DEF IInv, Types
<1>2. /\ writer' = [writer EXCEPT ![q].stuck = TRUE]
      /\ live' = live /\ phase' = phase /\ obs' = obs /\ givenUp' = givenUp
      /\ writer[q].pump = "running"
  BY DEF AppendFails
<1>3. PICK torn \in BOOLEAN : disk' = [disk EXCEPT ![q].torn = torn]
  BY DEF AppendFails
<1>4. PICK w, d : w = [writer[q] EXCEPT !.stuck = TRUE] /\ d = [disk[q] EXCEPT !.torn = torn]
  OBVIOUS
<1>5. /\ w.next = writer[q].next /\ w.earliest = writer[q].earliest /\ w.pump = writer[q].pump
      /\ w.finished = writer[q].finished /\ w.state = writer[q].state /\ w.subs = writer[q].subs
      /\ d.segs = disk[q].segs
  BY <1>1, <1>4 DEF Writer, Record
<1>6. /\ writer' = [writer EXCEPT ![q] = w] /\ disk' = [disk EXCEPT ![q] = d]
  BY <1>2, <1>3, <1>4
<1>7. /\ writer'[q] = w /\ disk'[q] = d
      /\ \A p \in Query : p # q => writer'[p] = writer[p] /\ disk'[p] = disk[p]
  BY <1>1, <1>6
<1>8. StaysTrue(q)
  BY <1>2, <1>5, <1>7 DEF StaysTrue
<1> QED BY <1>2, <1>5, <1>7, <1>8, TurnStep

LEMMA BeginWriterServes ==
    ASSUME IInv, Served, NEW q \in Query, BeginWriter(q)
    PROVE  Served'
PROOF
<1>1. /\ disk \in [Query -> Record] /\ writer \in [Query -> Writer] /\ writer[q] \in Writer
      /\ writer[q].pump = "beginning" /\ Types /\ \A o \in Observer : Following(o)
  BY DEF IInv, Types, BeginWriter
<1>2. /\ phase' = phase /\ obs' = obs /\ givenUp \subseteq givenUp'
      /\ \A p \in Query : p # q => /\ writer'[p] = writer[p] /\ disk'[p] = disk[p]
                                   /\ (p \in live' <=> p \in live)
      /\ writer'[q].subs = writer[q].subs
  <2>1. CASE /\ disk' = [disk EXCEPT ![q].segs = <<[base |-> 0, count |-> 0]>>]
             /\ writer' = [writer EXCEPT ![q] =
                   [@ EXCEPT !.finished = FALSE, !.state = "running", !.pump = "running"]]
             /\ live' = live \cup {q} /\ givenUp' = givenUp
    <3>1. PICK w : w = [writer[q] EXCEPT !.finished = FALSE, !.state = "running", !.pump = "running"]
      OBVIOUS
    <3>2. w.subs = writer[q].subs
      BY <1>1, <3>1 DEF Writer
    <3>3. writer' = [writer EXCEPT ![q] = w]
      BY <2>1, <3>1
    <3> QED BY <1>1, <2>1, <3>2, <3>3 DEF BeginWriter
  <2>2. CASE /\ disk' = [disk EXCEPT ![q] = NoRecord] /\ writer' = [writer EXCEPT ![q].pump = "done"]
             /\ givenUp' = givenUp \cup {q} /\ live' = live
    <3>1. PICK w : w = [writer[q] EXCEPT !.pump = "done"]
      OBVIOUS
    <3>2. w.subs = writer[q].subs
      BY <1>1, <3>1 DEF Writer
    <3>3. writer' = [writer EXCEPT ![q] = w]
      BY <2>2, <3>1
    <3> QED BY <1>1, <2>2, <3>2, <3>3 DEF BeginWriter
  <2> QED BY <2>1, <2>2 DEF BeginWriter
<1>3. ASSUME NEW p \in Query, writer[p].pump \in {"running", "ending", "done"} PROVE StaysTrue(p)
  <2>1. p # q
    BY <1>1, <1>3
  <2> QED BY <1>2, <1>3, <2>1, Alone
<1>4. \A p \in Query : writer'[p].subs \subseteq writer[p].subs
  BY <1>2
<1> QED BY <1>1, <1>2, <1>3, <1>4, NoCall

(* The end of a turn is saved before anyone is told of it. *)
LEMMA FinishServes ==
    ASSUME IInv, Served, NEW q \in Query, NEW outcome \in Terminal, Finish(q, outcome)
    PROVE  Served'
PROOF
<1>1. /\ disk \in [Query -> Record] /\ writer \in [Query -> Writer] /\ writer[q] \in Writer /\ disk[q] \in Record
      /\ PumpAgrees(q)
  BY DEF IInv, Types
<1>2. /\ live' = live /\ phase' = phase /\ obs' = obs /\ givenUp' = givenUp
      /\ writer[q].pump = "running"
  BY DEF Finish
<1>3. q \in live
  BY <1>1, <1>2 DEF PumpAgrees
<1>4. PICK pump \in {"ending", "done"} :
         /\ writer' = [writer EXCEPT ![q] = [@ EXCEPT !.finished = TRUE, !.state = outcome, !.pump = pump]]
         /\ disk' \in {disk, [disk EXCEPT ![q] = [@ EXCEPT !.state = outcome, !.since = Now,
                            !.earliest = writer[q].earliest, !.next = writer[q].next]]}
  BY DEF Finish
<1>5. PICK w : w = [writer[q] EXCEPT !.finished = TRUE, !.state = outcome, !.pump = pump]
  OBVIOUS
<1>6. /\ w.next = writer[q].next /\ w.earliest = writer[q].earliest /\ w.pump = pump
      /\ w.finished /\ w.state = outcome /\ w.subs = writer[q].subs
  BY <1>1, <1>4, <1>5 DEF Writer
<1>7. disk'[q].segs = disk[q].segs /\ \A p \in Query : p # q => disk'[p] = disk[p]
  <2>1. PICK d : d = [disk[q] EXCEPT !.state = outcome, !.since = Now,
                            !.earliest = writer[q].earliest, !.next = writer[q].next]
    OBVIOUS
  <2>2. d.segs = disk[q].segs
    BY <1>1, <2>1 DEF Record
  <2>3. disk' = disk \/ disk' = [disk EXCEPT ![q] = d]
    BY <1>4, <2>1
  <2> QED BY <1>1, <2>2, <2>3
<1>8. /\ writer'[q] = w
      /\ \A p \in Query : p # q => writer'[p] = writer[p]
  BY <1>1, <1>4, <1>5
<1>9. StaysTrue(q)
  BY <1>2, <1>3, <1>6, <1>7, <1>8 DEF StaysTrue, Over
<1> QED BY <1>2, <1>6, <1>7, <1>8, <1>9, TurnStep

(* A record that leaves the live table has told its subscribers. *)
LEMMA SettleRecordServes ==
    ASSUME IInv, Served, NEW q \in Query, SettleRecord(q)
    PROVE  Served'
PROOF
<1>1. writer \in [Query -> Writer] /\ writer[q] \in Writer
  BY DEF IInv, Types
<1>2. /\ disk' = disk /\ live' = live \ {q} /\ phase' = phase /\ obs' = obs /\ givenUp' = givenUp
      /\ writer' = [writer EXCEPT ![q].pump = "done"] /\ writer[q].pump = "ending"
  BY DEF SettleRecord
<1>3. PICK w : w = [writer[q] EXCEPT !.pump = "done"]
  OBVIOUS
<1>4. /\ w.next = writer[q].next /\ w.earliest = writer[q].earliest /\ w.pump = "done"
      /\ w.finished = writer[q].finished /\ w.state = writer[q].state /\ w.subs = writer[q].subs
  BY <1>1, <1>3 DEF Writer
<1>5. writer' = [writer EXCEPT ![q] = w]
  BY <1>2, <1>3
<1>6. writer'[q] = w /\ \A p \in Query : p # q => writer'[p] = writer[p]
  BY <1>1, <1>5
<1>7. StaysTrue(q)
  BY <1>2, <1>4, <1>6 DEF StaysTrue, Over
<1> QED BY <1>2, <1>4, <1>6, <1>7, TurnStep

(* Retention and the end of serving: no writer is touched. *)
LEMMA WritersRest ==
    ASSUME IInv, Served, obs' = obs, writer' = writer, live' = live, phase # "down" => phase' # "down",
           givenUp \subseteq givenUp',
           \A q \in Query : q \notin givenUp' => disk'[q].segs = disk[q].segs
    PROVE  Served'
PROOF
<1>1. Types /\ \A o \in Observer : Following(o)
  BY DEF IInv
<1>2. ASSUME NEW q \in Query, writer[q].pump \in {"running", "ending", "done"} PROVE StaysTrue(q)
  BY <1>2, Alone
<1> QED BY <1>1, <1>2, NoCall

(* Retention gives a record up before it takes a file of it. *)
LEMMA RetentionServes ==
    ASSUME IInv, Served,
           (\E q \in Query : Retain(q)) \/ RunGC \/ Stop \/ UNCHANGED vars
    PROVE  Served'
PROOF
<1>1. CASE \E q \in Query : Age(q)
  BY <1>1, WritersRest DEF Age
<1>2. CASE \E q \in Query : ForgetRecord(q)
  BY <1>2, WritersRest DEF ForgetRecord
<1>3. CASE \E q \in Query : RemoveFile(q)
  <2>1. PICK q \in Query : RemoveFile(q)
    BY <1>3
  <2>2. /\ writer' = writer /\ live' = live /\ phase' = phase /\ obs' = obs /\ givenUp' = givenUp
        /\ gc # <<>> /\ q = Head(gc) /\ q \notin Range(settled)
    BY <2>1 DEF RemoveFile
  <2>3. q \in givenUp
    <3>1. gc \in Seq(Query) /\ Swept
      BY DEF IInv, Types
    <3>2. 1 \in DOMAIN gc /\ gc[1] = q
      BY <2>2, <3>1
    <3> QED BY <2>2, <3>1, <3>2 DEF Swept
  <2>4. \A p \in Query : p # q => disk'[p] = disk[p]
    <3>1. disk \in [Query -> Record]
      BY DEF IInv, Types
    <3>2. CASE disk' = disk
      BY <3>2
    <3>3. CASE \E i \in DOMAIN disk[q].segs : disk' = [disk EXCEPT ![q].segs = RemoveAt(@, i)]
      BY <3>1, <3>3
    <3>4. CASE disk' = [disk EXCEPT ![q].state = "unreadable"]
      BY <3>1, <3>4
    <3>5. CASE disk' = [disk EXCEPT ![q] = NoRecord]
      BY <3>1, <3>5
    <3> QED BY <2>1, <3>2, <3>3, <3>4, <3>5 DEF RemoveFile
  <2>5. \A p \in Query : p \notin givenUp' => disk'[p].segs = disk[p].segs
    BY <2>2, <2>3, <2>4
  <2> QED BY <2>2, <2>5, WritersRest
<1>4. CASE RunGC
  <2>1. /\ disk' = disk /\ writer' = writer /\ live' = live /\ phase' = phase /\ obs' = obs /\ givenUp' = givenUp
    BY <1>4 DEF RunGC
  <2> QED BY <2>1, WritersRest
<1>5. CASE Stop
  <2>1. /\ disk' = disk /\ writer' = writer /\ live' = live /\ phase' = "stopping" /\ obs' = obs /\ givenUp' = givenUp
    BY <1>5 DEF Stop
  <2> QED BY <2>1, WritersRest
<1>6. CASE UNCHANGED vars
  BY <1>6, WritersRest DEF vars
<1> QED BY <1>1, <1>2, <1>3, <1>4, <1>5, <1>6 DEF Retain

(* No call outlives the process, and none is served until the records are read. *)
LEMMA ExitServes == ASSUME Exit PROVE Served'
PROOF
<1>1. /\ writer' = [q \in Query |-> IF writer[q].pump = "none" THEN NoWriter
                                    ELSE [NoWriter EXCEPT !.pump = "done"]]
      /\ obs' = [o \in Observer |-> Idle]
  BY DEF Exit
<1>2. \A q \in Query : writer'[q].subs = {}
  <2>1. NoWriter.subs = {} /\ [NoWriter EXCEPT !.pump = "done"].subs = {}
    BY DEF NoWriter
  <2> QED BY <1>1, <2>1
<1>3. \A o \in Observer : obs'[o] = Idle /\ obs'[o].pc = "idle"
  BY <1>1 DEF Idle
<1> QED BY <1>2, <1>3 DEF Served, Subscribed

LEMMA OpenServes == ASSUME Served, OpenQueryStore PROVE Served'
PROOF
<1>1. phase = "down" /\ writer' = writer /\ obs' = obs
  BY DEF OpenQueryStore
<1>2. \A o \in Observer : obs[o].pc = "idle"
  BY <1>1 DEF Served
<1>3. Subscribed'
  BY <1>1 DEF Served, Subscribed
<1> QED BY <1>1, <1>2, <1>3 DEF Served

-----------------------------------------------------------------------------
(* A step of one call *)

(* Two states of a writer that differ in its subscribers at most *)
SameWriter(w, v) ==
    /\ v.next = w.next /\ v.earliest = w.earliest /\ v.pump = w.pump
    /\ v.finished = w.finished /\ v.state = w.state

(* Nobody but o becomes a subscriber, and o only to follow c. *)
SubscribesOnly(o, c) ==
    \A q \in Query : /\ SameWriter(writer[q], writer'[q])
                     /\ writer'[q].subs \ {o} \subseteq writer[q].subs
                     /\ o \in writer'[q].subs => c.pc \in Active /\ c.query = q /\ c.sub = "open"

(* A step of the call of o, from what is true of the call that it leaves *)
LEMMA CallServes ==
    ASSUME IInv, Served, NEW o \in Observer, NEW c, obs' = [obs EXCEPT ![o] = c], Rest,
           SubscribesOnly(o, c),
           c.pc = "idle" => c = Idle,
           c.pc # "idle" => phase # "down" /\ c.query \in Query /\ Told(c)
    PROVE  Served'
PROOF
<1>0. \A q \in Query : /\ SameWriter(writer[q], writer'[q])
                       /\ writer'[q].subs \ {o} \subseteq writer[q].subs
                       /\ o \in writer'[q].subs => c.pc \in Active /\ c.query = q /\ c.sub = "open"
  BY DEF SubscribesOnly
<1>1. /\ obs'[o] = c /\ \A p \in Observer : p # o => obs'[p] = obs[p]
  BY DEF IInv, Types
<1>2. disk' = disk /\ live' = live /\ phase' = phase /\ givenUp' = givenUp
  BY DEF Rest
<1>3. ASSUME NEW q \in Query, writer[q].pump \in {"running", "ending", "done"} PROVE StaysTrue(q)
  BY <1>0, <1>2, <1>3 DEF StaysTrue, SameWriter
<1>4. Subscribed'
  <2>1. ASSUME NEW q \in Query, NEW p \in writer'[q].subs
        PROVE  obs'[p].pc \in Active /\ obs'[p].query = q /\ obs'[p].sub = "open"
    <3>1. CASE p = o
      BY <1>0, <1>1, <2>1, <3>1
    <3>2. CASE p # o
      <4>1. p \in writer[q].subs
        BY <1>0, <2>1, <3>2
      <4>2. obs[p].pc \in Active /\ obs[p].query = q /\ obs[p].sub = "open"
        BY <4>1 DEF Served, Subscribed
      <4>3. p \in Observer
        <5>1. writer[q] \in Writer
          BY DEF IInv, Types
        <5> QED BY <4>1, <5>1 DEF Writer
      <4> QED BY <1>1, <3>2, <4>2, <4>3
    <3> QED BY <3>1, <3>2
  <2> QED BY <2>1 DEF Subscribed
<1>5. ASSUME NEW p \in Observer, p # o
      PROVE  /\ obs'[p].pc = "idle" => obs'[p] = Idle
             /\ obs'[p].pc # "idle" => phase' # "down" /\ ToldAfter(obs'[p])
  <2>1. obs'[p] = obs[p]
    BY <1>1, <1>5
  <2>2. CASE obs[p].pc = "idle"
    BY <2>1, <2>2 DEF Served
  <2>3. CASE obs[p].pc # "idle"
    <3>1. phase # "down" /\ Told(obs[p])
      BY <2>3 DEF Served
    <3>2. obs[p].query \in Query
      BY <2>3 DEF IInv, Following
    <3>3. writer[obs[p].query].pump \in {"running", "ending", "done"}
      BY <3>1 DEF Told, Standing
    <3>4. ToldAfter(obs[p])
      BY <1>3, <3>1, <3>2, <3>3, ToldStill
    <3> QED BY <1>2, <2>1, <2>3, <3>1, <3>4
  <2> QED BY <2>2, <2>3
<1>6. /\ c.pc = "idle" => c = Idle
      /\ c.pc # "idle" => phase' # "down" /\ ToldAfter(c)
  <2>1. ASSUME c.pc # "idle" PROVE ToldAfter(c)
    <3>1. Told(c) /\ c.query \in Query
      BY <2>1
    <3>2. writer[c.query].pump \in {"running", "ending", "done"}
      BY <3>1 DEF Told, Standing
    <3> QED BY <1>3, <3>1, <3>2, ToldStill
  <2> QED BY <1>2, <2>1
<1>7. ASSUME NEW p \in Observer
      PROVE  /\ obs'[p].pc = "idle" => obs'[p] = Idle
             /\ obs'[p].pc # "idle" => phase' # "down" /\ Told(obs[p])'
  <2>1. /\ obs'[p].pc = "idle" => obs'[p] = Idle
        /\ obs'[p].pc # "idle" => phase' # "down" /\ ToldAfter(obs'[p])
    <3>1. CASE p = o
      BY <1>1, <1>6, <3>1
    <3>2. CASE p # o
      BY <1>5, <3>2
    <3> QED BY <3>1, <3>2
  <2>2. ToldAfter(obs'[p]) => Told(obs[p])'
    BY DEF Told, ToldAfter
  <2> QED BY <2>1, <2>2
<1> QED BY <1>4, <1>7 DEF Served

(* What is known of a call *)
LEMMA CallIs ==
    ASSUME IInv, Served, NEW o \in Observer, obs[o].pc # "idle"
    PROVE  LET q == obs[o].query IN
           /\ q \in Query /\ obs[o] \in Call /\ phase # "down" /\ Told(obs[o])
           /\ disk[q] \in Record /\ disk[q].segs \in Segments /\ writer[q] \in Writer
           /\ writer[q].next \in Nat /\ writer[q].earliest \in Nat
           /\ PumpAgrees(q) /\ Kept(q)
PROOF
<1>1. PICK q : q = obs[o].query
  OBVIOUS
<1>2. q \in Query /\ obs[o] \in Call
  BY <1>1 DEF IInv, Types, Following
<1>3. disk[q] \in Record /\ writer[q] \in Writer /\ PumpAgrees(q) /\ Kept(q)
  BY <1>2 DEF IInv, Types
<1>4. disk[q].segs \in Segments /\ writer[q].next \in Nat /\ writer[q].earliest \in Nat
  BY <1>3 DEF Record, Writer
<1>5. phase # "down" /\ Told(obs[o])
  BY DEF Served
<1> QED BY <1>1, <1>2, <1>3, <1>4, <1>5

(* A caller that leaves is no subscriber, and changes nothing else. *)
LEMMA AfterLeaving ==
    ASSUME IInv, Served, NEW o \in Observer, Leave(o)
    PROVE  \A q \in Query : /\ SameWriter(writer[q], writer'[q])
                            /\ writer'[q].subs \ {o} \subseteq writer[q].subs
                            /\ o \notin writer'[q].subs
PROOF
<1>1. writer \in [Query -> Writer]
  BY DEF IInv, Types
<1>2. CASE obs[o].sub # "open"
  <2>1. writer' = writer
    BY <1>2 DEF Leave
  <2> QED BY <1>2, <2>1 DEF Served, Subscribed, SameWriter
<1>3. CASE obs[o].sub = "open"
  <2>1. PICK q : q = obs[o].query
    OBVIOUS
  <2>2. writer' = [writer EXCEPT ![q].subs = @ \ {o}]
    BY <1>3, <2>1 DEF Leave
  <2>3. ASSUME NEW p \in Query
        PROVE  /\ SameWriter(writer[p], writer'[p])
               /\ writer'[p].subs \ {o} \subseteq writer[p].subs
               /\ o \notin writer'[p].subs
    <3>1. CASE p = q
      <4>1. PICK w : w = [writer[q] EXCEPT !.subs = @ \ {o}]
        OBVIOUS
      <4>2. SameWriter(writer[q], w) /\ w.subs = writer[q].subs \ {o}
        BY <1>1, <3>1, <4>1 DEF Writer, SameWriter
      <4>3. writer'[q] = w
        BY <1>1, <2>2, <3>1, <4>1
      <4> QED BY <3>1, <4>2, <4>3
    <3>2. CASE p # q
      <4>1. writer'[p] = writer[p]
        BY <1>1, <2>2, <3>2
      <4>2. o \notin writer[p].subs
        BY <2>1, <3>2 DEF Served, Subscribed
      <4> QED BY <4>1, <4>2 DEF SameWriter
    <3> QED BY <3>1, <3>2
  <2> QED BY <2>3
<1> QED BY <1>2, <1>3

(* One that has no subscription may stay. *)
LEMMA Stayed ==
    ASSUME IInv, Served, NEW o \in Observer, Stay,
           obs[o].pc \notin Active \/ obs[o].sub # "open"
    PROVE  \A q \in Query : /\ SameWriter(writer[q], writer'[q])
                            /\ writer'[q].subs \ {o} \subseteq writer[q].subs
                            /\ o \notin writer'[q].subs
  BY DEF Stay, Served, Subscribed, SameWriter

(* A call ends: with what it may say of a record that is kept. *)
MayEnd(o, how) ==
    LET q == obs[o].query IN
    /\ how = "lag" => obs[o].at < writer[q].next
    /\ q \notin givenUp =>
          /\ how \in {"settled", "error"} => writer[q].pump \in Over /\ obs[o].at = EndOf(disk[q].segs)
          /\ how # "notfound"
          /\ how \in {"pruned", "internal"} => StartOf(disk[q].segs) > 0

(* A call may end with what MayEnd allows. *)
LEMMA EndServes ==
    ASSUME IInv, Served, NEW o \in Observer, obs[o].pc # "idle",
           NEW how \in {"sequence", "pruned", "limit", "notfound", "internal", "settled", "error",
                        "lag", "shutdown"},
           obs' = [obs EXCEPT ![o] = Ended(o, how)], Rest,
           Leave(o) \/ (Stay /\ (obs[o].pc \notin Active \/ obs[o].sub # "open")), MayEnd(o, how)
    PROVE  Served'
PROOF
<1>1. PICK c, q, w : c = Ended(o, how) /\ q = obs[o].query /\ w = writer[q]
  OBVIOUS
<1>2. Types
  BY DEF IInv
<1>3. /\ c \in Call /\ c.pc = "ended" /\ c.end = how
      /\ \A f \in {"query", "at", "to", "snap", "list", "buf", "sub", "lags", "whole"} : c[f] = obs[o][f]
  BY <1>1, <1>2, EndedIs
<1>4. c.query = q /\ c.at = obs[o].at /\ c.whole = obs[o].whole
  BY <1>1, <1>3
<1>5. q \in Query /\ phase # "down" /\ Told(obs[o])
  BY <1>1, CallIs
<1>6. Standing(obs[o], w) /\ (q \notin givenUp => Right(obs[o], disk[q].segs, w))
  BY <1>1, <1>5 DEF Told
<1>7. /\ how = "lag" => c.at < w.next
      /\ q \notin givenUp =>
          /\ how \in {"settled", "error"} => w.pump \in Over /\ c.at = EndOf(disk[q].segs)
          /\ how # "notfound"
          /\ how \in {"pruned", "internal"} => StartOf(disk[q].segs) > 0
  BY <1>1, <1>4 DEF MayEnd
<1>8. Standing(c, w)
  BY <1>3, <1>6, <1>7 DEF Standing
<1>9. Buffered(c, w, q \in live)
  BY <1>3 DEF Buffered, Active
<1>10. q \notin givenUp => Right(c, disk[q].segs, w)
  <2>1. q \notin givenUp => c.whole
    BY <1>4, <1>6 DEF Right
  <2> QED BY <1>3, <1>7, <2>1 DEF Right, Active
<1>11. Told(c)
  BY <1>1, <1>4, <1>8, <1>9, <1>10 DEF Told
<1>12. obs' = [obs EXCEPT ![o] = c]
  BY <1>1
<1>13. \A p \in Query : /\ SameWriter(writer[p], writer'[p])
                        /\ writer'[p].subs \ {o} \subseteq writer[p].subs
                        /\ o \notin writer'[p].subs
  BY AfterLeaving, Stayed
<1> QED BY <1>3, <1>4, <1>5, <1>11, <1>12, <1>13, CallServes DEF SubscribesOnly

(* A call goes on. *)
LEMMA GoesServes ==
    ASSUME IInv, Served, NEW o \in Observer, NEW c, obs' = [obs EXCEPT ![o] = c], Rest, Stay,
           obs[o].pc \in Active, c.pc \in Active, c.query = obs[o].query, c.sub = obs[o].sub,
           LET q == c.query IN
              /\ Standing(c, writer[q]) /\ Buffered(c, writer[q], q \in live)
              /\ q \notin givenUp => Right(c, disk[q].segs, writer[q])
    PROVE  Served'
PROOF
<1>1. c.query \in Query /\ phase # "down"
  BY CallIs DEF Active
<1>2. Told(c)
  BY DEF Told
<1>3. \A q \in Query : /\ SameWriter(writer[q], writer'[q])
                       /\ writer'[q].subs \ {o} \subseteq writer[q].subs
                       /\ o \in writer'[q].subs => c.pc \in Active /\ c.query = q /\ c.sub = "open"
  BY DEF Stay, SameWriter, Served, Subscribed
<1>4. c.pc # "idle"
  BY DEF Active
<1> QED BY <1>1, <1>2, <1>3, <1>4, CallServes DEF SubscribesOnly

(* A directory that is gone was given up; one that is there lists every segment. *)
LEMMA ListSegmentsServes ==
    ASSUME IInv, Served, NEW o \in Observer, ListSegments(o)
    PROVE  Served'
PROOF
<1>1. PICK q, w, segs : q = obs[o].query /\ w = writer[q] /\ segs = disk[q].segs
  OBVIOUS
<1>2. obs[o].pc = "listing" /\ obs[o].pc \in Active /\ obs[o].pc # "idle"
  BY DEF ListSegments, Active
<1>3. /\ q \in Query /\ obs[o] \in Call /\ phase # "down" /\ Told(obs[o])
      /\ disk[q] \in Record /\ segs \in Segments /\ PumpAgrees(q) /\ Kept(q)
  BY <1>1, <1>2, CallIs
<1>4. /\ Standing(obs[o], w) /\ Buffered(obs[o], w, q \in live)
      /\ (q \notin givenUp => Right(obs[o], segs, w))
  BY <1>1, <1>3 DEF Told
<1>5. Rest
  BY DEF ListSegments, Serving, Rest
<1>6. CASE disk[q] = NoRecord
  <2>1. PICK how \in {"notfound", "internal"} : Leave(o) /\ obs' = [obs EXCEPT ![o] = Ended(o, how)]
    BY <1>1, <1>6 DEF ListSegments
  <2>2. q \in givenUp
    <3>1. w.pump \in {"running", "ending", "done"}
      BY <1>4 DEF Standing
    <3>2. disk[q].state = "absent"
      BY <1>6 DEF NoRecord
    <3>3. w.pump \notin {"running", "ending"}
      BY <1>1, <1>3, <3>2 DEF PumpAgrees, Terminal
    <3> QED BY <1>1, <1>3, <3>1, <3>2, <3>3 DEF Kept
  <2>3. MayEnd(o, how)
    BY <1>1, <2>2 DEF MayEnd
  <2> QED BY <1>2, <1>5, <2>1, <2>3, EndServes
<1>7. CASE disk[q] # NoRecord
  <2>1. PICK list : list = [i \in DOMAIN segs |-> segs[i].base]
    OBVIOUS
  <2>2. list \in Seq(Nat)
    <3>1. PICK n \in Nat : DOMAIN segs = 1..n /\ \A i \in 1..n : segs[i].base \in Nat
      BY <1>3, SegmentsAre
    <3>2. list \in [1..n -> Nat]
      BY <2>1, <3>1
    <3> QED BY <3>1, <3>2, SeqDef
  <2>3. PICK c : c = [obs[o] EXCEPT !.pc = "listed", !.list = list]
    OBVIOUS
  <2>4. /\ c \in Call /\ c.query = q /\ c.sub = obs[o].sub /\ c.pc = "listed" /\ c.list = list
        /\ c.at = obs[o].at /\ c.to = obs[o].to /\ c.snap = obs[o].snap /\ c.buf = obs[o].buf
        /\ c.lags = obs[o].lags /\ c.end = obs[o].end /\ c.whole = obs[o].whole
    BY <1>1, <1>3, <2>2, <2>3 DEF Call, Active
  <2>5. Stay /\ obs' = [obs EXCEPT ![o].pc = "listed", ![o].list = list]
    BY <1>1, <1>7, <2>1 DEF ListSegments
  <2>6. obs' = [obs EXCEPT ![o] = c]
    BY <2>3, <2>5
  <2>7. Standing(c, w)
    BY <1>2, <1>4, <2>4 DEF Standing
  <2>8. From(c) = From(obs[o])
    BY <1>2, <2>4 DEF From
  <2>9. Buffered(c, w, q \in live)
    BY <1>2, <1>4, <2>4, <2>8 DEF Buffered, Active
  <2>10. ASSUME q \notin givenUp PROVE Right(c, segs, w)
    <3>1. Right(obs[o], segs, w)
      BY <1>4, <2>10
    <3>2. c.at < c.to /\ c.to <= EndOf(segs)
      BY <1>2, <2>4, <3>1 DEF Right, Active
    <3>3. Contiguous(segs) /\ Positive(segs)
      BY <1>1, <1>3, <2>10 DEF Kept
    <3>4. Reads(c, segs)
      BY <1>3, <2>1, <2>4, <3>2, <3>3, ListingReads
    <3> QED BY <1>2, <2>4, <2>8, <3>1, <3>4 DEF Right, Active
  <2>11. c.pc \in Active
    BY <2>4 DEF Active
  <2> QED BY <1>1, <1>2, <1>5, <2>4, <2>5, <2>6, <2>7, <2>9, <2>10, <2>11, GoesServes
<1> QED BY <1>6, <1>7

(* A file that is gone by the time it is asked for was pruned. *)
LEMMA StatSegmentsServes ==
    ASSUME IInv, Served, NEW o \in Observer, StatSegments(o)
    PROVE  Served'
PROOF
<1>1. PICK q, w, segs, list : /\ q = obs[o].query /\ w = writer[q] /\ segs = disk[q].segs
                              /\ list = obs[o].list
  OBVIOUS
<1>2. obs[o].pc = "listed" /\ obs[o].pc \in Active /\ obs[o].pc # "idle"
  BY DEF StatSegments, Active
<1>3. /\ q \in Query /\ obs[o] \in Call /\ phase # "down" /\ Told(obs[o])
      /\ segs \in Segments
  BY <1>1, <1>2, CallIs
<1>4. /\ Standing(obs[o], w) /\ Buffered(obs[o], w, q \in live)
      /\ (q \notin givenUp => Right(obs[o], segs, w))
  BY <1>1, <1>3 DEF Told
<1>5. Rest
  BY DEF StatSegments, Serving, Rest
<1>6. CASE Vanished(o)
  <2>1. Leave(o) /\ obs' = [obs EXCEPT ![o] = Ended(o, "internal")]
    BY <1>6 DEF StatSegments
  <2>2. PICK k \in DOMAIN list : Opened(q, list[k]) = {}
    BY <1>1, <1>6 DEF Vanished
  <2>3. ASSUME q \notin givenUp PROVE StartOf(segs) > 0
    <3>1. Reads(obs[o], segs)
      BY <1>2, <1>4, <2>3 DEF Right
    <3>2. ~ \E i \in DOMAIN segs : segs[i].base = list[k]
      BY <1>1, <2>2 DEF Opened
    <3>3. list[k] < StartOf(segs)
      BY <1>1, <3>1, <3>2 DEF Reads
    <3>4. list[k] \in Nat /\ StartOf(segs) \in Nat
      <4>1. list \in Seq(Nat)
        BY <1>1, <1>3 DEF Call
      <4> QED BY <1>3, <4>1, Ends
    <3> QED BY <3>3, <3>4
  <2>4. MayEnd(o, "internal")
    BY <1>1, <2>3 DEF MayEnd
  <2> QED BY <1>2, <1>5, <2>1, <2>4, EndServes
<1>7. CASE ~Vanished(o)
  <2>1. Stay /\ obs' = [obs EXCEPT ![o].pc = "reading"]
    BY <1>7 DEF StatSegments
  <2>2. PICK c : c = [obs[o] EXCEPT !.pc = "reading"]
    OBVIOUS
  <2>3. /\ c \in Call /\ c.query = q /\ c.sub = obs[o].sub /\ c.pc = "reading" /\ c.list = list
        /\ c.at = obs[o].at /\ c.to = obs[o].to /\ c.snap = obs[o].snap /\ c.buf = obs[o].buf
        /\ c.lags = obs[o].lags /\ c.end = obs[o].end /\ c.whole = obs[o].whole
    BY <1>1, <1>3, <2>2 DEF Call, Active
  <2>4. obs' = [obs EXCEPT ![o] = c]
    BY <2>1, <2>2
  <2>5. Standing(c, w)
    BY <1>2, <1>4, <2>3 DEF Standing
  <2>6. From(c) = From(obs[o])
    BY <1>2, <2>3 DEF From
  <2>7. Buffered(c, w, q \in live)
    BY <1>2, <1>4, <2>3, <2>6 DEF Buffered, Active
  <2>8. ASSUME q \notin givenUp PROVE Right(c, segs, w)
    <3>1. Right(obs[o], segs, w)
      BY <1>4, <2>8
    <3>2. Reads(c, segs)
      <4>1. Reads(obs[o], segs)
        BY <1>2, <3>1 DEF Right
      <4> QED BY <1>1, <2>3, <4>1, ReadsAlike
    <3> QED BY <1>2, <2>3, <2>6, <3>1, <3>2 DEF Right, Active
  <2>9. c.pc \in Active
    BY <2>3 DEF Active
  <2> QED BY <1>1, <1>2, <1>5, <2>1, <2>3, <2>4, <2>5, <2>7, <2>8, <2>9, GoesServes
<1> QED BY <1>6, <1>7

(* After the replay a call ends with the outcome, or goes on with its subscription. *)
LEMMA ReplayedServes ==
    ASSUME IInv, Served, NEW o \in Observer, Replayed(o)
    PROVE  Served'
PROOF
<1>1. PICK q, w, segs : q = obs[o].query /\ w = writer[q] /\ segs = disk[q].segs
  OBVIOUS
<1>2. obs[o].pc = "replayed" /\ obs[o].pc \in Active /\ obs[o].pc # "idle"
  BY DEF Replayed, Active
<1>3. /\ q \in Query /\ obs[o] \in Call /\ phase # "down" /\ Told(obs[o])
      /\ disk[q] \in Record /\ segs \in Segments
  BY <1>1, <1>2, CallIs
<1>4. /\ Standing(obs[o], w) /\ Buffered(obs[o], w, q \in live)
      /\ (q \notin givenUp => Right(obs[o], segs, w))
  BY <1>1, <1>3 DEF Told
<1>5. Rest /\ Stay
  BY DEF Replayed, Serving, Rest
<1>6. CASE obs[o].sub = "none"
  <2>1. PICK how : how = EndOfTurn(obs[o].snap)
    OBVIOUS
  <2>2. how \in {"settled", "error"} /\ obs' = [obs EXCEPT ![o] = Ended(o, how)]
    BY <1>6, <2>1 DEF Replayed, EndOfTurn
  <2>3. w.pump \in Over
    BY <1>2, <1>4, <1>6 DEF Buffered
  <2>4. q \notin givenUp => obs[o].at = EndOf(segs)
    BY <1>2, <1>4, <1>6 DEF Right
  <2>5. MayEnd(o, how)
    BY <1>1, <2>2, <2>3, <2>4 DEF MayEnd
  <2> QED BY <1>2, <1>5, <1>6, <2>2, <2>5, EndServes
<1>7. CASE obs[o].sub # "none"
  <2>1. PICK c : c = [obs[o] EXCEPT !.pc = "live", !.at = obs[o].to, !.whole = obs[o].at = obs[o].to]
    OBVIOUS
  <2>2. /\ c.query = q /\ c.sub = obs[o].sub /\ c.pc = "live"
        /\ c.at = obs[o].to /\ c.to = obs[o].to /\ c.snap = obs[o].snap /\ c.buf = obs[o].buf
        /\ c.lags = obs[o].lags /\ c.end = obs[o].end /\ (obs[o].at = obs[o].to => c.whole)
    BY <1>1, <1>3, <2>1 DEF Call
  <2>3. obs' = [obs EXCEPT ![o] = c]
    BY <1>7, <2>1 DEF Replayed
  <2>4. Standing(c, w)
    BY <1>2, <1>4, <2>2 DEF Standing
  <2>5. From(c) = From(obs[o])
    BY <1>2, <2>2 DEF From
  <2>6. Buffered(c, w, q \in live)
    BY <1>2, <1>4, <1>7, <2>2, <2>5 DEF Buffered, Active
  <2>7. ASSUME q \notin givenUp PROVE Right(c, segs, w)
    <3>1. Right(obs[o], segs, w)
      BY <1>4, <2>7
    <3>2. c.whole
      BY <1>2, <2>2, <3>1 DEF Right
    <3> QED BY <1>2, <1>7, <2>2, <2>5, <3>1, <3>2 DEF Right, Active
  <2>8. c.pc \in Active
    BY <2>2 DEF Active
  <2> QED BY <1>1, <1>2, <1>5, <2>2, <2>3, <2>4, <2>6, <2>7, <2>8, GoesServes
<1> QED BY <1>6, <1>7

(* The frame received is the next one. *)
LEMMA ReceiveFrameServes ==
    ASSUME IInv, Served, NEW o \in Observer, ReceiveFrame(o)
    PROVE  Served'
PROOF
<1>1. PICK q, w, segs, at, buf : /\ q = obs[o].query /\ w = writer[q] /\ segs = disk[q].segs
                                 /\ at = obs[o].at /\ buf = obs[o].buf
  OBVIOUS
<1>2. obs[o].pc = "live" /\ obs[o].pc \in Active /\ obs[o].pc # "idle" /\ buf # <<>>
  BY <1>1 DEF ReceiveFrame, Active
<1>3. /\ q \in Query /\ obs[o] \in Call /\ phase # "down" /\ Told(obs[o])
      /\ writer[q].next \in Nat
  BY <1>1, <1>2, CallIs
<1>4. /\ Standing(obs[o], w) /\ Buffered(obs[o], w, q \in live)
      /\ (q \notin givenUp => Right(obs[o], segs, w))
  BY <1>1, <1>3 DEF Told
<1>5. Rest /\ Stay
  BY DEF ReceiveFrame, Serving, Rest
<1>6. /\ at \in Nat /\ buf \in Seq(Nat) /\ Len(buf) \in Nat /\ Len(buf) > 0 /\ DOMAIN buf = 1..Len(buf)
      /\ Head(buf) = buf[1]
  BY <1>1, <1>2, <1>3 DEF Call
<1>7. From(obs[o]) = at /\ \A i \in DOMAIN buf : buf[i] = at + i - 1
  BY <1>1, <1>2, <1>4 DEF Buffered, From
<1>8. Head(buf) = at
  BY <1>6, <1>7
<1>9. PICK rest : rest = Tail(buf)
  OBVIOUS
<1>10. /\ rest \in Seq(Nat) /\ Len(rest) = Len(buf) - 1 /\ DOMAIN rest = 1..Len(rest)
       /\ \A i \in DOMAIN rest : rest[i] = buf[i + 1]
  BY <1>2, <1>6, <1>9
<1>11. PICK c : c = [obs[o] EXCEPT !.whole = obs[o].whole /\ Head(buf) = at, !.at = Head(buf) + 1, !.buf = rest]
  OBVIOUS
<1>12. /\ c.query = q /\ c.sub = obs[o].sub /\ c.pc = "live"
       /\ c.at = at + 1 /\ c.to = obs[o].to /\ c.snap = obs[o].snap /\ c.buf = rest
       /\ c.lags = obs[o].lags /\ c.end = obs[o].end
  BY <1>1, <1>2, <1>3, <1>8, <1>11 DEF Call
<1>13. obs[o].whole => c.whole
  <2>1. c.whole = (obs[o].whole /\ Head(buf) = at)
    BY <1>3, <1>11 DEF Call
  <2> QED BY <1>8, <2>1
<1>14. obs' = [obs EXCEPT ![o] = c]
  <2>1. obs' = [obs EXCEPT ![o] = [obs[o] EXCEPT
                    !.whole = obs[o].whole /\ Head(obs[o].buf) = obs[o].at,
                    !.at = Head(obs[o].buf) + 1, !.buf = Tail(obs[o].buf)]]
    BY DEF ReceiveFrame
  <2> QED BY <1>1, <1>9, <1>11, <2>1, Zenon
<1>15. Standing(c, w)
  BY <1>2, <1>4, <1>12 DEF Standing
<1>16. From(c) + Len(c.buf) = From(obs[o]) + Len(obs[o].buf)
  <2>1. PICK n, m : n = Len(buf) /\ m = Len(rest)
    OBVIOUS
  <2>2. n \in Nat /\ at \in Nat /\ m = n - 1
    BY <1>6, <1>10, <2>1
  <2>3. (at + 1) + m = at + n
    BY <2>2
  <2>4. From(c) = at + 1 /\ Len(c.buf) = m /\ Len(obs[o].buf) = n
    BY <1>1, <1>12, <2>1 DEF From
  <2> QED BY <1>7, <2>3, <2>4
<1>17. Buffered(c, w, q \in live)
  <2>1. From(c) = at + 1
    BY <1>12 DEF From
  <2>2. ASSUME NEW i \in DOMAIN c.buf PROVE c.buf[i] = From(c) + i - 1
    <3>1. i \in 1..Len(rest) /\ i + 1 \in DOMAIN buf /\ c.buf[i] = buf[i + 1]
      <4>1. c.buf = rest /\ i \in DOMAIN rest
        BY <1>12
      <4> QED BY <1>6, <1>10, <4>1
    <3>2. buf[i + 1] = at + (i + 1) - 1
      BY <1>7, <3>1
    <3> QED BY <1>6, <2>1, <3>1, <3>2
  <2>3. From(c) + Len(c.buf) = From(obs[o]) + Len(obs[o].buf)
    BY <1>16
  <2>4. /\ obs[o].sub # "none"
        /\ obs[o].sub = "open" => From(c) + Len(c.buf) = w.next
        /\ (obs[o].sub = "closed" /\ obs[o].lags) => From(c) + Len(c.buf) < w.next
        /\ (obs[o].sub = "closed" /\ ~obs[o].lags) => w.pump \in Over /\ (q \in live => w.pump = "ending")
        /\ obs[o].lags => obs[o].sub = "closed"
    BY <1>2, <1>4, <2>3 DEF Buffered
  <2> QED BY <1>12, <2>2, <2>4 DEF Buffered
<1>18. ASSUME q \notin givenUp PROVE Right(c, segs, w)
  <2>1. Right(obs[o], segs, w)
    BY <1>4, <1>18
  <2>2. From(c) + Len(c.buf) = From(obs[o]) + Len(obs[o].buf)
    BY <1>16
  <2>3. obs[o].sub # "none"
    BY <1>2, <1>4 DEF Buffered
  <2>4. c.whole
    BY <1>13, <2>1 DEF Right
  <2>5. (obs[o].sub = "closed" /\ ~obs[o].lags) => From(c) + Len(c.buf) = EndOf(segs)
    BY <1>2, <2>1, <2>2 DEF Right
  <2>6. c.end = "none"
    BY <1>2, <1>4, <1>12 DEF Standing
  <2> QED BY <1>12, <2>3, <2>4, <2>5, <2>6 DEF Right
<1>19. c.pc \in Active
  BY <1>12 DEF Active
<1> QED BY <1>1, <1>2, <1>5, <1>12, <1>14, <1>15, <1>17, <1>18, <1>19, GoesServes

(* A drained subscription that was closed has lagged, or the record has ended. *)
LEMMA SubscriptionEndsServes ==
    ASSUME IInv, Served, NEW o \in Observer, SubscriptionEnds(o)
    PROVE  Served'
PROOF
<1>1. PICK q, w, segs : q = obs[o].query /\ w = writer[q] /\ segs = disk[q].segs
  OBVIOUS
<1>2. /\ obs[o].pc = "live" /\ obs[o].pc \in Active /\ obs[o].pc # "idle"
      /\ obs[o].buf = <<>> /\ obs[o].sub = "closed"
  BY DEF SubscriptionEnds, Active
<1>3. /\ q \in Query /\ obs[o] \in Call /\ phase # "down" /\ Told(obs[o])
      /\ PumpAgrees(q) /\ Kept(q)
  BY <1>1, <1>2, CallIs
<1>4. /\ Standing(obs[o], w) /\ Buffered(obs[o], w, q \in live)
      /\ (q \notin givenUp => Right(obs[o], segs, w))
  BY <1>1, <1>3 DEF Told
<1>5. Rest /\ Stay
  BY DEF SubscriptionEnds, Serving, Rest
<1>6. From(obs[o]) + Len(obs[o].buf) = obs[o].at
  <2>1. obs[o].at \in Nat /\ Len(obs[o].buf) = 0
    BY <1>2, <1>3 DEF Call
  <2> QED BY <1>2, <2>1 DEF From
<1>7. PICK state : state = IF q \in live THEN writer[q].state ELSE disk[q].state
  OBVIOUS
<1>8. obs' = [obs EXCEPT ![o] = Ended(o,
              IF obs[o].lags THEN "lag"
              ELSE IF state \in Terminal THEN EndOfTurn(state) ELSE "notfound")]
  BY <1>1, <1>7 DEF SubscriptionEnds
<1>9. CASE obs[o].lags
  <2>1. obs[o].at < w.next
    BY <1>2, <1>4, <1>6, <1>9 DEF Buffered
  <2>2. MayEnd(o, "lag")
    BY <1>1, <2>1 DEF MayEnd
  <2>3. obs' = [obs EXCEPT ![o] = Ended(o, "lag")]
    BY <1>8, <1>9
  <2> QED BY <1>2, <1>5, <2>2, <2>3, EndServes
<1>10. CASE ~obs[o].lags
  <2>1. w.pump \in Over /\ (q \in live => w.pump = "ending")
    BY <1>2, <1>4, <1>10 DEF Buffered
  <2>2. q \notin givenUp => obs[o].at = EndOf(segs)
    BY <1>2, <1>4, <1>6, <1>10 DEF Right
  <2>3. q \notin givenUp => state \in Terminal
    <3>1. CASE q \in live
      <4>1. writer[q].pump = "ending"
        BY <1>1, <2>1, <3>1
      <4>2. writer[q].finished
        BY <1>3, <4>1 DEF PumpAgrees
      <4>3. writer[q].state \in Terminal
        BY <1>3, <3>1, <4>2 DEF PumpAgrees
      <4> QED BY <1>7, <3>1, <4>3
    <3>2. CASE q \notin live
      <4>1. writer[q].pump # "ending"
        BY <1>3, <3>2 DEF PumpAgrees
      <4>2. writer[q].pump = "done"
        BY <1>1, <2>1, <4>1 DEF Over
      <4> QED BY <1>3, <1>7, <3>2, <4>2 DEF Kept
    <3> QED BY <3>1, <3>2
  <2>4. PICK how : how = IF state \in Terminal THEN EndOfTurn(state) ELSE "notfound"
    OBVIOUS
  <2>5. how \in {"settled", "error", "notfound"} /\ (q \notin givenUp => how \in {"settled", "error"})
    BY <2>3, <2>4 DEF EndOfTurn
  <2>6. MayEnd(o, how)
    BY <1>1, <2>1, <2>2, <2>5 DEF MayEnd
  <2>7. obs' = [obs EXCEPT ![o] = Ended(o, how)] /\ obs[o].sub # "open"
    BY <1>2, <1>8, <1>10, <2>4
  <2> QED BY <1>2, <1>5, <2>5, <2>6, <2>7, EndServes
<1> QED BY <1>9, <1>10

(* A call that is interrupted may end at any time. *)
LEMMA InterruptedServes ==
    ASSUME IInv, Served, NEW o \in Observer, Interrupted(o)
    PROVE  Served'
PROOF
<1>1. Rest /\ Leave(o)
  BY DEF Interrupted, Serving, Rest
<1>2. CASE obs[o].pc = "live" /\ obs' = [obs EXCEPT ![o] = Ended(o, "shutdown")]
  <2>1. MayEnd(o, "shutdown")
    BY DEF MayEnd
  <2> QED BY <1>1, <1>2, <2>1, EndServes
<1>3. CASE obs' = [obs EXCEPT ![o] = Idle]
  <2>1. \A q \in Query : /\ SameWriter(writer[q], writer'[q])
                         /\ writer'[q].subs \ {o} \subseteq writer[q].subs
                         /\ o \notin writer'[q].subs
    BY <1>1, AfterLeaving
  <2>2. Idle.pc = "idle"
    BY DEF Idle
  <2>3. PICK c : c = Idle
    OBVIOUS
  <2> QED BY <1>1, <1>3, <2>1, <2>2, <2>3, CallServes DEF SubscribesOnly
<1> QED BY <1>2, <1>3 DEF Interrupted

LEMMA ObserveAgainServes ==
    ASSUME IInv, Served, NEW o \in Observer, ObserveAgain(o)
    PROVE  Served'
PROOF
<1>1. Rest /\ Stay /\ obs' = [obs EXCEPT ![o] = Idle] /\ obs[o].pc \notin Active
  BY DEF ObserveAgain, Serving, Rest, Active
<1>2. \A q \in Query : /\ SameWriter(writer[q], writer'[q])
                       /\ writer'[q].subs \ {o} \subseteq writer[q].subs
                       /\ o \notin writer'[q].subs
  BY <1>1, Stayed
<1>3. Idle.pc = "idle"
  BY DEF Idle
<1>4. PICK c : c = Idle
  OBVIOUS
<1> QED BY <1>1, <1>2, <1>3, <1>4, CallServes DEF SubscribesOnly

(* A segment was read: the listing is one shorter. *)
ReadOne(d, c, segs, i) ==
    /\ c \in Call /\ d \in Call /\ Reads(c, segs) /\ c.list # <<>> /\ c.at <= c.to
    /\ i \in DOMAIN segs /\ segs[i].base = c.list[1]
    /\ d.to = c.to /\ d.list = Tail(c.list)
    /\ d.at = Max({c.at, Min({c.list[1] + segs[i].count, c.to})})
LEMMA ReadsRest ==
    ASSUME NEW segs \in Segments, NEW c, NEW d, NEW i, ReadOne(d, c, segs, i)
    PROVE  Reads(d, segs) /\ d.at <= d.to
PROOF
<1>0. /\ c \in Call /\ d \in Call /\ Reads(c, segs) /\ c.list # <<>> /\ c.at <= c.to
      /\ i \in DOMAIN segs /\ segs[i].base = c.list[1]
      /\ d.to = c.to /\ d.list = Tail(c.list)
      /\ d.at = Max({c.at, Min({c.list[1] + segs[i].count, c.to})})
  BY DEF ReadOne
<1>1. PICK at, to, list, m, e : /\ at = c.at /\ to = c.to /\ list = c.list
                                /\ m = c.list[1] + segs[i].count /\ e = Min({m, to})
  OBVIOUS
<1>2. at \in Nat /\ to \in Nat /\ list \in Seq(Nat) /\ at <= to /\ list # <<>>
  BY <1>0, <1>1 DEF Call
<1>3. segs[i].base \in Nat /\ segs[i].count \in Nat
  BY <1>0, SegmentsAre
<1>4. /\ Len(list) \in Nat /\ Len(list) >= 1 /\ DOMAIN list = 1..Len(list) /\ list[1] \in Nat
      /\ 1 \in DOMAIN list
  BY <1>2
<1>5. m \in Nat /\ m = segs[i].base + segs[i].count
  BY <1>0, <1>1, <1>3, <1>4
<1>6. e \in Nat /\ e <= m /\ e <= to /\ e \in {m, to}
  BY <1>1, <1>2, <1>5, PairMin, Zenon
<1>7. d.at = Max({at, e})
  BY <1>0, <1>1, Zenon
<1>8. d.at \in Nat /\ d.at >= at /\ d.at >= e /\ d.at \in {at, e}
  BY <1>2, <1>6, <1>7, PairMax, Zenon
<1>9. d.at <= to
  BY <1>2, <1>6, <1>8
<1>10. PICK rest : rest = Tail(list)
  OBVIOUS
<1>11. /\ rest \in Seq(Nat) /\ Len(rest) = Len(list) - 1 /\ DOMAIN rest = 1..Len(rest)
       /\ \A k \in DOMAIN rest : rest[k] = list[k + 1] /\ k + 1 \in DOMAIN list
       /\ d.list = rest
  <2>1. /\ rest \in Seq(Nat) /\ Len(rest) = Len(list) - 1 /\ DOMAIN rest = 1..Len(rest)
        /\ \A k \in DOMAIN rest : rest[k] = list[k + 1]
    BY <1>2, <1>10
  <2>2. \A k \in DOMAIN rest : k + 1 \in DOMAIN list
    BY <1>4, <2>1
  <2> QED BY <1>0, <1>1, <1>10, <2>1, <2>2
<1>12. \A k \in DOMAIN list :
          /\ list[k] < EndOf(segs)
          /\ list[k] < StartOf(segs) \/ \E j \in DOMAIN segs : segs[j].base = list[k]
          /\ \A j \in DOMAIN segs : segs[j].base = list[k] =>
                IF k < Len(list) THEN segs[j].base + segs[j].count = list[k + 1]
                ELSE segs[j].base + segs[j].count >= to
  BY <1>0, <1>1, Zenon DEF Reads
<1>13. IF 1 < Len(list) THEN m = list[2] ELSE m >= to
  <2>1. IF 1 < Len(list) THEN segs[i].base + segs[i].count = list[1 + 1]
        ELSE segs[i].base + segs[i].count >= to
    BY <1>0, <1>1, <1>4, <1>12
  <2> QED BY <1>5, <2>1
<1>14. rest = <<>> => d.at = to
  <2>1. ASSUME rest = <<>> PROVE d.at = to
    <3>1. ~(1 < Len(list))
      <4>1. PICK n : n = Len(list)
        OBVIOUS
      <4>2. Len(rest) = 0
        BY <2>1
      <4>3. n \in Nat /\ Len(rest) = n - 1
        BY <1>4, <1>11, <4>1
      <4>4. n = 1
        BY <4>2, <4>3
      <4> QED BY <4>1, <4>4
    <3>2. m >= to
      BY <1>13, <3>1
    <3>3. e = to
      BY <1>2, <1>5, <1>6, <3>2
    <3> QED BY <1>2, <1>8, <1>9, <3>3
  <2> QED BY <2>1
<1>15. rest # <<>> => rest[1] <= d.at \/ d.at = to
  <2>1. ASSUME rest # <<>> PROVE rest[1] <= d.at \/ d.at = to
    <3>1. 1 < Len(list) /\ rest[1] = list[2]
      <4>1. Len(rest) # 0 /\ Len(rest) \in Nat
        BY <1>11, <2>1
      <4>2. 1 \in DOMAIN rest
        BY <1>11, <4>1
      <4>3. rest[1] = list[1 + 1]
        BY <1>11, <4>2
      <4> QED BY <1>4, <1>11, <4>1, <4>3
    <3>2. rest[1] = m
      BY <1>13, <3>1
    <3> QED BY <1>2, <1>5, <1>6, <1>8, <1>9, <3>2
  <2> QED BY <2>1
<1>16. ASSUME NEW k \in DOMAIN rest
       PROVE  /\ rest[k] < EndOf(segs)
              /\ rest[k] < StartOf(segs) \/ \E j \in DOMAIN segs : segs[j].base = rest[k]
              /\ \A j \in DOMAIN segs : segs[j].base = rest[k] =>
                    IF k < Len(rest) THEN segs[j].base + segs[j].count = rest[k + 1]
                    ELSE segs[j].base + segs[j].count >= to
  <2>1. k + 1 \in DOMAIN list /\ rest[k] = list[k + 1] /\ k \in Nat
    BY <1>11
  <2>2. /\ list[k + 1] < EndOf(segs)
        /\ list[k + 1] < StartOf(segs) \/ \E j \in DOMAIN segs : segs[j].base = list[k + 1]
    BY <1>12, <2>1
  <2>3. ASSUME NEW j \in DOMAIN segs, segs[j].base = rest[k]
        PROVE  IF k < Len(rest) THEN segs[j].base + segs[j].count = rest[k + 1]
               ELSE segs[j].base + segs[j].count >= to
    <3>1. IF k + 1 < Len(list) THEN segs[j].base + segs[j].count = list[(k + 1) + 1]
          ELSE segs[j].base + segs[j].count >= to
      BY <1>12, <2>1, <2>3
    <3>2. k + 1 < Len(list) <=> k < Len(rest)
      BY <1>4, <1>11, <2>1
    <3>3. k < Len(rest) => rest[k + 1] = list[(k + 1) + 1]
      <4>1. ASSUME k < Len(rest) PROVE k + 1 \in DOMAIN rest
        BY <1>4, <1>11, <4>1
      <4> QED BY <1>11, <4>1
    <3> QED BY <3>1, <3>2, <3>3
  <2> QED BY <2>1, <2>2, <2>3
<1>17. d.list = rest /\ d.to = to
  BY <1>0, <1>1, <1>11
<1> QED BY <1>9, <1>14, <1>15, <1>16, <1>17, Zenon DEF Reads

(* A file that is gone, or begins too late, was pruned. *)
LEMMA ReadSegmentServes ==
    ASSUME IInv, Served, NEW o \in Observer, ReadSegment(o)
    PROVE  Served'
PROOF
<1>1. PICK q, w, segs, at, list : /\ q = obs[o].query /\ w = writer[q] /\ segs = disk[q].segs
                                  /\ at = obs[o].at /\ list = obs[o].list
  OBVIOUS
<1>2. obs[o].pc = "reading" /\ obs[o].pc \in Active /\ obs[o].pc # "idle"
  BY DEF ReadSegment, Active
<1>3. /\ q \in Query /\ obs[o] \in Call /\ phase # "down" /\ Told(obs[o])
      /\ segs \in Segments
  BY <1>1, <1>2, CallIs
<1>4. /\ Standing(obs[o], w) /\ Buffered(obs[o], w, q \in live)
      /\ (q \notin givenUp => Right(obs[o], segs, w))
  BY <1>1, <1>3 DEF Told
<1>5. Rest
  BY DEF ReadSegment, Serving, Rest
<1>6. at \in Nat /\ list \in Seq(Nat) /\ obs[o].to \in Nat
  BY <1>1, <1>3 DEF Call
<1>7. q \notin givenUp => Reads(obs[o], segs) /\ at <= obs[o].to
  BY <1>1, <1>2, <1>4 DEF Right
<1>8. CASE at >= obs[o].to \/ list = <<>>
  <2>1. Stay /\ obs' = [obs EXCEPT ![o].pc = "replayed", ![o].list = <<>>]
    BY <1>1, <1>8 DEF ReadSegment
  <2>2. PICK c : c = [obs[o] EXCEPT !.pc = "replayed", !.list = <<>>]
    OBVIOUS
  <2>3. /\ c.query = q /\ c.sub = obs[o].sub /\ c.pc = "replayed"
        /\ c.at = at /\ c.to = obs[o].to /\ c.snap = obs[o].snap /\ c.buf = obs[o].buf
        /\ c.lags = obs[o].lags /\ c.end = obs[o].end /\ c.whole = obs[o].whole
    BY <1>1, <1>3, <2>2 DEF Call
  <2>4. obs' = [obs EXCEPT ![o] = c]
    BY <2>1, <2>2
  <2>5. From(c) = From(obs[o])
    BY <1>2, <2>3 DEF From
  <2>6. Standing(c, w)
    BY <1>2, <1>4, <2>3 DEF Standing
  <2>7. Buffered(c, w, q \in live)
    BY <1>2, <1>4, <2>3, <2>5 DEF Buffered, Active
  <2>8. ASSUME q \notin givenUp PROVE Right(c, segs, w)
    <3>1. Right(obs[o], segs, w)
      BY <1>4, <2>8
    <3>2. at = obs[o].to
      <4>1. list = <<>> => at = obs[o].to
        BY <1>1, <1>7, <2>8 DEF Reads
      <4> QED BY <1>6, <1>7, <1>8, <2>8, <4>1
    <3> QED BY <1>1, <1>2, <2>3, <2>5, <3>1, <3>2 DEF Right, Active
  <2>9. c.pc \in Active
    BY <2>3 DEF Active
  <2> QED BY <1>1, <1>2, <1>5, <2>1, <2>3, <2>4, <2>6, <2>7, <2>8, <2>9, GoesServes
<1>9. CASE ~(at >= obs[o].to \/ list = <<>>) /\ (Head(list) > at \/ Opened(q, Head(list)) = {})
  <2>1. Leave(o) /\ obs' = [obs EXCEPT ![o] = Ended(o, "pruned")]
    BY <1>1, <1>9 DEF ReadSegment
  <2>2. ASSUME q \notin givenUp PROVE StartOf(segs) > 0
    <3>1. Head(list) = list[1] /\ 1 \in DOMAIN list /\ list[1] \in Nat
      BY <1>6, <1>9
    <3>2. /\ list[1] <= at \/ at = obs[o].to \/ StartOf(segs) > 0
          /\ list[1] < StartOf(segs) \/ \E i \in DOMAIN segs : segs[i].base = list[1]
      BY <1>1, <1>7, <1>9, <2>2, <3>1 DEF Reads
    <3>3. StartOf(segs) \in Nat
      BY <1>3, Ends
    <3>4. CASE Head(list) > at
      BY <1>6, <1>9, <3>1, <3>2, <3>4
    <3>5. CASE Opened(q, Head(list)) = {}
      <4>1. ~ \E i \in DOMAIN segs : segs[i].base = list[1]
        BY <1>1, <3>1, <3>5 DEF Opened
      <4> QED BY <3>1, <3>2, <3>3, <4>1
    <3> QED BY <1>9, <3>4, <3>5
  <2>3. MayEnd(o, "pruned")
    BY <1>1, <2>2 DEF MayEnd
  <2> QED BY <1>2, <1>5, <2>1, <2>3, EndServes
<1>10. CASE ~(at >= obs[o].to \/ list = <<>>) /\ ~(Head(list) > at \/ Opened(q, Head(list)) = {})
  <2>1. Stay /\ \E i \in Opened(q, Head(list)) :
            obs' = [obs EXCEPT ![o] = [obs[o] EXCEPT !.list = Tail(obs[o].list),
                        !.at = Max({at, Min({Head(list) + disk[q].segs[i].count, obs[o].to})})]]
    BY <1>1, <1>10 DEF ReadSegment
  <2>2. PICK i \in Opened(q, Head(list)) :
            obs' = [obs EXCEPT ![o] = [obs[o] EXCEPT !.list = Tail(obs[o].list),
                        !.at = Max({at, Min({Head(list) + disk[q].segs[i].count, obs[o].to})})]]
    BY <2>1
  <2>3. PICK to, tail : to = Max({at, Min({Head(list) + disk[q].segs[i].count, obs[o].to})})
                        /\ tail = Tail(list)
    OBVIOUS
  <2>4. tail \in Seq(Nat) /\ Head(list) \in Nat /\ Head(list) = list[1]
    BY <1>6, <1>10, <2>3
  <2>5. i \in DOMAIN segs /\ segs[i].base = list[1] /\ segs[i].count \in Nat
    <3>1. i \in DOMAIN segs /\ segs[i].base = list[1]
      BY <1>1, <2>4 DEF Opened
    <3> QED BY <1>3, <3>1, SegmentsAre
  <2>6. to \in Nat
    <3>1. PICK h, e : h = Head(list) + disk[q].segs[i].count /\ e = Min({h, obs[o].to})
      OBVIOUS
    <3>2. h \in Nat
      <4>1. PICK a, b : a = Head(list) /\ b = segs[i].count
        OBVIOUS
      <4>2. a \in Nat /\ b \in Nat /\ h = a + b
        BY <1>1, <2>4, <2>5, <3>1, <4>1
      <4> QED BY <4>2
    <3>3. e \in Nat
      BY <1>6, <3>1, <3>2, PairMin, Zenon
    <3>4. to = Max({at, e})
      BY <2>3, <3>1, Zenon
    <3> QED BY <1>6, <3>3, <3>4, PairMax, Zenon
  <2>7. PICK c : c = [obs[o] EXCEPT !.list = tail, !.at = to]
    OBVIOUS
  <2>8. /\ c \in Call /\ c.query = q /\ c.sub = obs[o].sub /\ c.pc = "reading" /\ c.list = tail
        /\ c.at = to /\ c.to = obs[o].to /\ c.snap = obs[o].snap /\ c.buf = obs[o].buf
        /\ c.lags = obs[o].lags /\ c.end = obs[o].end /\ c.whole = obs[o].whole
    BY <1>1, <1>2, <1>3, <2>4, <2>6, <2>7 DEF Call
  <2>9. obs' = [obs EXCEPT ![o] = c]
    BY <1>1, <2>2, <2>3, <2>7
  <2>10. From(c) = From(obs[o])
    BY <1>2, <2>8 DEF From
  <2>11. Standing(c, w)
    BY <1>2, <1>4, <2>8 DEF Standing
  <2>12. Buffered(c, w, q \in live)
    BY <1>2, <1>4, <2>8, <2>10 DEF Buffered, Active
  <2>13. ASSUME q \notin givenUp PROVE Right(c, segs, w)
    <3>1. Right(obs[o], segs, w)
      BY <1>4, <2>13
    <3>2. Reads(c, segs) /\ c.at <= c.to
      <4>1. /\ Reads(obs[o], segs) /\ obs[o].list # <<>> /\ obs[o].at <= obs[o].to
            /\ segs[i].base = obs[o].list[1] /\ c.to = obs[o].to /\ c.list = Tail(obs[o].list)
            /\ c.at = Max({obs[o].at, Min({obs[o].list[1] + segs[i].count, obs[o].to})})
        BY <1>1, <1>7, <1>10, <2>3, <2>4, <2>5, <2>8, <2>13
      <4>2. ReadOne(c, obs[o], segs, i)
        BY <1>3, <2>5, <2>8, <4>1, Zenon DEF ReadOne
      <4>3. segs \in Segments
        BY <1>3
      <4> QED BY <4>2, <4>3, ReadsRest
    <3>3. c.end = "none"
      BY <2>8, <2>11 DEF Standing
    <3> QED BY <1>2, <2>8, <2>10, <3>1, <3>2, <3>3 DEF Right, Active
  <2>14. c.pc \in Active
    BY <2>8 DEF Active
  <2> QED BY <1>1, <1>2, <1>5, <2>1, <2>8, <2>9, <2>11, <2>12, <2>13, <2>14, GoesServes
<1> QED BY <1>8, <1>9, <1>10

(* A writer whose subscribers changed, and nothing else *)
LEMMA SubscribersOnly ==
    ASSUME IInv, NEW q \in Query, NEW subs \in SUBSET Observer, writer' = [writer EXCEPT ![q].subs = subs]
    PROVE  /\ writer'[q].subs = subs /\ SameWriter(writer[q], writer'[q])
           /\ \A p \in Query : p # q => writer'[p] = writer[p] /\ SameWriter(writer[p], writer'[p])
PROOF
<1>1. writer \in [Query -> Writer] /\ writer[q] \in Writer
  BY DEF IInv, Types
<1>2. PICK w : w = [writer[q] EXCEPT !.subs = subs]
  OBVIOUS
<1>3. w.subs = subs /\ SameWriter(writer[q], w)
  BY <1>1, <1>2 DEF Writer, SameWriter
<1>4. writer'[q] = w /\ \A p \in Query : p # q => writer'[p] = writer[p]
  BY <1>1, <1>2
<1> QED BY <1>3, <1>4 DEF SameWriter

(* The end is told to a subscriber that holds every frame still to send. *)
LEMMA EndSubscriberServes ==
    ASSUME IInv, Served, NEW q \in Query, NEW o \in Observer, EndSubscriber(q, o)
    PROVE  Served'
PROOF
<1>1. PICK w, segs : w = writer[q] /\ segs = disk[q].segs
  OBVIOUS
<1>2. w.pump = "ending" /\ o \in w.subs
  BY <1>1 DEF EndSubscriber
<1>3. obs[o].pc \in Active /\ obs[o].pc # "idle" /\ obs[o].query = q /\ obs[o].sub = "open"
  BY <1>1, <1>2 DEF Served, Subscribed, Active
<1>4. /\ obs[o] \in Call /\ phase # "down" /\ Told(obs[o]) /\ w \in Writer /\ PumpAgrees(q)
  BY <1>1, <1>3, CallIs
<1>5. q \in live /\ q \notin givenUp /\ w.next = EndOf(segs)
  BY <1>1, <1>2, <1>4 DEF PumpAgrees, Window
<1>6. Standing(obs[o], w) /\ Buffered(obs[o], w, q \in live) /\ Right(obs[o], segs, w)
  BY <1>1, <1>3, <1>4, <1>5 DEF Told
<1>7. PICK c : c = [obs[o] EXCEPT !.sub = "closed"]
  OBVIOUS
<1>8. /\ c.query = q /\ c.sub = "closed" /\ c.pc = obs[o].pc /\ c.list = obs[o].list
      /\ c.at = obs[o].at /\ c.to = obs[o].to /\ c.snap = obs[o].snap /\ c.buf = obs[o].buf
      /\ c.lags = obs[o].lags /\ c.end = obs[o].end /\ c.whole = obs[o].whole
  BY <1>3, <1>4, <1>7 DEF Call
<1>9. obs' = [obs EXCEPT ![o] = c] /\ Rest
  <2>1. obs' = [obs EXCEPT ![o].sub = "closed"]
    BY DEF EndSubscriber
  <2> QED BY <1>7, <2>1 DEF EndSubscriber, Rest
<1>10. From(c) = From(obs[o])
  BY <1>8 DEF From
<1>11. ~c.lags /\ From(c) + Len(c.buf) = w.next
  BY <1>3, <1>6, <1>8, <1>10 DEF Buffered
<1>12. Standing(c, w)
  BY <1>3, <1>6, <1>8 DEF Standing, Active
<1>13. Buffered(c, w, q \in live)
  <2>1. \A i \in DOMAIN c.buf : c.buf[i] = From(c) + i - 1
    BY <1>3, <1>6, <1>8, <1>10 DEF Buffered
  <2> QED BY <1>2, <1>8, <1>11, <2>1 DEF Buffered, Over
<1>14. Right(c, segs, w)
  <2>1. From(c) + Len(c.buf) = EndOf(segs)
    BY <1>5, <1>11
  <2>2. Reads(obs[o], segs) => Reads(c, segs)
    BY <1>8, ReadsAlike
  <2> QED BY <1>3, <1>6, <1>8, <2>1, <2>2 DEF Right, Active
<1>15. Told(c)
  BY <1>1, <1>8, <1>12, <1>13, <1>14 DEF Told
<1>16. PICK subs : subs = w.subs \ {o}
  OBVIOUS
<1>17. subs \in SUBSET Observer /\ writer' = [writer EXCEPT ![q].subs = subs]
  <2>1. writer' = [writer EXCEPT ![q].subs = writer[q].subs \ {o}]
    BY DEF EndSubscriber
  <2> QED BY <1>1, <1>4, <1>16, <2>1 DEF Writer
<1>18. /\ writer'[q].subs = subs /\ SameWriter(writer[q], writer'[q])
       /\ \A p \in Query : p # q => writer'[p] = writer[p] /\ SameWriter(writer[p], writer'[p])
  BY <1>17, SubscribersOnly
<1>19. \A p \in Query : /\ SameWriter(writer[p], writer'[p])
                        /\ writer'[p].subs \ {o} \subseteq writer[p].subs
                        /\ o \in writer'[p].subs => c.pc \in Active /\ c.query = p /\ c.sub = "open"
  <2>1. ASSUME NEW p \in Query
        PROVE  /\ SameWriter(writer[p], writer'[p])
               /\ writer'[p].subs \ {o} \subseteq writer[p].subs
               /\ o \notin writer'[p].subs
    <3>1. CASE p = q
      BY <1>1, <1>16, <1>18, <3>1
    <3>2. CASE p # q
      <4>1. o \notin writer[p].subs
        BY <1>3, <3>2 DEF Served, Subscribed
      <4> QED BY <1>18, <3>2, <4>1
    <3> QED BY <3>1, <3>2
  <2> QED BY <2>1
<1>20. c.pc # "idle"
  BY <1>3, <1>8
<1> QED BY <1>4, <1>8, <1>9, <1>15, <1>19, <1>20, CallServes DEF SubscribesOnly

(* A call of which nothing was sent yet is served up to to. *)
Fresh(call, q) == call.query = q /\ call.buf = <<>> /\ ~call.lags /\ call.whole /\ call.end = "none"
Serveable(q, to, state, sub) ==
    /\ writer[q].pump \in {"running", "ending", "done"} /\ sub \in {"none", "open"}
    /\ sub = "none" => state \in Terminal /\ writer[q].pump \in Over
    /\ sub = "open" => to = writer[q].next
    /\ q \notin givenUp => to = EndOf(disk[q].segs)
LEMMA ReplayTold ==
    ASSUME NEW q, NEW c, NEW call, NEW from \in Nat, NEW to \in Nat, NEW state, NEW sub,
           Replay(c, call, from, to, state, sub), Fresh(call, q), Serveable(q, to, state, sub)
    PROVE  /\ Told(c) /\ c.query = q /\ c.pc # "idle"
           /\ from <= to => c.pc \in Active /\ c.sub = sub
           /\ from > to => c.pc \notin Active
PROOF
<1>1. PICK w, segs : w = writer[q] /\ segs = disk[q].segs
  OBVIOUS
<1>2. /\ w.pump \in {"running", "ending", "done"} /\ sub \in {"none", "open"}
      /\ sub = "none" => state \in Terminal /\ w.pump \in Over
      /\ sub = "open" => to = w.next
      /\ q \notin givenUp => to = EndOf(segs)
  BY <1>1 DEF Serveable
<1>3. c \in Call /\ c.query = q /\ c.buf = <<>> /\ ~c.lags /\ c.whole
  BY DEF Replay, Fresh
<1>4. CASE from > to
  <2>1. c.pc = "ended" /\ c.end = "sequence"
    BY <1>4 DEF Replay
  <2>2. Standing(c, w)
    BY <1>2, <2>1 DEF Standing
  <2>3. Buffered(c, w, q \in live)
    BY <2>1 DEF Buffered, Active
  <2>4. Right(c, segs, w)
    BY <1>3, <2>1 DEF Right, Active
  <2>5. Told(c)
    BY <1>1, <1>3, <2>2, <2>3, <2>4 DEF Told
  <2> QED BY <1>3, <1>4, <2>1, <2>5 DEF Active
<1>5. CASE from <= to
  <2>1. /\ c.pc \in {"listing", "replayed"} /\ c.end = "none" /\ c.at = from /\ c.to = to
        /\ c.snap = state /\ c.sub = sub
        /\ c.pc = IF to > from THEN "listing" ELSE "replayed"
    BY <1>5 DEF Replay, Fresh
  <2>2. c.pc \in Active /\ c.pc \notin {"found", "ended", "live", "listed", "reading", "idle"}
    BY <2>1 DEF Active
  <2>3. Standing(c, w)
    BY <1>2, <2>1, <2>2 DEF Standing
  <2>4. From(c) = to /\ Len(c.buf) = 0 /\ DOMAIN c.buf = {}
    BY <1>3, <2>1, <2>2 DEF From
  <2>5. Buffered(c, w, q \in live)
    <3>1. c.sub = "open" => From(c) + Len(c.buf) = w.next
      BY <1>2, <2>1, <2>4
    <3>2. \A i \in DOMAIN c.buf : c.buf[i] = From(c) + i - 1
      BY <2>4
    <3> QED BY <1>2, <1>3, <2>1, <2>2, <3>1, <3>2 DEF Buffered
  <2>6. ASSUME q \notin givenUp PROVE Right(c, segs, w)
    <3>1. c.to = EndOf(segs) /\ c.at <= c.to /\ c.to <= EndOf(segs)
      BY <1>2, <1>5, <2>1, <2>6
    <3>2. c.pc = "listing" => c.at < c.to
      BY <2>1
    <3>3. c.pc = "replayed" => c.at = c.to
      BY <1>5, <2>1
    <3> QED BY <1>2, <1>3, <2>1, <2>2, <3>1, <3>2, <3>3 DEF Right
  <2>7. Told(c)
    BY <1>1, <1>3, <2>3, <2>5, <2>6 DEF Told
  <2> QED BY <1>3, <1>5, <2>1, <2>2, <2>7
<1> QED BY <1>4, <1>5

(* The record of a new call is live, or its state file has the whole window. *)
LEMMA ObserveQueryServes ==
    ASSUME IInv, Served, NEW o \in Observer, NEW q \in Query, NEW from \in Nat, ObserveQuery(o, q, from)
    PROVE  Served'
PROOF
<1>1. PICK w, d, segs : w = writer[q] /\ d = disk[q] /\ segs = d.segs
  OBVIOUS
<1>2. w \in Writer /\ d \in Record /\ segs \in Segments /\ PumpAgrees(q) /\ Kept(q)
  <2>1. w \in Writer /\ d \in Record /\ PumpAgrees(q) /\ Kept(q)
    BY <1>1 DEF IInv, Types
  <2> QED BY <1>1, <2>1 DEF Record
<1>3. w.pump \in {"running", "ending", "done"} /\ phase # "down"
  BY <1>1, <1>2 DEF ObserveQuery, Writer
<1>4. PICK called : called = [Idle EXCEPT !.query = q, !.at = from]
  OBVIOUS
<1>5. /\ Fresh(called, q) /\ called \in Call /\ called.list = <<>> /\ called.at = from
      /\ called.sub = "none"
  <2>1. Idle \in Call
    BY EmptySeq, Zenon DEF Idle, Call
  <2>2. called \in Call
    BY <1>4, <2>1 DEF Call
  <2>3. Fresh(called, q) /\ called.list = <<>> /\ called.at = from /\ called.sub = "none"
    BY <1>4 DEF Idle, Fresh
  <2> QED BY <2>2, <2>3
<1>6. obs' = [obs EXCEPT ![o] =
             IF q \in live THEN [called EXCEPT !.pc = "found"]
             ELSE IF d.state \notin Terminal
                  THEN [called EXCEPT !.pc = "ended", !.end = "notfound"]
             ELSE Replaying(called, from, d.next, d.state, "none")]
  BY <1>1, <1>4 DEF ObserveQuery
<1>7. Rest /\ Stay /\ obs[o].pc = "idle"
  BY DEF ObserveQuery, Rest, Stay
<1>8. \A p \in Query : /\ SameWriter(writer[p], writer'[p])
                       /\ writer'[p].subs \ {o} \subseteq writer[p].subs
                       /\ o \notin writer'[p].subs
  BY <1>7, Stayed DEF Active
<1>9. CASE q \in live
  <2>1. PICK c : c = [called EXCEPT !.pc = "found"]
    OBVIOUS
  <2>2. /\ c.pc = "found" /\ c.query = q /\ c.buf = <<>> /\ ~c.lags /\ c.whole /\ c.end = "none"
    BY <1>5, <2>1 DEF Call, Fresh
  <2>3. obs' = [obs EXCEPT ![o] = c]
    BY <1>6, <1>9, <2>1
  <2>4. /\ segs # <<>> /\ w.earliest = StartOf(segs) /\ w.next = EndOf(segs)
        /\ w.finished => w.state \in Terminal
    BY <1>1, <1>2, <1>9 DEF PumpAgrees, Window
  <2>5. Standing(c, w)
    BY <1>3, <2>2, <2>4 DEF Standing
  <2>6. Buffered(c, w, q \in live)
    BY <2>2 DEF Buffered, Active
  <2>7. Right(c, segs, w)
    BY <2>2, <2>4 DEF Right, Active
  <2>8. Told(c)
    BY <1>1, <2>2, <2>5, <2>6, <2>7 DEF Told
  <2> QED BY <1>3, <1>7, <1>8, <2>2, <2>3, <2>8, CallServes DEF SubscribesOnly
<1>10. CASE q \notin live /\ d.state \notin Terminal
  <2>1. PICK c : c = [called EXCEPT !.pc = "ended", !.end = "notfound"]
    OBVIOUS
  <2>2. c.pc = "ended" /\ c.query = q /\ c.end = "notfound"
    BY <1>5, <2>1 DEF Call, Fresh
  <2>3. obs' = [obs EXCEPT ![o] = c]
    BY <1>6, <1>10, <2>1
  <2>4. q \in givenUp
    BY <1>1, <1>2, <1>3, <1>10 DEF PumpAgrees, Kept
  <2>5. Standing(c, w)
    BY <1>3, <2>2 DEF Standing
  <2>6. Buffered(c, w, q \in live)
    BY <2>2 DEF Buffered, Active
  <2>7. Told(c)
    BY <1>1, <2>2, <2>4, <2>5, <2>6 DEF Told
  <2> QED BY <1>3, <1>7, <1>8, <2>2, <2>3, <2>7, CallServes DEF SubscribesOnly
<1>11. CASE q \notin live /\ d.state \in Terminal
  <2>1. PICK c : c = Replaying(called, from, d.next, d.state, "none")
    OBVIOUS
  <2>2. d.next \in Nat /\ d.state \in States
    BY <1>2, <1>11 DEF Record, States
  <2>3. Replay(c, called, from, d.next, d.state, "none")
    BY <1>5, <2>1, <2>2, ReplayingIs
  <2>4. obs' = [obs EXCEPT ![o] = c]
    BY <1>6, <1>11, <2>1
  <2>5. q \notin givenUp => d.next = EndOf(segs)
    <3>1. q \notin givenUp => Window(q, d.earliest, d.next)
      BY <1>1, <1>2, <1>11 DEF Kept
    <3>2. EndOf(<<>>) = 0
      BY DEF EndOf
    <3> QED BY <1>1, <3>1, <3>2 DEF Window
  <2>6. w.pump \in Over
    BY <1>1, <1>2, <1>3, <1>11 DEF PumpAgrees, Over
  <2>7. Serveable(q, d.next, d.state, "none")
    BY <1>1, <1>3, <1>11, <2>5, <2>6 DEF Serveable
  <2>8. Told(c) /\ c.query = q /\ c.pc # "idle"
    BY <1>5, <2>2, <2>3, <2>7, ReplayTold
  <2> QED BY <1>3, <1>7, <1>8, <2>4, <2>8, CallServes DEF SubscribesOnly
<1> QED BY <1>9, <1>10, <1>11

(* The window is pinned as the observer is registered. *)
LEMMA AttachWriterServes ==
    ASSUME IInv, Served, NEW o \in Observer, AttachWriter(o)
    PROVE  Served'
PROOF
<1>1. PICK q, w, from, segs : q = obs[o].query /\ w = writer[q] /\ from = obs[o].at /\ segs = disk[q].segs
  OBVIOUS
<1>2. obs[o].pc = "found" /\ obs[o].pc # "idle" /\ obs[o].pc \notin Active
  BY DEF AttachWriter, Active
<1>3. /\ q \in Query /\ obs[o] \in Call /\ phase # "down" /\ Told(obs[o]) /\ segs \in Segments
      /\ w \in Writer /\ w.next \in Nat /\ w.earliest \in Nat /\ PumpAgrees(q)
  BY <1>1, <1>2, CallIs
<1>4. from \in Nat /\ w.state \in States /\ w.subs \in SUBSET Observer
  BY <1>1, <1>3 DEF Call, Writer
<1>5. Standing(obs[o], w) /\ (q \notin givenUp => Right(obs[o], segs, w))
  BY <1>1, <1>3 DEF Told
<1>6. /\ Fresh(obs[o], q) /\ w.pump \in {"running", "ending", "done"}
      /\ w.finished => w.state \in Terminal /\ w.pump \in Over
  <2>1. /\ Fresh(obs[o], q) /\ w.pump \in {"running", "ending", "done"}
        /\ w.finished => w.state \in Terminal
    BY <1>1, <1>2, <1>5 DEF Standing, Fresh
  <2>2. w.finished => w.pump # "running"
    BY <1>1, <1>3 DEF PumpAgrees
  <2> QED BY <2>1, <2>2 DEF Over
<1>7. q \notin givenUp => w.earliest = StartOf(segs) /\ w.next = EndOf(segs)
  BY <1>2, <1>5 DEF Right
<1>8. /\ obs' = [obs EXCEPT ![o] =
              IF from < w.earliest THEN Ended(o, "pruned")
              ELSE IF Registers(o, q) \/ w.finished \/ from > w.next
                   THEN Replaying(obs[o], from, w.next, w.state, IF w.finished THEN "none" ELSE "open")
              ELSE Ended(o, "limit")]
      /\ writer' = IF Registers(o, q) THEN [writer EXCEPT ![q].subs = @ \cup {o}] ELSE writer
      /\ abandoned' = abandoned
  <2>1. /\ obs' = [obs EXCEPT ![o] =
              IF from < w.earliest THEN Ended(o, "pruned")
              ELSE IF Registers(o, q) \/ w.finished \/ from > w.next
                   THEN Replaying(@, from, w.next, w.state, IF w.finished THEN "none" ELSE "open")
              ELSE Ended(o, "limit")]
        /\ writer' = IF Registers(o, q) THEN [writer EXCEPT ![q].subs = @ \cup {o}] ELSE writer
        /\ abandoned' = abandoned
    BY <1>1, Zenon DEF AttachWriter
  <2> QED BY <2>1
<1>9. Rest
  BY DEF AttachWriter, Serving, Rest
<1>10. CASE Registers(o, q)
  <2>1. ~w.finished /\ w.earliest <= from /\ from <= w.next
    BY <1>1, <1>10 DEF Registers
  <2>2. PICK c : c = Replaying(obs[o], from, w.next, w.state, "open")
    OBVIOUS
  <2>3. Replay(c, obs[o], from, w.next, w.state, "open")
    BY <1>3, <1>4, <2>2, ReplayingIs
  <2>4. Serveable(q, w.next, w.state, "open")
    BY <1>1, <1>6, <1>7 DEF Serveable
  <2>5. Told(c) /\ c.query = q /\ c.pc # "idle" /\ c.pc \in Active /\ c.sub = "open"
    BY <1>3, <1>4, <1>6, <2>1, <2>3, <2>4, ReplayTold
  <2>6. obs' = [obs EXCEPT ![o] = c]
    <3>1. ~(from < w.earliest)
      BY <1>3, <1>4, <2>1
    <3> QED BY <1>8, <1>10, <2>1, <2>2, <3>1
  <2>7. PICK subs : subs = w.subs \cup {o}
    OBVIOUS
  <2>8. subs \in SUBSET Observer /\ writer' = [writer EXCEPT ![q].subs = subs]
    BY <1>1, <1>4, <1>8, <1>10, <2>7
  <2>9. /\ writer'[q].subs = subs /\ SameWriter(writer[q], writer'[q])
        /\ \A p \in Query : p # q => writer'[p] = writer[p] /\ SameWriter(writer[p], writer'[p])
    BY <1>3, <2>8, SubscribersOnly
  <2>10. SubscribesOnly(o, c)
    <3>1. ASSUME NEW p \in Query
          PROVE  /\ SameWriter(writer[p], writer'[p])
                 /\ writer'[p].subs \ {o} \subseteq writer[p].subs
                 /\ o \in writer'[p].subs => p = q
      <4>1. CASE p = q
        BY <1>1, <2>7, <2>9, <4>1
      <4>2. CASE p # q
        <5>1. o \notin writer[p].subs
          BY <1>2 DEF Served, Subscribed
        <5> QED BY <2>9, <4>2, <5>1
      <4> QED BY <4>1, <4>2
    <3> QED BY <2>5, <3>1 DEF SubscribesOnly
  <2>11. c.pc # "idle" /\ c.query \in Query /\ Told(c) /\ phase # "down"
    BY <1>3, <2>5
  <2>12. Rest /\ obs' = [obs EXCEPT ![o] = c]
    BY <1>9, <2>6
  <2> QED BY <2>10, <2>11, <2>12, CallServes
<1>11. CASE ~Registers(o, q)
  <2>1. Stay
    BY <1>8, <1>11 DEF Stay
  <2>2. CASE from < w.earliest
    <3>1. obs' = [obs EXCEPT ![o] = Ended(o, "pruned")]
      BY <1>8, <2>2
    <3>2. q \notin givenUp => StartOf(segs) > 0
      BY <1>3, <1>4, <1>7, <2>2
    <3>3. MayEnd(o, "pruned")
      BY <1>1, <3>2 DEF MayEnd
    <3> QED BY <1>2, <1>9, <2>1, <3>1, <3>3, EndServes
  <2>3. CASE ~(from < w.earliest) /\ (w.finished \/ from > w.next)
    <3>1. PICK sub \in {"none", "open"} : sub = IF w.finished THEN "none" ELSE "open"
      OBVIOUS
    <3>2. PICK c : c = Replaying(obs[o], from, w.next, w.state, sub)
      OBVIOUS
    <3>3. Replay(c, obs[o], from, w.next, w.state, sub)
      BY <1>3, <1>4, <3>1, <3>2, ReplayingIs
    <3>4. Serveable(q, w.next, w.state, sub)
      BY <1>1, <1>6, <1>7, <3>1 DEF Serveable
    <3>5. Told(c) /\ c.query = q /\ c.pc # "idle"
      BY <1>3, <1>4, <1>6, <3>3, <3>4, ReplayTold
    <3>6. obs' = [obs EXCEPT ![o] = c]
      BY <1>8, <2>3, <3>1, <3>2
    <3>7. \A p \in Query : /\ SameWriter(writer[p], writer'[p])
                           /\ writer'[p].subs \ {o} \subseteq writer[p].subs
                           /\ o \notin writer'[p].subs
      BY <1>2, <2>1, Stayed
    <3> QED BY <1>3, <1>9, <3>5, <3>6, <3>7, CallServes DEF SubscribesOnly
  <2>4. CASE ~(from < w.earliest) /\ ~(w.finished \/ from > w.next)
    <3>1. obs' = [obs EXCEPT ![o] = Ended(o, "limit")]
      BY <1>8, <1>11, <2>4
    <3>2. MayEnd(o, "limit")
      BY DEF MayEnd
    <3> QED BY <1>2, <1>9, <2>1, <3>1, <3>2, EndServes
  <2> QED BY <2>2, <2>3, <2>4
<1> QED BY <1>10, <1>11

-----------------------------------------------------------------------------
(* A frame is appended *)

(* The record of q grew by one frame: segs became g, of which the cap left s. *)
Grew(q, segs, g, k, s) ==
    /\ segs = disk[q].segs /\ segs \in Segments /\ segs # <<>> /\ Contiguous(segs) /\ Positive(segs)
    /\ OneMore(segs, g) /\ k \in 1..Len(g) /\ Latest(g, k, s) /\ EndOf(s) = EndOf(segs) + 1
    /\ disk'[q].segs = s /\ \A p \in Query : p # q => disk'[p] = disk[p] /\ writer'[p] = writer[p]
    /\ writer[q].pump = "running" /\ writer[q].next = EndOf(segs) /\ EndOf(segs) \in Nat
    /\ writer'[q].next = EndOf(segs) + 1 /\ writer'[q].earliest = StartOf(s)
    /\ writer'[q].pump = "running" /\ ~writer'[q].finished
    /\ writer'[q].subs = {o \in writer[q].subs : ~Full(o)}
    /\ obs' = Published(q, EndOf(segs))
    /\ q \notin givenUp

(* AppendFrame makes the record grow so. *)
LEMMA AppendFrameIs ==
    ASSUME IInv, NEW q \in Query, AppendFrame(q)
    PROVE  \E segs, g, k, s : Grew(q, segs, g, k, s)
PROOF
<1>1. Types /\ PumpAgrees(q) /\ Kept(q)
  BY DEF IInv
<1>2. disk \in [Query -> Record] /\ writer \in [Query -> Writer] /\ disk[q] \in Record /\ writer[q] \in Writer
  BY <1>1 DEF Types
<1>3. writer[q].pump = "running"
  BY DEF AppendFrame
<1>4. /\ q \notin givenUp
      /\ disk[q].segs # <<>> /\ Window(q, writer[q].earliest, writer[q].next) /\ ~writer[q].finished
  BY <1>1, <1>3 DEF PumpAgrees
<1>5. PICK segs, next : segs = disk[q].segs /\ next = writer[q].next
  OBVIOUS
<1>6. /\ segs \in Segments /\ segs # <<>> /\ Contiguous(segs) /\ Positive(segs)
      /\ next = EndOf(segs) /\ next \in Nat
  <2>1. segs \in Segments /\ next \in Nat
    BY <1>2, <1>5 DEF Record, Writer
  <2> QED BY <1>1, <1>4, <1>5, <2>1 DEF Kept, Window
<1>7. PICK g, k, s : /\ g = (LET r == Rotated(segs, EndOf(segs)) IN [r EXCEPT ![Len(r)].count = @ + 1])
                     /\ OneMore(segs, g) /\ k \in 1..Len(g) /\ s = Capped(g) /\ Latest(g, k, s)
  BY <1>6, AppendedSegments
<1>8. s # <<>> /\ EndOf(s) = next + 1 /\ Head(s).base = StartOf(s)
  BY <1>6, <1>7 DEF Latest, OneMore, StartOf
<1>9. PICK subs, e : subs = {o \in writer[q].subs : ~Full(o)} /\ e = Head(s).base
  OBVIOUS
<1>10. PICK d, w : /\ d = [disk[q] EXCEPT !.segs = s]
                   /\ w = [writer[q] EXCEPT !.next = next + 1, !.earliest = e, !.subs = subs]
  OBVIOUS
<1>11. d.segs = s
  BY <1>2, <1>10 DEF Record
<1>12. w.next = next + 1 /\ w.earliest = e /\ w.subs = subs /\ w.pump = "running" /\ ~w.finished
  BY <1>2, <1>3, <1>4, <1>10 DEF Writer
<1>13. disk' = [disk EXCEPT ![q] = d] /\ writer' = [writer EXCEPT ![q] = w] /\ obs' = Published(q, next)
  <2>1. LET n == writer[q].next
            grown == LET segs_1 == Rotated(disk[q].segs, n)
                     IN  [segs_1 EXCEPT ![Len(segs_1)].count = @ + 1]
            kept == Capped(grown)
        IN  /\ disk' = [disk EXCEPT ![q].segs = kept]
            /\ writer' = [writer EXCEPT
                 ![q].next = n + 1, ![q].earliest = Head(kept).base,
                 ![q].subs = {o \in @ : ~Full(o)}]
            /\ obs' = Published(q, n)
    BY DEF AppendFrame
  <2>2. /\ disk' = [disk EXCEPT ![q].segs = s]
        /\ writer' = [writer EXCEPT ![q].next = next + 1, ![q].earliest = e, ![q].subs = subs]
        /\ obs' = Published(q, next)
    BY <1>5, <1>6, <1>7, <1>9, <2>1
  <2>3. /\ disk' = [disk EXCEPT ![q] = d] /\ writer' = [writer EXCEPT ![q] = w]
    BY <1>10, <2>2
  <2> QED BY <2>2, <2>3
<1>14. disk'[q] = d /\ writer'[q] = w /\ \A p \in Query : p # q => disk'[p] = disk[p] /\ writer'[p] = writer[p]
  BY <1>2, <1>13
<1>15. Grew(q, segs, g, k, s)
  BY <1>3, <1>4, <1>5, <1>6, <1>7, <1>8, <1>9, <1>11, <1>12, <1>13, <1>14, Zenon DEF Grew
<1> QED BY <1>15

(* A record starts no earlier after its cap was enforced. *)
LEMMA StartsLater ==
    ASSUME NEW segs \in Segments, segs # <<>>, NEW g, OneMore(segs, g), NEW k \in 1..Len(g),
           NEW s, Latest(g, k, s)
    PROVE  StartOf(s) >= StartOf(segs) /\ StartOf(s) \in Nat /\ StartOf(segs) \in Nat
PROOF
<1>1. /\ g \in Segments /\ g # <<>> /\ Contiguous(g) /\ \A i \in 1..Len(g) : g[i].count > 0
      /\ StartOf(g) = StartOf(segs)
  BY DEF OneMore
<1>2. /\ Len(g) \in Nat /\ \A i \in 1..Len(g) : g[i].base \in Nat /\ g[i].count \in Nat
      /\ StartOf(g) = g[1].base /\ StartOf(segs) \in Nat
  BY <1>1, SegmentsAre, Ends
<1>3. StartOf(s) = g[k].base
  BY DEF Latest
<1>4. CASE k = 1
  BY <1>1, <1>2, <1>3, <1>4
<1>5. CASE k # 1
  <2>1. 1 \in 1..Len(g) /\ 1 < k
    BY <1>2, <1>5
  <2>2. g[1].base + g[1].count <= g[k].base
    BY <1>1, <2>1, Monotone
  <2> QED BY <1>1, <1>2, <1>3, <2>1, <2>2
<1> QED BY <1>4, <1>5

(* What is true of a call stays true when the record grows. *)
SameBut(c, b) ==
    /\ c \in Call /\ b \in Call
    /\ c.query = b.query /\ c.pc = b.pc /\ c.at = b.at /\ c.to = b.to /\ c.list = b.list
    /\ c.snap = b.snap /\ c.whole = b.whole /\ c.end = b.end
LEMMA GrowsRight ==
    ASSUME NEW q, NEW segs, NEW g, NEW k, NEW s, Grew(q, segs, g, k, s), NEW c, NEW b, SameBut(c, b),
           Right(b, segs, writer[q]),
           c.pc \in Active => c.sub = "open" \/ (c.sub = "closed" /\ c.lags)
    PROVE  Right(c, s, writer'[q])
PROOF
<1>1. PICK w, v : w = writer[q] /\ v = writer'[q]
  OBVIOUS
<1>2. /\ segs \in Segments /\ segs # <<>> /\ Contiguous(segs) /\ Positive(segs)
      /\ OneMore(segs, g) /\ k \in 1..Len(g) /\ Latest(g, k, s)
      /\ EndOf(s) = EndOf(segs) + 1 /\ EndOf(segs) \in Nat
      /\ w.pump = "running" /\ v.next = EndOf(s) /\ v.earliest = StartOf(s)
  BY <1>1 DEF Grew
<1>3. /\ c.pc = b.pc /\ c.at = b.at /\ c.to = b.to /\ c.list = b.list /\ c.whole = b.whole /\ c.end = b.end
      /\ c.at \in Nat /\ c.to \in Nat
  BY DEF SameBut, Call
<1>4. s # <<>>
  BY <1>2 DEF Latest
<1>5. StartOf(segs) > 0 => StartOf(s) > 0
  BY <1>2, StartsLater
<1>6. Right(b, segs, w)
  BY <1>1
<1>7. ASSUME c.pc \in Active, c.pc # "live" PROVE c.to <= EndOf(s) /\ c.at <= c.to
  <2>1. c.to <= EndOf(segs) /\ c.at <= c.to
    BY <1>3, <1>6, <1>7 DEF Right
  <2> QED BY <1>2, <1>3, <2>1
<1>8. ASSUME c.pc \in {"listed", "reading"} PROVE Reads(c, s)
  <2>1. Reads(b, segs)
    BY <1>3, <1>6, <1>8 DEF Right
  <2>2. Reads(c, segs)
    BY <1>3, <2>1, ReadsAlike
  <2>3. c \in Call
    BY DEF SameBut
  <2> QED BY <1>2, <2>2, <2>3, ReadsOn
<1>9. c.end \notin {"settled", "error"}
  <2>1. w.pump \notin Over
    BY <1>2 DEF Over
  <2> QED BY <1>3, <1>6, <2>1 DEF Right
<1>10. /\ c.pc = "listing" => c.at < c.to
       /\ c.pc = "replayed" => c.at = c.to
       /\ c.whole /\ c.end # "notfound" /\ (c.end \in {"pruned", "internal"} => StartOf(s) > 0)
  BY <1>3, <1>5, <1>6 DEF Right
<1>11. c.pc \in Active => c.sub # "none" /\ ~(c.sub = "closed" /\ ~c.lags)
  OBVIOUS
<1> QED BY <1>1, <1>2, <1>4, <1>7, <1>8, <1>9, <1>10, <1>11 DEF Right

(* What publishing makes of a call *)
LEMMA PublishedCall ==
    ASSUME Types, NEW q \in Query, NEW n \in Nat, NEW o \in Observer
    PROVE  LET b == obs[o]
               c == Published(q, n)[o] IN
           /\ c \in Call /\ SameBut(c, b)
           /\ o \notin writer[q].subs => c = b
           /\ (o \in writer[q].subs /\ Full(o)) => c.buf = b.buf /\ c.sub = "closed" /\ c.lags
           /\ (o \in writer[q].subs /\ ~Full(o)) =>
                    c.buf = Append(b.buf, n) /\ c.sub = b.sub /\ c.lags = b.lags
PROOF
<1>1. PICK b, c : b = obs[o] /\ c = Published(q, n)[o]
  OBVIOUS
<1>2. b \in Call
  BY <1>1 DEF Types
<1>3. CASE o \notin writer[q].subs
  <2>1. c = b
    BY <1>1, <1>3 DEF Published
  <2>2. SameBut(c, b)
    BY <1>2, <2>1 DEF SameBut
  <2> QED BY <1>1, <1>2, <1>3, <2>1, <2>2
<1>4. CASE o \in writer[q].subs /\ Full(o)
  <2>1. c = [b EXCEPT !.sub = "closed", !.lags = TRUE]
    BY <1>1, <1>4 DEF Published
  <2>2. /\ c \in Call /\ c.buf = b.buf /\ c.sub = "closed" /\ c.lags
        /\ c.query = b.query /\ c.pc = b.pc /\ c.at = b.at /\ c.to = b.to /\ c.list = b.list
        /\ c.snap = b.snap /\ c.whole = b.whole /\ c.end = b.end
    BY <1>2, <2>1 DEF Call
  <2>3. SameBut(c, b)
    BY <1>2, <2>2 DEF SameBut
  <2> QED BY <1>1, <1>4, <2>2, <2>3
<1>5. CASE o \in writer[q].subs /\ ~Full(o)
  <2>1. PICK buf : buf = Append(b.buf, n)
    OBVIOUS
  <2>2. c = [b EXCEPT !.buf = buf]
    BY <1>1, <1>5, <2>1 DEF Published
  <2>3. buf \in Seq(Nat)
    <3>1. b.buf \in Seq(Nat)
      BY <1>2 DEF Call
    <3> QED BY <2>1, <3>1
  <2>4. /\ c \in Call /\ c.buf = buf /\ c.sub = b.sub /\ c.lags = b.lags
        /\ c.query = b.query /\ c.pc = b.pc /\ c.at = b.at /\ c.to = b.to /\ c.list = b.list
        /\ c.snap = b.snap /\ c.whole = b.whole /\ c.end = b.end
    BY <1>2, <2>2, <2>3 DEF Call
  <2>5. SameBut(c, b)
    BY <1>2, <2>4 DEF SameBut
  <2> QED BY <1>1, <1>5, <2>1, <2>4, <2>5
<1> QED BY <1>3, <1>4, <1>5

(* A subscriber is told of the frame, or kicked. *)
LEMMA SubscriberTold ==
    ASSUME NEW q, NEW segs, NEW g, NEW k, NEW s, Grew(q, segs, g, k, s),
           NEW b, NEW c, SameBut(c, b), Told(b), b.query = q, b.pc \in Active, b.sub = "open",
           \/ c.buf = b.buf /\ c.sub = "closed" /\ c.lags
           \/ c.buf = Append(b.buf, EndOf(segs)) /\ c.sub = "open" /\ c.lags = b.lags
    PROVE  ToldAfter(c)
PROOF
<1>1. PICK w, v, n, at : w = writer[q] /\ v = writer'[q] /\ n = EndOf(segs) /\ at = From(b)
  OBVIOUS
<1>2. w.next = n /\ n \in Nat /\ v.next = n + 1 /\ v.pump = "running" /\ q \notin givenUp
      /\ segs = disk[q].segs /\ disk'[q].segs = s
  BY <1>1 DEF Grew
<1>3. /\ c.query = q /\ c.pc = b.pc /\ c.at = b.at /\ c.to = b.to /\ c.end = b.end
      /\ b.at \in Nat /\ b.to \in Nat /\ b.buf \in Seq(Nat)
  BY DEF SameBut, Call
<1>4. at \in Nat /\ From(c) = at
  BY <1>1, <1>3 DEF From
<1>5. Standing(b, w) /\ Buffered(b, w, q \in live) /\ Right(b, segs, w)
  BY <1>1, <1>2 DEF Told
<1>6. /\ \A i \in DOMAIN b.buf : b.buf[i] = at + i - 1
      /\ at + Len(b.buf) = n /\ ~b.lags
  BY <1>1, <1>2, <1>5 DEF Buffered
<1>7. Standing(c, v)
  <2>1. c.end = "none" /\ c.pc \notin {"ended", "found"}
    BY <1>3, <1>5 DEF Standing, Active
  <2> QED BY <1>2, <2>1 DEF Standing
<1>8. Buffered(c, v, q \in live')
  <2>1. CASE c.buf = b.buf /\ c.sub = "closed" /\ c.lags
    <3>1. at + Len(c.buf) < v.next
      <4>1. Len(b.buf) \in Nat
        BY <1>3
      <4> QED BY <1>2, <1>4, <1>6, <2>1, <4>1
    <3> QED BY <1>4, <1>6, <2>1, <3>1 DEF Buffered
  <2>2. CASE c.buf = Append(b.buf, EndOf(segs)) /\ c.sub = "open" /\ c.lags = b.lags
    <3>1. PICK buf, len : buf = b.buf /\ len = Len(buf)
      OBVIOUS
    <3>2. buf \in Seq(Nat) /\ len \in Nat /\ DOMAIN buf = 1..len
      BY <1>3, <3>1
    <3>3. PICK a \in Seq(Nat) : IsAdded(a, buf, n)
      BY <1>2, <3>2, Added
    <3>4. c.buf = a /\ Len(a) = len + 1 /\ a[len + 1] = n /\ \A j \in 1..len : a[j] = buf[j]
      BY <1>1, <2>2, <3>1, <3>3 DEF IsAdded
    <3>5. DOMAIN a = 1..(len + 1)
      BY <3>3, <3>4
    <3>6. at + Len(c.buf) = v.next
      <4>1. at + len = n /\ Len(c.buf) = len + 1
        BY <1>6, <3>1, <3>4
      <4>2. at + (len + 1) = n + 1
        BY <1>2, <1>4, <3>2, <4>1
      <4> QED BY <1>2, <4>1, <4>2
    <3>7. ASSUME NEW i \in 1..(len + 1) PROVE a[i] = at + i - 1
      <4>1. CASE i = len + 1
        BY <1>2, <1>4, <1>6, <3>1, <3>2, <3>4, <4>1
      <4>2. CASE i # len + 1
        <5>1. i \in 1..len
          BY <3>2, <4>2
        <5> QED BY <1>6, <3>1, <3>2, <3>4, <5>1
      <4> QED BY <4>1, <4>2
    <3> QED BY <1>4, <1>6, <2>2, <3>4, <3>5, <3>6, <3>7 DEF Buffered
  <2> QED BY <2>1, <2>2
<1>9. Right(c, s, v)
  <2>1. c.sub = "open" \/ (c.sub = "closed" /\ c.lags)
    OBVIOUS
  <2>2. Right(b, segs, writer[q])
    BY <1>1, <1>5
  <2>3. Right(c, s, writer'[q])
    BY <2>1, <2>2, GrowsRight
  <2> QED BY <1>1, <2>3
<1> QED BY <1>1, <1>2, <1>3, <1>7, <1>8, <1>9 DEF ToldAfter

(* A call about the record that has no subscription to it any more, or not yet *)
LEMMA OtherTold ==
    ASSUME NEW q, NEW segs, NEW g, NEW k, NEW s, Grew(q, segs, g, k, s),
           NEW b \in Call, Told(b), b.query = q, b.pc \in Active => b.sub # "open"
    PROVE  ToldAfter(b)
PROOF
<1>1. PICK w, v, n, at : w = writer[q] /\ v = writer'[q] /\ n = EndOf(segs) /\ at = From(b)
  OBVIOUS
<1>2. w.next = n /\ n \in Nat /\ v.next = n + 1 /\ v.pump = "running" /\ ~v.finished /\ q \notin givenUp
      /\ segs = disk[q].segs /\ disk'[q].segs = s /\ w.pump = "running"
  BY <1>1 DEF Grew
<1>3. b.at \in Nat /\ b.to \in Nat /\ b.buf \in Seq(Nat) /\ Len(b.buf) \in Nat /\ b.sub \in {"none", "open", "closed"}
  BY DEF Call
<1>4. at \in Nat
  BY <1>1, <1>3 DEF From
<1>5. Standing(b, w) /\ Buffered(b, w, q \in live) /\ Right(b, segs, w)
  BY <1>1, <1>2 DEF Told
<1>6. Standing(b, v)
  <2>1. b.end = "lag" => b.at < v.next
    BY <1>2, <1>3, <1>5 DEF Standing
  <2> QED BY <1>2, <1>5, <2>1 DEF Standing
<1>7. b.pc \in Active => b.sub = "closed" /\ b.lags
  BY <1>2, <1>3, <1>5 DEF Buffered, Over
<1>8. Buffered(b, v, q \in live')
  <2>1. ASSUME b.pc \in Active PROVE at + Len(b.buf) < v.next
    <3>1. at + Len(b.buf) < n
      BY <1>1, <1>2, <1>5, <1>7, <2>1 DEF Buffered
    <3> QED BY <1>2, <1>3, <1>4, <3>1
  <2>2. b.pc \in Active => \A i \in DOMAIN b.buf : b.buf[i] = at + i - 1
    BY <1>1, <1>5 DEF Buffered
  <2> QED BY <1>1, <1>7, <2>1, <2>2 DEF Buffered
<1>9. Right(b, s, v)
  <2>1. Right(b, segs, writer[q]) /\ SameBut(b, b)
    BY <1>1, <1>5 DEF SameBut
  <2>2. Right(b, s, writer'[q])
    BY <1>7, <2>1, GrowsRight
  <2> QED BY <1>1, <2>2
<1> QED BY <1>1, <1>2, <1>6, <1>8, <1>9 DEF ToldAfter

(* Every call is right about the record that has one frame more. *)
LEMMA AppendFrameServes ==
    ASSUME IInv, Served, NEW q \in Query, AppendFrame(q)
    PROVE  Served'
PROOF
<1>1. PICK segs, g, k, s : Grew(q, segs, g, k, s)
  BY AppendFrameIs
<1>2. phase' = phase /\ live' = live /\ givenUp' = givenUp
  BY DEF AppendFrame
<1>3. /\ EndOf(segs) \in Nat /\ obs' = Published(q, EndOf(segs))
      /\ writer'[q].subs = {o \in writer[q].subs : ~Full(o)}
      /\ \A p \in Query : p # q => disk'[p] = disk[p] /\ writer'[p] = writer[p]
  BY <1>1 DEF Grew
<1>4. Types /\ writer \in [Query -> Writer]
  BY DEF IInv, Types
<1>5. ASSUME NEW o \in Observer
      PROVE  /\ obs'[o] \in Call /\ SameBut(obs'[o], obs[o])
             /\ o \notin writer[q].subs => obs'[o] = obs[o]
             /\ (o \in writer[q].subs /\ Full(o)) =>
                    obs'[o].buf = obs[o].buf /\ obs'[o].sub = "closed" /\ obs'[o].lags
             /\ (o \in writer[q].subs /\ ~Full(o)) => /\ obs'[o].buf = Append(obs[o].buf, EndOf(segs))
                                                      /\ obs'[o].sub = obs[o].sub
                                                      /\ obs'[o].lags = obs[o].lags
  BY <1>3, <1>4, PublishedCall
<1>6. Subscribed'
  <2>1. ASSUME NEW p \in Query, NEW o \in writer'[p].subs
        PROVE  obs'[o].pc \in Active /\ obs'[o].query = p /\ obs'[o].sub = "open"
    <3>1. o \in writer[p].subs /\ o \in Observer
      BY <1>3, <1>4, <2>1 DEF Writer
    <3>2. obs[o].pc \in Active /\ obs[o].query = p /\ obs[o].sub = "open"
      BY <3>1 DEF Served, Subscribed
    <3>3. CASE p = q
      BY <1>3, <1>5, <2>1, <3>1, <3>2, <3>3 DEF SameBut
    <3>4. CASE p # q
      <4>1. o \notin writer[q].subs
        BY <3>2, <3>4 DEF Served, Subscribed
      <4> QED BY <1>5, <3>1, <3>2, <4>1
    <3> QED BY <3>3, <3>4
  <2> QED BY <2>1 DEF Subscribed
<1>7. ASSUME NEW o \in Observer
      PROVE  /\ obs'[o].pc = "idle" => obs'[o] = Idle
             /\ obs'[o].pc # "idle" => phase' # "down" /\ ToldAfter(obs'[o])
  <2>1. CASE obs[o].pc = "idle"
    <3>1. o \notin writer[q].subs
      BY <2>1 DEF Served, Subscribed, Active
    <3> QED BY <1>5, <2>1, <3>1 DEF Served
  <2>2. CASE obs[o].pc # "idle"
    <3>1. /\ obs[o].query \in Query /\ obs[o] \in Call /\ phase # "down" /\ Told(obs[o])
      BY <2>2, CallIs
    <3>2. obs'[o].pc # "idle"
      BY <1>5, <2>2 DEF SameBut
    <3>3. CASE o \in writer[q].subs
      <4>1. obs[o].pc \in Active /\ obs[o].query = q /\ obs[o].sub = "open"
        BY <3>3 DEF Served, Subscribed
      <4>2. /\ SameBut(obs'[o], obs[o])
            /\ \/ obs'[o].buf = obs[o].buf /\ obs'[o].sub = "closed" /\ obs'[o].lags
               \/ obs'[o].buf = Append(obs[o].buf, EndOf(segs)) /\ obs'[o].sub = "open"
                  /\ obs'[o].lags = obs[o].lags
        BY <1>5, <3>3, <4>1
      <4>3. ToldAfter(obs'[o])
        BY <1>1, <3>1, <4>1, <4>2, SubscriberTold
      <4> QED BY <1>2, <3>1, <3>2, <4>3
    <3>4. CASE o \notin writer[q].subs /\ obs[o].query = q
      <4>1. obs[o].pc \in Active => obs[o].sub # "open"
        BY <3>4 DEF IInv, Following
      <4>2. ToldAfter(obs[o])
        BY <1>1, <3>1, <3>4, <4>1, OtherTold
      <4> QED BY <1>2, <1>5, <3>1, <3>2, <3>4, <4>2
    <3>5. CASE obs[o].query # q
      <4>1. o \notin writer[q].subs
        BY <3>5 DEF Served, Subscribed
      <4>2. writer[obs[o].query].pump \in {"running", "ending", "done"}
        BY <3>1 DEF Told, Standing
      <4>3. StaysTrue(obs[o].query)
        BY <1>2, <1>3, <3>1, <3>5, <4>2, Alone
      <4>4. ToldAfter(obs[o])
        BY <3>1, <4>3, ToldStill
      <4> QED BY <1>2, <1>5, <3>1, <3>2, <4>1, <4>4
    <3> QED BY <3>3, <3>4, <3>5
  <2> QED BY <2>1, <2>2
<1>8. ASSUME NEW o \in Observer
      PROVE  /\ obs'[o].pc = "idle" => obs'[o] = Idle
             /\ obs'[o].pc # "idle" => phase' # "down" /\ Told(obs[o])'
  <2>1. ToldAfter(obs'[o]) => Told(obs[o])'
    BY DEF Told, ToldAfter
  <2> QED BY <1>7, <2>1
<1> QED BY <1>6, <1>8 DEF Served

-----------------------------------------------------------------------------
(* Initially nobody calls. *)
LEMMA InitServed == Init => Served
PROOF
<1> SUFFICES ASSUME Init PROVE Served
  OBVIOUS
<1>1. \A q \in Query : writer[q].subs = {}
  <2>1. NoWriter.subs = {} /\ [NoWriter EXCEPT !.pump = "done"].subs = {}
    BY DEF NoWriter
  <2>2. writer = [q \in Query |-> IF q \in OldQuery THEN [NoWriter EXCEPT !.pump = "done"] ELSE NoWriter]
    BY DEF Init
  <2> QED BY <2>1, <2>2
<1>2. \A o \in Observer : obs[o] = Idle /\ obs[o].pc = "idle"
  BY DEF Init, Idle
<1> QED BY <1>1, <1>2 DEF Served, Subscribed

(* Every step keeps what observers are told true. *)
LEMMA NextServed == IInv /\ Served /\ [Next]_vars => Served'
PROOF
<1> SUFFICES ASSUME IInv, Served, [Next]_vars PROVE Served'
  OBVIOUS
<1>1. ASSUME NEW q \in Query, Turn(q) PROVE Served'
  <2>1. CASE BeginRecord(q)
    BY <2>1, BeginRecordServes
  <2>2. CASE BeginWriter(q)
    BY <2>2, BeginWriterServes
  <2>3. CASE AppendFrame(q)
    BY <2>3, AppendFrameServes
  <2>4. CASE AppendFails(q)
    BY <2>4, AppendFailsServes
  <2>5. CASE Finishes(q)
    BY <2>5, FinishServes DEF Finishes
  <2>6. CASE SettleRecord(q)
    BY <2>6, SettleRecordServes
  <2>7. CASE \E o \in Observer : EndSubscriber(q, o)
    BY <2>7, EndSubscriberServes
  <2> QED BY <1>1, <2>1, <2>2, <2>3, <2>4, <2>5, <2>6, <2>7 DEF Turn, Ending
<1>2. ASSUME NEW q \in Query, Retain(q) PROVE Served'
  BY <1>2, RetentionServes
<1>3. ASSUME NEW o \in Observer, Observe(o) PROVE Served'
  <2>1. CASE \E q \in Query, from \in 0..MaxFrames : ObserveQuery(o, q, from)
    <3>1. PICK q \in Query, from \in 0..MaxFrames : ObserveQuery(o, q, from)
      BY <2>1
    <3>2. from \in Nat
      OBVIOUS
    <3> QED BY <3>1, <3>2, ObserveQueryServes
  <2>2. CASE Serve(o)
    <3>1. CASE AttachWriter(o)
      BY <3>1, AttachWriterServes
    <3>2. CASE ListSegments(o)
      BY <3>2, ListSegmentsServes
    <3>3. CASE ReadSegment(o)
      BY <3>3, ReadSegmentServes
    <3>4. CASE Replayed(o)
      BY <3>4, ReplayedServes
    <3>5. CASE ReceiveFrame(o)
      BY <3>5, ReceiveFrameServes
    <3>6. CASE SubscriptionEnds(o)
      BY <3>6, SubscriptionEndsServes
    <3>7. CASE StatSegments(o)
      BY <3>7, StatSegmentsServes
    <3> QED BY <2>2, <3>1, <3>2, <3>3, <3>4, <3>5, <3>6, <3>7 DEF Serve
  <2>3. CASE Interrupted(o)
    BY <2>3, InterruptedServes
  <2>4. CASE ObserveAgain(o)
    BY <2>4, ObserveAgainServes
  <2> QED BY <1>3, <2>1, <2>2, <2>3, <2>4 DEF Observe
<1>4. CASE RunGC
  BY <1>4, RetentionServes
<1>5. CASE Stop
  BY <1>5, RetentionServes
<1>6. CASE Exit
  BY <1>6, ExitServes
<1>7. CASE OpenQueryStore
  BY <1>7, OpenServes
<1>8. CASE UNCHANGED vars
  BY <1>8, RetentionServes
<1> QED BY <1>1, <1>2, <1>3, <1>4, <1>5, <1>6, <1>7, <1>8 DEF Next

(* ObserversServed is part of what the strengthening says. *)
LEMMA ServedSays == Served => ObserversServed
PROOF
<1> SUFFICES ASSUME Served, NEW o \in Observer
             PROVE  LET q == obs[o].query IN
                    /\ obs[o].whole \/ q \in givenUp
                    /\ (obs[o].end \in {"settled", "error"} /\ q \notin givenUp) =>
                            obs[o].at = EndOf(disk[q].segs)
                    /\ obs[o].end = "notfound" => q \in givenUp
                    /\ obs[o].end \in {"pruned", "internal"} => StartOf(disk[q].segs) > 0 \/ q \in givenUp
                    /\ obs[o].end = "lag" => obs[o].at < writer[q].next
  BY DEF ObserversServed
<1>1. CASE obs[o].pc = "idle"
  <2>1. obs[o].whole /\ obs[o].end = "none"
    BY <1>1 DEF Served, Idle
  <2> QED BY <2>1
<1>2. CASE obs[o].pc # "idle"
  <2>1. PICK q, w, segs : q = obs[o].query /\ w = writer[q] /\ segs = disk[q].segs
    OBVIOUS
  <2>2. Standing(obs[o], w) /\ (q \notin givenUp => Right(obs[o], segs, w))
    BY <1>2, <2>1 DEF Served, Told
  <2>3. obs[o].end = "lag" => obs[o].at < w.next
    BY <2>2 DEF Standing
  <2>4. q \notin givenUp =>
          /\ obs[o].whole /\ obs[o].end # "notfound"
          /\ obs[o].end \in {"settled", "error"} => obs[o].at = EndOf(segs)
          /\ obs[o].end \in {"pruned", "internal"} => StartOf(segs) > 0
    BY <2>2 DEF Right
  <2> QED BY <2>1, <2>3, <2>4
<1> QED BY <1>1, <1>2

(* An observer gets the frames from the sequence it asked for, in order and *)
(* once, first from disk and then live; it is told of the end after the     *)
(* last one, and misses frames only for a reason it is told of (service.go, *)
(* query_writer.go), however appends, retention, kicks, crashes and its own *)
(* reads interleave.                                                        *)
THEOREM ObserversServedHolds == Spec => []ObserversServed
PROOF
<1>1. Init => IInv /\ Served
  BY InitIInv, InitServed
<1>2. (IInv /\ Served) /\ [Next]_vars => (IInv /\ Served)'
  BY NextIInv, NextServed
<1>3. IInv /\ Served => ObserversServed
  BY ServedSays
<1> QED BY <1>1, <1>2, <1>3, PTL DEF Spec
=============================================================================
