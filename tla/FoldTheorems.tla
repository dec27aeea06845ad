---------------------------- MODULE FoldTheorems ----------------------------
(***************************************************************************)
(* Lemmas about folds.  FoldLeft and FoldSet of the community modules are  *)
(* functions that CHOOSE picks by a recursive equation.  A fact about one  *)
(* needs two steps: some function satisfies the equation (FoldDefined,     *)
(* FoldLeftDefined), so the chosen one does; and what the base has and     *)
(* each step keeps, all values have (FoldKeeps, FoldLeftKeeps).  The sums  *)
(* of a map over a set are those of any order (SumChosen).                 *)
(*                                                                         *)
(* Induction is stated with sets in place of predicates: T holds the       *)
(* numbers, Q the subsets, of which the fact is true.                      *)
(***************************************************************************)
EXTENDS Integers, Sequences, SequencesExt, FiniteSetsExt, FiniteSetTheorems, SequenceTheorems,
        WellFoundedInduction, TLAPS

(* A set of naturals with an element has a least one. *)
LEMMA Least == ASSUME NEW T, T \subseteq Nat, T # {} PROVE \E m \in T : \A k \in T : m <= k
PROOF
<1> DEFINE R == {ss \in Nat \X Nat : ss[1] < ss[2]}
<1>1. IsWellFoundedOn(R, Nat)
  BY NatLessThanWellFounded DEF OpToRel
<1> HIDE DEF R
<1>2. PICK m \in T : \A k \in T : ~ (<<k, m>> \in R)
  BY <1>1, WFMin
<1>3. \A k \in T : m <= k
  <2> SUFFICES ASSUME NEW k \in T PROVE m <= k
    OBVIOUS
  <2>1. k \in Nat /\ m \in Nat
    OBVIOUS
  <2>2. <<k, m>> \notin R
    BY <1>2
  <2>3. ~(k < m)
    BY <2>1, <2>2 DEF R
  <2> QED BY <2>1, <2>3
<1> QED BY <1>3

(* Induction: a set with 0, and with n + 1 when it has n, has all naturals. *)
LEMMA NatSet == ASSUME NEW T, T \subseteq Nat, 0 \in T, \A n \in T : n + 1 \in T PROVE T = Nat
PROOF
<1> SUFFICES ASSUME Nat \ T # {} PROVE FALSE
  OBVIOUS
<1>1. PICK m \in Nat \ T : \A k \in Nat \ T : m <= k
  BY Least
<1>2. m # 0 /\ m - 1 \in Nat
  OBVIOUS
<1>3. m - 1 \in T
  BY <1>1, <1>2
<1>4. (m - 1) + 1 \in T
  BY <1>3
<1> QED BY <1>1, <1>2, <1>4

(* f goes from base, k steps *)
Iterates(f, k, X, base, step) ==
    f \in [0..k -> X] /\ f[0] = base /\ \A i \in 1..k : f[i] = step[i][f[i - 1]]

(* A run of k steps can be continued by one. *)
LEMMA IteratesOn ==
    ASSUME NEW X, NEW base \in X, NEW n \in Nat, NEW step \in [1..n -> [X -> X]],
           NEW k \in Nat, k + 1 <= n, NEW f, Iterates(f, k, X, base, step)
    PROVE  \E g : Iterates(g, k + 1, X, base, step)
PROOF
<1>1. f \in [0..k -> X] /\ f[0] = base /\ \A i \in 1..k : f[i] = step[i][f[i - 1]]
  BY DEF Iterates
<1>2. f[k] \in X /\ k + 1 \in 1..n
  BY <1>1
<1>3. PICK x \in X : x = step[k + 1][f[k]]
  BY <1>2
<1>4. PICK g : g = [i \in 0..(k + 1) |-> IF i = k + 1 THEN x ELSE f[i]]
  OBVIOUS
<1>5. g \in [0..(k + 1) -> X] /\ g[k + 1] = x /\ \A i \in 0..k : g[i] = f[i]
  BY <1>1, <1>4
<1>6. g[0] = base
  BY <1>1, <1>5
<1>7. ASSUME NEW i \in 1..(k + 1) PROVE g[i] = step[i][g[i - 1]]
  <2>1. CASE i = k + 1
    <3>1. (k + 1) - 1 = k /\ k \in 0..k
      OBVIOUS
    <3> QED BY <1>3, <1>5, <2>1, <3>1
  <2>2. CASE i # k + 1
    <3>1. i \in 1..k /\ i \in 0..k /\ i - 1 \in 0..k
      BY <2>2
    <3> QED BY <1>1, <1>5, <3>1
  <2> QED BY <2>1, <2>2
<1> QED BY <1>5, <1>6, <1>7 DEF Iterates

(* There is a run of any number of steps. *)
LEMMA Iterate ==
    ASSUME NEW X, NEW base \in X, NEW n \in Nat, NEW step \in [1..n -> [X -> X]]
    PROVE  \E f : Iterates(f, n, X, base, step)
PROOF
<1> DEFINE T == {k \in Nat : k <= n => \E f : Iterates(f, k, X, base, step)}
<1>1. 0 \in T
  <2>1. PICK f \in [0..0 -> X] : f = [i \in 0..0 |-> base]
    OBVIOUS
  <2>2. f[0] = base /\ \A i \in 1..0 : f[i] = step[i][f[i - 1]]
    BY <2>1
  <2>3. Iterates(f, 0, X, base, step)
    BY <2>1, <2>2 DEF Iterates
  <2> QED BY <2>3
<1>2. ASSUME NEW k \in T PROVE k + 1 \in T
  <2>1. k \in Nat /\ k + 1 \in Nat
    OBVIOUS
  <2>2. ASSUME k + 1 <= n PROVE \E f : Iterates(f, k + 1, X, base, step)
    <3>1. k <= n
      BY <2>1, <2>2
    <3>2. PICK f : Iterates(f, k, X, base, step)
      BY <3>1
    <3> QED BY <2>1, <2>2, <3>2, IteratesOn
  <2> QED BY <2>1, <2>2
<1> HIDE DEF T
<1>3. T = Nat
  <2>1. T \subseteq Nat
    BY DEF T
  <2> QED BY <1>1, <1>2, <2>1, NatSet
<1>4. n \in T
  BY <1>3
<1> QED BY <1>4 DEF T

-----------------------------------------------------------------------------
(* A fold over a finite set *)
Folds(h, D, base, step, ch) ==
    /\ h[{}] = base
    /\ \A s \in SUBSET D : s # {} => h[s] = step[ch[s]][h[s \ {ch[s]}]]

(* Subsets of a finite set, and what is left of one without an element *)
LEMMA Smaller ==
    ASSUME NEW D, IsFiniteSet(D), NEW s \in SUBSET D
    PROVE  /\ IsFiniteSet(s) /\ Cardinality(s) \in Nat /\ Cardinality(s) <= Cardinality(D)
           /\ Cardinality(D) \in Nat
           /\ Cardinality(s) = 0 <=> s = {}
           /\ \A x \in s : Cardinality(s \ {x}) = Cardinality(s) - 1
  BY FS_Subset, FS_EmptySet, FS_RemoveElement, FS_CardinalityType

(* A fold exists, whatever the order in which elements are taken: of the  *)
(* stages that get right the sets of at most k elements, take the last.   *)
LEMMA FoldDefined ==
    ASSUME NEW D, IsFiniteSet(D), NEW X, NEW base \in X, NEW step \in [D -> [X -> X]],
           NEW ch, \A s \in SUBSET D : s # {} => ch[s] \in s
    PROVE  \E h \in [SUBSET D -> X] : Folds(h, D, base, step, ch)
PROOF
<1> DEFINE n == Cardinality(D)
           Y == [SUBSET D -> X]
           first == [s \in SUBSET D |-> base]
           more(k, g) == [s \in SUBSET D |-> IF Cardinality(s) = k THEN step[ch[s]][g[s \ {ch[s]}]] ELSE g[s]]
           stages == [k \in 1..n |-> [g \in Y |-> more(k, g)]]
<1>1. n \in Nat /\ \A s \in SUBSET D : Cardinality(s) \in 0..n
  BY Smaller
<1>2. ASSUME NEW k \in 1..n, NEW g \in Y PROVE more(k, g) \in Y
  <2>1. ASSUME NEW s \in SUBSET D, Cardinality(s) = k PROVE step[ch[s]][g[s \ {ch[s]}]] \in X
    <3>1. s # {}
      BY <2>1, Smaller
    <3>2. ch[s] \in D /\ s \ {ch[s]} \in SUBSET D
      BY <3>1
    <3> QED BY <3>2
  <2> QED BY <2>1
<1>3. first \in Y /\ stages \in [1..n -> [Y -> Y]]
  <2>1. first \in Y
    OBVIOUS
  <2> HIDE DEF Y, more, first
  <2>2. stages \in [1..n -> [Y -> Y]]
    BY <1>2
  <2> QED BY <2>1, <2>2
<1>4. PICK f : Iterates(f, n, Y, first, stages)
  <2> HIDE DEF n, Y, first, stages
  <2> QED BY <1>1, <1>3, Iterate
<1>5. f \in [0..n -> Y] /\ f[0] = first /\ \A k \in 1..n : f[k] = more(k, f[k - 1])
  <2>1. f \in [0..n -> Y] /\ f[0] = first /\ \A k \in 1..n : f[k] = stages[k][f[k - 1]]
    BY <1>4 DEF Iterates
  <2>2. ASSUME NEW k \in 1..n PROVE stages[k][f[k - 1]] = more(k, f[k - 1])
    <3>1. k - 1 \in 0..n
      BY <1>1
    <3>2. f[k - 1] \in Y
      BY <2>1, <3>1
    <3> HIDE DEF Y, n, more
    <3> QED BY <3>2
  <2> QED BY <2>1, <2>2
<1>6. ASSUME NEW k \in 1..n, NEW s \in SUBSET D
      PROVE  /\ Cardinality(s) # k => f[k][s] = f[k - 1][s]
             /\ Cardinality(s) = k => f[k][s] = step[ch[s]][f[k - 1][s \ {ch[s]}]]
  <2> HIDE DEF more
  <2>1. f[k] = more(k, f[k - 1])
    BY <1>5
  <2>2. PICK g : g = f[k - 1]
    OBVIOUS
  <2>3. f[k] = more(k, g)
    BY <2>1, <2>2
  <2> USE DEF more
  <2>4. f[k][s] = IF Cardinality(s) = k THEN step[ch[s]][g[s \ {ch[s]}]] ELSE g[s]
    BY <2>3
  <2> QED BY <2>2, <2>4
<1> HIDE DEF n, Y, first, more, stages
<1>7. ASSUME NEW s \in SUBSET D, NEW k \in 0..n, Cardinality(s) <= k PROVE f[n][s] = f[k][s]
  <2> DEFINE T == {i \in Nat : k + i <= n => f[k + i][s] = f[k][s]}
  <2>1. 0 \in T
    BY <1>1
  <2>2. ASSUME NEW i \in T PROVE i + 1 \in T
    <3>1. i \in Nat /\ (k + i <= n => f[k + i][s] = f[k][s])
      OBVIOUS
    <3>2. ASSUME k + (i + 1) <= n PROVE f[k + (i + 1)][s] = f[k][s]
      <4>1. PICK m : m = k + (i + 1)
        OBVIOUS
      <4>2. m \in 1..n /\ Cardinality(s) # m /\ m - 1 = k + i /\ k + i <= n
        BY <1>1, <1>7, <3>1, <3>2, <4>1
      <4>3. f[m][s] = f[m - 1][s]
        BY <1>6, <4>2
      <4> QED BY <3>1, <4>1, <4>2, <4>3
    <3> QED BY <3>1, <3>2
  <2> HIDE DEF T
  <2>3. T = Nat
    <3>1. T \subseteq Nat
      BY DEF T
    <3> QED BY <2>1, <2>2, <3>1, NatSet
  <2>4. n - k \in T /\ k + (n - k) = n
    BY <1>1, <2>3
  <2> QED BY <1>1, <2>4 DEF T
<1>8. PICK h : h = f[n]
  OBVIOUS
<1>9. h \in [SUBSET D -> X]
  <2>1. n \in 0..n
    BY <1>1
  <2>2. h \in Y
    BY <1>5, <1>8, <2>1
  <2> QED BY <2>2 DEF Y
<1>10. h[{}] = base
  <2>1. {} \in SUBSET D /\ Cardinality({}) = 0
    BY Smaller
  <2>2. f[n][{}] = f[0][{}]
    BY <1>1, <1>7, <2>1
  <2> QED BY <1>5, <1>8, <2>2 DEF first
<1>11. ASSUME NEW s \in SUBSET D, s # {} PROVE h[s] = step[ch[s]][h[s \ {ch[s]}]]
  <2>1. PICK k, t : k = Cardinality(s) /\ t = s \ {ch[s]}
    OBVIOUS
  <2>2. k \in 1..n /\ t \in SUBSET D /\ Cardinality(t) = k - 1 /\ k \in 0..n /\ k - 1 \in 0..n
    BY <1>1, <1>11, <2>1, Smaller
  <2>3. f[n][s] = f[k][s]
    BY <1>7, <2>1, <2>2
  <2>4. f[k][s] = step[ch[s]][f[k - 1][t]]
    <3>1. Cardinality(s) = k => f[k][s] = step[ch[s]][f[k - 1][s \ {ch[s]}]]
      BY <1>6, <2>2, Zenon
    <3> QED BY <2>1, <3>1, Zenon
  <2>5. f[n][t] = f[k - 1][t]
    BY <1>7, <2>2
  <2> QED BY <1>8, <2>1, <2>3, <2>4, <2>5
<1> QED BY <1>9, <1>10, <1>11 DEF Folds

-----------------------------------------------------------------------------
(* Induction over the subsets of a finite set: what holds of the empty set, *)
(* and of a set when it holds of the set without any one of its elements.   *)
LEMMA SubsetInduction ==
    ASSUME NEW D, IsFiniteSet(D), NEW Q, Q \subseteq SUBSET D, {} \in Q,
           \A s \in SUBSET D : (s # {} /\ \A x \in s : s \ {x} \in Q) => s \in Q
    PROVE  Q = SUBSET D
PROOF
<1> DEFINE T == {n \in Nat : \A s \in SUBSET D : Cardinality(s) = n => s \in Q}
<1>1. 0 \in T
  BY Smaller
<1>2. ASSUME NEW n \in T PROVE n + 1 \in T
  <2>1. n \in Nat /\ \A s \in SUBSET D : Cardinality(s) = n => s \in Q
    BY <1>2
  <2>2. ASSUME NEW s \in SUBSET D, Cardinality(s) = n + 1 PROVE s \in Q
    <3>1. s # {}
      BY <2>1, <2>2, Smaller
    <3>2. ASSUME NEW x \in s PROVE s \ {x} \in Q
      <4>1. Cardinality(s \ {x}) = (n + 1) - 1
        BY <2>2, Smaller
      <4>2. s \ {x} \in SUBSET D
        OBVIOUS
      <4> QED BY <2>1, <4>1, <4>2
    <3> QED BY <3>1, <3>2
  <2> QED BY <2>1, <2>2
<1>3. T \subseteq Nat
  OBVIOUS
<1> HIDE DEF T
<1>4. T = Nat
  BY <1>1, <1>2, <1>3, NatSet
<1>5. ASSUME NEW s \in SUBSET D PROVE s \in Q
  <2>1. Cardinality(s) \in T
    BY <1>4, Smaller
  <2> QED BY <2>1 DEF T
<1> QED BY <1>5

(* What a fold begins with and each of its steps keeps, all its values have. *)
LEMMA FoldKeeps ==
    ASSUME NEW D, IsFiniteSet(D), NEW ch, \A s \in SUBSET D : s # {} => ch[s] \in s,
           NEW h, NEW P, h[{}] \in P[{}],
           \A s \in SUBSET D : (s # {} /\ h[s \ {ch[s]}] \in P[s \ {ch[s]}]) => h[s] \in P[s]
    PROVE  \A s \in SUBSET D : h[s] \in P[s]
PROOF
<1> DEFINE Q == {s \in SUBSET D : h[s] \in P[s]}
<1>1. {} \in Q
  OBVIOUS
<1>2. ASSUME NEW s \in SUBSET D, s # {}, \A x \in s : s \ {x} \in Q PROVE s \in Q
  <2>1. ch[s] \in s
    BY <1>2
  <2>2. h[s \ {ch[s]}] \in P[s \ {ch[s]}]
    BY <1>2, <2>1
  <2> QED BY <1>2, <2>2
<1>3. Q \subseteq SUBSET D
  OBVIOUS
<1> HIDE DEF Q
<1>4. Q = SUBSET D
  BY <1>1, <1>2, <1>3, SubsetInduction
<1> QED BY <1>4 DEF Q

(* A finite set of naturals with an element has a largest one. *)
LEMMA MaxOf ==
    ASSUME NEW D, IsFiniteSet(D), D \subseteq Nat, D # {}
    PROVE  Max(D) \in D /\ \A x \in D : x <= Max(D)
PROOF
<1> DEFINE Q == {s \in SUBSET D : s # {} => \E m \in s : \A x \in s : x <= m}
<1>1. {} \in Q
  OBVIOUS
<1>2. ASSUME NEW s \in SUBSET D, s # {}, \A x \in s : s \ {x} \in Q PROVE s \in Q
  <2>1. PICK x \in s : TRUE
    BY <1>2
  <2>2. x \in Nat
    OBVIOUS
  <2>3. CASE s \ {x} = {}
    BY <2>1, <2>2, <2>3
  <2>4. CASE s \ {x} # {}
    <3>1. PICK m \in s \ {x} : \A y \in s \ {x} : y <= m
      BY <1>2, <2>1, <2>4
    <3>2. m \in Nat /\ s \subseteq Nat
      OBVIOUS
    <3>3. CASE x <= m
      BY <3>1, <3>2, <3>3
    <3>4. CASE ~(x <= m)
      <4>1. \A y \in s : y <= x
        BY <2>2, <3>1, <3>2, <3>4
      <4> QED BY <2>1, <4>1
    <3> QED BY <3>3, <3>4
  <2> QED BY <2>3, <2>4
<1>3. Q \subseteq SUBSET D
  OBVIOUS
<1> HIDE DEF Q
<1>4. Q = SUBSET D
  BY <1>1, <1>2, <1>3, SubsetInduction
<1>5. PICK m \in D : \A x \in D : x <= m
  <2>1. D \in Q
    BY <1>4
  <2> QED BY <2>1 DEF Q
<1>6. \A x \in D : m >= x
  BY <1>5
<1>7. Max(D) \in D /\ \A x \in D : Max(D) >= x
  BY <1>5, <1>6 DEF Max
<1> QED BY <1>7

(* FoldLeft goes over the positions of a sequence, the last one outermost. *)
LEMMA Positions ==
    ASSUME NEW S, NEW seq \in Seq(S)
    PROVE  /\ DOMAIN seq = 1..Len(seq) /\ Len(seq) \in Nat /\ \A i \in DOMAIN seq : seq[i] \in S
           /\ IsFiniteSet(DOMAIN seq) /\ DOMAIN seq \subseteq Nat
           /\ Cardinality(DOMAIN seq) = Len(seq)
           /\ \A s \in SUBSET DOMAIN seq : s # {} => Max(s) \in s
PROOF
<1>1. DOMAIN seq = 1..Len(seq) /\ Len(seq) \in Nat /\ \A i \in DOMAIN seq : seq[i] \in S
  OBVIOUS
<1>2. IsFiniteSet(1..Len(seq)) /\ Cardinality(1..Len(seq)) = Len(seq)
  BY <1>1, FS_Interval
<1>3. ASSUME NEW s \in SUBSET DOMAIN seq, s # {} PROVE Max(s) \in s
  <2>1. IsFiniteSet(s) /\ s \subseteq Nat
    BY <1>1, <1>2, FS_Subset
  <2> QED BY <1>3, <2>1, MaxOf
<1> QED BY <1>1, <1>2, <1>3

FoldsLeft(h, seq, base, step) ==
    /\ h[{}] = base
    /\ \A s \in SUBSET DOMAIN seq : s # {} => h[s] = step[Max(s)][h[s \ {Max(s)}]]

(* The function that FoldLeft chooses exists. *)
LEMMA FoldLeftDefined ==
    ASSUME NEW S, NEW seq \in Seq(S), NEW X, NEW base \in X,
           NEW step \in [DOMAIN seq -> [X -> X]]
    PROVE  \E h \in [SUBSET DOMAIN seq -> X] : FoldsLeft(h, seq, base, step)
PROOF
<1>1. PICK D, ch : D = DOMAIN seq /\ ch = [s \in SUBSET D |-> Max(s)]
  OBVIOUS
<1>2. IsFiniteSet(D) /\ \A s \in SUBSET D : s # {} => ch[s] \in s
  <2>1. IsFiniteSet(DOMAIN seq) /\ \A s \in SUBSET DOMAIN seq : s # {} => Max(s) \in s
    BY Positions, Zenon
  <2>2. \A s \in SUBSET D : ch[s] = Max(s)
    BY <1>1, Zenon
  <2> QED BY <1>1, <2>1, <2>2, Zenon
<1>3. step \in [D -> [X -> X]]
  BY <1>1
<1>4. PICK h \in [SUBSET D -> X] : Folds(h, D, base, step, ch)
  BY <1>2, <1>3, FoldDefined, Zenon
<1>5. h[{}] = base /\ \A s \in SUBSET D : s # {} => h[s] = step[ch[s]][h[s \ {ch[s]}]]
  BY <1>4, Zenon DEF Folds
<1>6. \A s \in SUBSET D : ch[s] = Max(s)
  BY <1>1, Zenon
<1>7. \A s \in SUBSET D : s # {} => h[s] = step[Max(s)][h[s \ {Max(s)}]]
  BY <1>5, <1>6, Zenon
<1>8. h \in [SUBSET DOMAIN seq -> X] /\ SUBSET D = SUBSET DOMAIN seq
  BY <1>1
<1> QED BY <1>5, <1>7, <1>8, Zenon DEF FoldsLeft

(* What holds of the base and survives each step holds of the whole fold. *)
LEMMA FoldLeftKeeps ==
    ASSUME NEW S, NEW seq \in Seq(S), NEW h, NEW P, h[{}] \in P[{}],
           \A s \in SUBSET DOMAIN seq :
               (s # {} /\ h[s \ {Max(s)}] \in P[s \ {Max(s)}]) => h[s] \in P[s]
    PROVE  h[DOMAIN seq] \in P[DOMAIN seq]
PROOF
<1>1. PICK D, ch : D = DOMAIN seq /\ ch = [s \in SUBSET D |-> Max(s)]
  OBVIOUS
<1>2. IsFiniteSet(D) /\ \A s \in SUBSET D : s # {} => ch[s] \in s
  <2>1. IsFiniteSet(DOMAIN seq) /\ \A s \in SUBSET DOMAIN seq : s # {} => Max(s) \in s
    BY Positions, Zenon
  <2>2. \A s \in SUBSET D : ch[s] = Max(s)
    BY <1>1, Zenon
  <2> QED BY <1>1, <2>1, <2>2, Zenon
<1>3. \A s \in SUBSET D : (s # {} /\ h[s \ {ch[s]}] \in P[s \ {ch[s]}]) => h[s] \in P[s]
  BY <1>1, Zenon
<1>4. \A s \in SUBSET D : h[s] \in P[s]
  BY <1>2, <1>3, FoldKeeps, Zenon
<1> QED BY <1>1, <1>4, Zenon
-----------------------------------------------------------------------------
(* A sum over a finite set: h has the sums over its subsets, and it does   *)
(* not matter which element is taken out first.                            *)
Sums(h, D, w) ==
    /\ h \in [SUBSET D -> Nat] /\ h[{}] = 0
    /\ \A s \in SUBSET D : \A x \in s : h[s] = w[x] + h[s \ {x}]

(* The equation by which MapThenSumSet chooses its function *)
SumsBy(h, D, w, ch) == h = [s \in SUBSET D |-> IF s = {} THEN 0 ELSE w[ch[s]] + h[s \ {ch[s]}]]

(* Some function satisfies the equation. *)
LEMMA SumDefined ==
    ASSUME NEW D, IsFiniteSet(D), NEW w, \A x \in D : w[x] \in Nat,
           NEW ch, \A s \in SUBSET D : s # {} => ch[s] \in s
    PROVE  \E h : SumsBy(h, D, w, ch)
PROOF
<1>1. PICK step : step = [x \in D |-> [n \in Nat |-> w[x] + n]]
  OBVIOUS
<1>2. PICK h \in [SUBSET D -> Nat] : Folds(h, D, 0, step, ch)
  <2>1. step \in [D -> [Nat -> Nat]] /\ 0 \in Nat
    BY <1>1
  <2> QED BY <2>1, FoldDefined, Zenon
<1>3. ASSUME NEW s \in SUBSET D, s # {} PROVE h[s] = w[ch[s]] + h[s \ {ch[s]}]
  <2>1. PICK c : c = ch[s]
    OBVIOUS
  <2>2. c \in D /\ s \ {c} \in SUBSET D
    BY <1>3, <2>1
  <2>3. h[s \ {c}] \in Nat
    BY <2>2
  <2>4. h[s] = step[c][h[s \ {c}]]
    BY <1>2, <1>3, <2>1, Zenon DEF Folds
  <2>5. h[s] = w[c] + h[s \ {c}]
    BY <1>1, <2>2, <2>3, <2>4
  <2> QED BY <2>1, <2>5, Zenon
<1>4. h[{}] = 0
  BY <1>2 DEF Folds
<1>5. h = [s \in SUBSET D |-> h[s]]
  OBVIOUS
<1>6. h = [s \in SUBSET D |-> IF s = {} THEN 0 ELSE w[ch[s]] + h[s \ {ch[s]}]]
  BY <1>3, <1>4, <1>5
<1> QED BY <1>6, Zenon DEF SumsBy

(* Whichever elements it takes first, the function has the sums. *)
LEMMA SumChosen ==
    ASSUME NEW D, IsFiniteSet(D), NEW w, \A x \in D : w[x] \in Nat,
           NEW ch, \A s \in SUBSET D : s # {} => ch[s] \in s,
           NEW h, SumsBy(h, D, w, ch)
    PROVE  Sums(h, D, w)
PROOF
<1>1. /\ h = [s \in SUBSET D |-> h[s]] /\ h[{}] = 0
      /\ \A s \in SUBSET D : s # {} => h[s] = w[ch[s]] + h[s \ {ch[s]}]
  BY DEF SumsBy
<1>2. \A s \in SUBSET D : h[s] \in Nat
  <2>1. PICK P : P = [s \in SUBSET D |-> Nat]
    OBVIOUS
  <2>2. ASSUME NEW s \in SUBSET D, s # {}, h[s \ {ch[s]}] \in P[s \ {ch[s]}] PROVE h[s] \in P[s]
    <3>1. PICK c : c = ch[s] /\ c \in s
      BY <2>2
    <3>2. s \ {c} \in SUBSET D /\ c \in D
      BY <3>1
    <3>3. h[s \ {c}] \in Nat /\ w[c] \in Nat
      BY <2>1, <2>2, <3>1, <3>2
    <3>4. h[s] = w[c] + h[s \ {c}]
      BY <1>1, <2>2, <3>1, Zenon
    <3> QED BY <2>1, <3>3, <3>4
  <2>3. h[{}] \in P[{}]
    BY <1>1, <2>1
  <2>4. \A s \in SUBSET D : h[s] \in P[s]
    BY <2>2, <2>3, FoldKeeps, Zenon
  <2> QED BY <2>1, <2>4
<1>3. PICK Q : Q = {s \in SUBSET D : \A x \in s : h[s] = w[x] + h[s \ {x}]}
  OBVIOUS
<1>4. ASSUME NEW s \in SUBSET D, s # {}, \A x \in s : s \ {x} \in Q PROVE s \in Q
  <2>1. ASSUME NEW x \in s PROVE h[s] = w[x] + h[s \ {x}]
    <3>1. PICK c : c = ch[s] /\ c \in s
      BY <1>4
    <3>2. h[s] = w[c] + h[s \ {c}]
      BY <1>1, <1>4, <3>1, Zenon
    <3>3. CASE x = c
      BY <3>2, <3>3, Zenon
    <3>4. CASE x # c
      <4>1. PICK r : r = s \ {x, c}
        OBVIOUS
      <4>2. (s \ {c}) \ {x} = r /\ (s \ {x}) \ {c} = r /\ x \in s \ {c} /\ c \in s \ {x}
        BY <3>1, <3>4, <4>1
      <4>3. h[s \ {c}] = w[x] + h[r]
        <5>1. \A y \in s \ {c} : h[s \ {c}] = w[y] + h[(s \ {c}) \ {y}]
          <6>1. s \ {c} \in Q
            BY <1>4, <3>1, Zenon
          <6> QED BY <1>3, <6>1
        <5> QED BY <4>2, <5>1, Zenon
      <4>4. h[s \ {x}] = w[c] + h[r]
        <5>1. \A y \in s \ {x} : h[s \ {x}] = w[y] + h[(s \ {x}) \ {y}]
          <6>1. s \ {x} \in Q
            BY <1>4, <2>1, Zenon
          <6> QED BY <1>3, <6>1
        <5> QED BY <4>2, <5>1, Zenon
      <4>5. h[r] \in Nat /\ w[x] \in Nat /\ w[c] \in Nat
        BY <1>2, <3>1, <4>1
      <4> QED BY <3>2, <4>3, <4>4, <4>5
    <3> QED BY <3>3, <3>4
  <2> QED BY <1>3, <2>1
<1>5. Q = SUBSET D
  <2>1. {} \in Q /\ Q \subseteq SUBSET D
    BY <1>3
  <2> QED BY <1>4, <2>1, SubsetInduction, Zenon
<1>6. h \in [SUBSET D -> Nat]
  BY <1>1, <1>2
<1>7. \A s \in SUBSET D : \A x \in s : h[s] = w[x] + h[s \ {x}]
  BY <1>3, <1>5
<1> QED BY <1>1, <1>6, <1>7 DEF Sums

(* Two sums over a set of elements that have the same weights are equal. *)
LEMMA SumSame ==
    ASSUME NEW D, NEW w, NEW h, Sums(h, D, w), NEW E, NEW v, NEW g, Sums(g, E, v),
           NEW S, IsFiniteSet(S), S \subseteq D, S \subseteq E, \A x \in S : w[x] = v[x]
    PROVE  h[S] = g[S]
PROOF
<1>1. PICK Q : Q = {s \in SUBSET S : h[s] = g[s]}
  OBVIOUS
<1>2. {} \in Q /\ Q \subseteq SUBSET S
  BY <1>1 DEF Sums
<1>3. ASSUME NEW s \in SUBSET S, s # {}, \A x \in s : s \ {x} \in Q PROVE s \in Q
  <2>1. PICK x : x \in s
    BY <1>3
  <2>2. h[s] = w[x] + h[s \ {x}] /\ g[s] = v[x] + g[s \ {x}]
    <3>1. s \in SUBSET D /\ s \in SUBSET E
      OBVIOUS
    <3> QED BY <2>1, <3>1, Zenon DEF Sums
  <2>3. h[s \ {x}] = g[s \ {x}] /\ w[x] = v[x]
    BY <1>1, <1>3, <2>1
  <2> QED BY <1>1, <2>2, <2>3
<1>4. Q = SUBSET S
  <2>1. \A s \in SUBSET S : (s # {} /\ \A x \in s : s \ {x} \in Q) => s \in Q
    BY <1>3, Zenon
  <2>2. IsFiniteSet(S) /\ Q \subseteq SUBSET S /\ {} \in Q
    BY <1>2, Zenon
  <2> QED BY <2>1, <2>2, SubsetInduction, Zenon
<1> QED BY <1>1, <1>4

(* A sum over part of a set is not larger. *)
LEMMA SumGrows ==
    ASSUME NEW D, IsFiniteSet(D), NEW w, \A x \in D : w[x] \in Nat, NEW h, Sums(h, D, w),
           NEW S, S \subseteq D
    PROVE  h[S] \in Nat /\ h[D] \in Nat /\ h[S] <= h[D]
PROOF
<1>1. \A s \in SUBSET D : h[s] \in Nat
  BY DEF Sums
<1>2. PICK Q : Q = {s \in SUBSET D : h[s \cap S] <= h[s]}
  OBVIOUS
<1>3. {} \in Q /\ Q \subseteq SUBSET D
  <2>1. {} \cap S = {} /\ h[{}] = 0
    BY DEF Sums
  <2> QED BY <1>2, <2>1
<1>4. ASSUME NEW s \in SUBSET D, s # {}, \A x \in s : s \ {x} \in Q PROVE s \in Q
  <2>1. PICK x : x \in s
    BY <1>4
  <2>2. h[s] = w[x] + h[s \ {x}] /\ w[x] \in Nat
    BY <2>1, Zenon DEF Sums
  <2>3. h[(s \ {x}) \cap S] <= h[s \ {x}]
    BY <1>2, <1>4, <2>1
  <2>4. h[s \ {x}] \in Nat /\ h[(s \ {x}) \cap S] \in Nat /\ h[s] \in Nat
    BY <1>1
  <2>5. CASE x \in S
    <3>1. PICK r : r = s \cap S
      OBVIOUS
    <3>2. r \in SUBSET D /\ x \in r
      BY <2>1, <2>5, <3>1
    <3>3. r \ {x} = (s \ {x}) \cap S
      BY <3>1
    <3>4. h[r] = w[x] + h[r \ {x}] /\ h[r] \in Nat
      BY <1>1, <3>2, Zenon DEF Sums
    <3>5. h[r \ {x}] <= h[s \ {x}] /\ h[r \ {x}] \in Nat
      BY <2>3, <2>4, <3>3, Zenon
    <3>6. h[r] <= h[s]
      BY <2>2, <2>4, <3>4, <3>5
    <3> QED BY <1>2, <3>1, <3>6
  <2>6. CASE x \notin S
    <3>1. s \cap S = (s \ {x}) \cap S
      BY <2>6
    <3>2. h[s \cap S] <= h[s]
      BY <2>2, <2>3, <2>4, <3>1
    <3> QED BY <1>2, <3>2
  <2> QED BY <2>5, <2>6
<1>5. Q = SUBSET D
  BY <1>3, <1>4, SubsetInduction, Zenon
<1>6. D \cap S = S
  OBVIOUS
<1>7. h[D \cap S] <= h[D]
  BY <1>2, <1>5
<1> QED BY <1>1, <1>6, <1>7
=============================================================================
