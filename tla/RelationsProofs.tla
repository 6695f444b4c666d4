--------------------------- MODULE RelationsProofs --------------------------
(***************************************************************************)
(* Theorems about Merkle, Transcript, Backends, Relations and Shamir: the  *)
(* tree of RFC 6962 and inclusion over every tree and against every proof, *)
(* transcripts of any calls, what the relations and the back ends accept,  *)
(* at every width and after any history, and secret sharing in every field *)
(* of 2^Bits elements, with any threshold, shares and order.               *)
(***************************************************************************)
EXTENDS Merkle, Shamir, Relations, SequenceTheorems, FiniteSetTheorems,
        WellFoundedInduction, TLAPS

(* Lists                                                                   *)

LEMMA ListFacts ==
  ASSUME NEW s, List(s)
  PROVE  Len(s) \in Nat /\ DOMAIN s = 1 .. Len(s)
<1>1. s \in Seq({s[k] : k \in DOMAIN s})
  BY DEF List
<1> QED BY <1>1

LEMMA ListMade ==
  ASSUME NEW m \in Nat, NEW f, f = [k \in 1 .. m |-> f[k]]
  PROVE  List(f) /\ Len(f) = m
<1>1. DOMAIN f = 1 .. m
  OBVIOUS
<1>2. f \in Seq({f[k] : k \in DOMAIN f})
  BY <1>1
<1> QED BY <1>1, <1>2 DEF List

LEMMA ListAppend ==
  ASSUME NEW s, List(s), NEW e
  PROVE  /\ List(Append(s, e)) /\ Len(Append(s, e)) = Len(s) + 1
         /\ Append(s, e)[Len(s) + 1] = e
         /\ \A k \in 1 .. Len(s) : Append(s, e)[k] = s[k]
<1> DEFINE S == {s[k] : k \in DOMAIN s} \cup {e}
<1>1. s \in Seq(S)
  BY SeqMonotonic DEF List
<1>2. Append(s, e) \in Seq(S) /\ e \in S
  BY <1>1
<1> HIDE DEF S
<1>3. /\ Len(Append(s, e)) = Len(s) + 1 /\ Append(s, e)[Len(s) + 1] = e
      /\ \A k \in 1 .. Len(s) : Append(s, e)[k] = s[k]
  BY <1>1, <1>2, AppendProperties
<1>4. Append(s, e) = [k \in 1 .. Len(s) + 1 |-> Append(s, e)[k]]
  <2>1. Append(s, e) \in [1 .. Len(Append(s, e)) -> S]
    BY <1>2, LenProperties
  <2> QED BY <2>1, <1>3
<1>5. Len(s) + 1 \in Nat
  BY <1>1
<1> QED BY <1>3, <1>4, <1>5, ListMade

LEMMA ListEqual ==
  ASSUME NEW s, NEW r, List(s), List(r), Len(s) = Len(r), \A k \in 1 .. Len(s) : s[k] = r[k]
  PROVE  s = r
<1> DEFINE S == {s[k] : k \in DOMAIN s} \cup {r[k] : k \in DOMAIN r}
<1>1. s \in Seq(S) /\ r \in Seq(S)
  BY SeqMonotonic DEF List
<1> HIDE DEF S
<1> QED BY <1>1, SeqEqual

----------------------------------------------------------------------------
(* Numbers: induction, powers of two and division                          *)

\* A set of numbers that is not empty has a least one.
LEMMA Least ==
  ASSUME NEW T \in SUBSET Nat, T # {}
  PROVE  \E x \in T : \A y \in T : x <= y
<1> DEFINE R == {p \in Nat \X Nat : p[1] < p[2]}
<1>1. IsWellFoundedOn(R, Nat)
  BY NatLessThanWellFounded DEF OpToRel
<1> HIDE DEF R
<1>2. PICK x \in T : \A y \in T : ~(<<y, x>> \in R)
  BY <1>1, WFMin
<1>3. ASSUME NEW y \in T PROVE x <= y
  <2>1. y \in Nat /\ x \in Nat
    OBVIOUS
  <2>2. y < x => <<y, x>> \in R
    BY <2>1 DEF R
  <2> QED BY <1>2, <2>1, <2>2
<1> QED BY <1>3

LEMMA Induction ==
  ASSUME NEW S, 0 \in S, \A k \in Nat : k \in S => k + 1 \in S
  PROVE  \A k \in Nat : k \in S
<1> DEFINE T == {k \in Nat : k \notin S}
<1>1. SUFFICES ASSUME T # {} PROVE FALSE
  OBVIOUS
<1>2. PICK x \in T : \A y \in T : x <= y
  BY <1>1, Least
<1>3. x # 0 /\ x \in Nat /\ x - 1 \in Nat /\ x - 1 \notin T
  BY <1>2
<1>4. x - 1 + 1 \in S
  BY <1>3
<1> QED BY <1>4, <1>3

LEMMA PowerIsNat ==
  ASSUME NEW k \in Nat
  PROVE  2 ^ k \in Nat
<1>1. IsFiniteSet(1 .. k) /\ Cardinality(1 .. k) = k
  BY FS_Interval
<1> QED BY <1>1, FS_SUBSET, FS_CardinalityType

LEMMA PowerDoubles ==
  ASSUME NEW k \in Nat
  PROVE  2 ^ (k + 1) = 2 * 2 ^ k
<1> DEFINE A == SUBSET (1 .. k)
           x == k + 1
           B == {a \cup {x} : a \in A}
<1>1. /\ IsFiniteSet(1 .. k) /\ Cardinality(1 .. k) = k
      /\ IsFiniteSet(1 .. k + 1) /\ Cardinality(1 .. k + 1) = k + 1
  BY FS_Interval
<1>2. /\ IsFiniteSet(A) /\ Cardinality(A) = 2 ^ k
      /\ Cardinality(SUBSET (1 .. k + 1)) = 2 ^ (k + 1)
  BY <1>1, FS_SUBSET
<1>3. SUBSET (1 .. k + 1) = A \cup B
  <2>1. ASSUME NEW c \in SUBSET (1 .. k + 1) PROVE c \in A \cup B
    <3>1. c \ {x} \in A
      OBVIOUS
    <3>2. x \in c => c = (c \ {x}) \cup {x}
      OBVIOUS
    <3>3. x \notin c => c \in A
      OBVIOUS
    <3> QED BY <3>1, <3>2, <3>3
  <2>2. ASSUME NEW c \in A \cup B PROVE c \in SUBSET (1 .. k + 1)
    OBVIOUS
  <2> QED BY <2>1, <2>2
<1>4. A \cap B = {}
  <2>1. \A a \in A : x \notin a
    OBVIOUS
  <2>2. \A b \in B : x \in b
    OBVIOUS
  <2> QED BY <2>1, <2>2
<1>5. IsFiniteSet(B) /\ Cardinality(B) = Cardinality(A)
  <2> DEFINE f == [a \in A |-> a \cup {x}]
  <2>1. f \in Bijection(A, B)
    <3>1. f \in [A -> B]
      OBVIOUS
    <3>2. \A b \in B : \E a \in A : f[a] = b
      OBVIOUS
    <3>3. ASSUME NEW a \in A, NEW b \in A, f[a] = f[b] PROVE a = b
      <4>1. x \notin a /\ x \notin b /\ a \cup {x} = b \cup {x}
        BY <3>3
      <4> QED BY <4>1
    <3> HIDE DEF f
    <3> QED BY <3>1, <3>2, <3>3 DEF Bijection, Injection, Surjection, IsInjective
  <2>2. ExistsBijection(A, B)
    BY <2>1 DEF ExistsBijection
  <2> QED BY <1>2, <2>2, FS_Bijection
<1> HIDE DEF A, B
<1>6. Cardinality(A \cup B) = Cardinality(A) + Cardinality(B) - Cardinality(A \cap B)
  BY <1>2, <1>5, FS_Union
<1>7. Cardinality(A \cap B) = 0
  BY <1>4, FS_EmptySet
<1>8. 2 ^ (k + 1) = 2 ^ k + 2 ^ k - 0
  BY <1>2, <1>3, <1>5, <1>6, <1>7
<1> DEFINE p == 2 ^ k
<1>9. p \in Nat
  BY PowerIsNat
<1> HIDE DEF p
<1>10. p + p - 0 = 2 * p
  BY <1>9
<1> QED BY <1>8, <1>10 DEF p

LEMMA PowerIsPositive == ASSUME NEW k \in Nat PROVE 2 ^ k >= 1
<1> DEFINE A == SUBSET (1 .. k)
<1>1. IsFiniteSet(1 .. k) /\ Cardinality(1 .. k) = k
  BY FS_Interval
<1>2. IsFiniteSet(A) /\ Cardinality(A) = 2 ^ k /\ A # {}
  BY <1>1, FS_SUBSET
<1> HIDE DEF A
<1>3. Cardinality(A) \in Nat /\ Cardinality(A) # 0
  BY <1>2, FS_CardinalityType, FS_EmptySet
<1> QED BY <1>2, <1>3

LEMMA Division ==
  ASSUME NEW x \in Nat, NEW P \in Nat, P > 0
  PROVE  /\ x \div P \in Nat /\ x % P \in Nat /\ x % P < P /\ x = P * (x \div P) + (x % P)
<1>1. x \div P \in Int /\ x % P \in 0 .. P - 1
  OBVIOUS
<1>2. x = P * (x \div P) + (x % P)
  OBVIOUS
<1> DEFINE q == x \div P
           r == x % P
<1>3. q \in Int /\ r \in Int /\ r < P /\ r >= 0 /\ x = P * q + r
  BY <1>1, <1>2
<1> HIDE DEF q, r
<1>4. q >= 0
  <2>1. ASSUME q <= 0 - 1 PROVE FALSE
    <3>1. P * q <= P * (0 - 1)
      BY <1>3, <2>1
    <3>2. P * q <= 0 - P
      BY <1>3, <3>1
    <3> QED BY <1>3, <3>2
  <2> QED BY <1>3, <2>1
<1> QED BY <1>3, <1>4 DEF q, r

LEMMA Quotient ==
  ASSUME NEW x \in Nat, NEW P \in Nat, P > 0, NEW q \in Nat, NEW r \in Nat, r < P, x = P * q + r
  PROVE x % P = r /\ x \div P = q
OBVIOUS

LEMMA NextBit ==
  ASSUME NEW x \in Nat, NEW P \in Nat, P > 0
  PROVE  x % (2 * P) = (x % P) + P * ((x \div P) % 2)
<1> DEFINE q == x \div P
           r == x % P
<1>1. q \in Nat /\ r \in Nat /\ r < P /\ x = P * q + r
  BY Division
<1> HIDE DEF q, r
<1>2. q \div 2 \in Nat /\ q % 2 \in {0, 1} /\ q = 2 * (q \div 2) + (q % 2)
  <2>1. q \div 2 \in Nat /\ q % 2 \in 0 .. 1
    BY <1>1
  <2>2. q = 2 * (q \div 2) + (q % 2)
    BY <1>1
  <2> QED BY <2>1, <2>2
<1> DEFINE h == q \div 2
           b == q % 2
<1>3. P * (2 * h + b) = (2 * P) * h + P * b
  BY <1>2
<1>4. h \in Nat /\ b \in {0, 1} /\ x = (2 * P) * h + (P * b + r)
  BY <1>1, <1>2, <1>3
<1> HIDE DEF h, b
<1>5. P * b = 0 \/ P * b = P
  BY <1>4
<1>6. P * b + r \in Nat /\ P * b + r < 2 * P /\ 2 * P \in Nat /\ 2 * P > 0
  BY <1>1, <1>4, <1>5
<1>7. x % (2 * P) = P * b + r
  <2> DEFINE T == 2 * P
             z == P * b + r
  <2>1. T \in Nat /\ T > 0 /\ z \in Nat /\ z < T /\ x = T * h + z
    BY <1>4, <1>6
  <2> HIDE DEF T, z
  <2>2. x % T = z
    BY <1>4, <2>1, Quotient
  <2> QED BY <2>2 DEF T, z
<1>8. P * b \in Nat
  BY <1>5
<1> QED BY <1>1, <1>7, <1>8 DEF q, r, b

LEMMA PowersGrow ==
  ASSUME NEW a \in Nat, NEW c \in Nat
  PROVE  2 ^ a <= 2 ^ (a + c)
<1> DEFINE S == {k \in Nat : 2 ^ a <= 2 ^ (a + k)}
<1>1. 0 \in S
  <2>1. a + 0 = a /\ 2 ^ a \in Nat
    BY PowerIsNat
  <2> QED BY <2>1
<1>2. ASSUME NEW k \in Nat, k \in S PROVE k + 1 \in S
  <2>1. a + k \in Nat /\ a + (k + 1) = (a + k) + 1
    OBVIOUS
  <2>2. 2 ^ ((a + k) + 1) = 2 * 2 ^ (a + k) /\ 2 ^ (a + k) \in Nat
    BY <2>1, PowerDoubles, PowerIsNat
  <2> DEFINE p == 2 ^ (a + k)
             q == 2 ^ a
  <2>3. q <= p /\ p \in Nat /\ q \in Nat
    BY <1>2, <2>2, PowerIsNat
  <2> HIDE DEF p, q
  <2>4. q <= 2 * p
    BY <2>3
  <2> QED BY <2>1, <2>2, <2>4 DEF p, q
<1> HIDE DEF S
<1>3. c \in S
  BY <1>1, <1>2, Induction
<1> QED BY <1>3 DEF S

LEMMA PowerExceeds == ASSUME NEW k \in Nat PROVE k < 2 ^ k
<1> DEFINE S == {j \in Nat : j < 2 ^ j}
<1>1. 0 \in S
  BY PowerIsPositive
<1>2. ASSUME NEW j \in Nat, j \in S PROVE j + 1 \in S
  <2> DEFINE p == 2 ^ j
  <2>1. p \in Nat /\ j < p /\ 2 ^ (j + 1) = 2 * p
    BY <1>2, PowerIsNat, PowerDoubles
  <2> HIDE DEF p
  <2> QED BY <2>1
<1> HIDE DEF S
<1>3. k \in S
  BY <1>1, <1>2, Induction
<1> QED BY <1>3 DEF S

LEMMA PowersMultiply ==
  ASSUME NEW a \in Nat, NEW c \in Nat
  PROVE  2 ^ (a + c) = 2 ^ a * 2 ^ c
<1> DEFINE p == 2 ^ a
           S == {k \in Nat : 2 ^ (a + k) = p * 2 ^ k}
<1>1. p \in Nat
  BY PowerIsNat
<1>2. 0 \in S
  <2>1. a + 0 = a /\ 2 ^ 0 = 1 /\ 2 ^ (a + 0) = p
    OBVIOUS
  <2> HIDE DEF p
  <2>2. p * 1 = p
    BY <1>1
  <2> QED BY <2>1, <2>2
<1>3. ASSUME NEW k \in Nat, k \in S PROVE k + 1 \in S
  <2> DEFINE q == 2 ^ k
  <2>1. a + k \in Nat /\ a + (k + 1) = (a + k) + 1 /\ q \in Nat
    BY PowerIsNat
  <2>2. 2 ^ (a + (k + 1)) = 2 * (p * q) /\ 2 ^ (k + 1) = 2 * q
    BY <1>3, <2>1, PowerDoubles
  <2> HIDE DEF p, q
  <2>3. 2 * (p * q) = p * (2 * q)
    BY <1>1, <2>1
  <2> QED BY <2>2, <2>3
<1> HIDE DEF S
<1>4. c \in S
  BY <1>2, <1>3, Induction
<1> QED BY <1>4 DEF S

LEMMA TimesGrows ==
  ASSUME NEW x \in Nat, NEW y \in Nat, NEW b \in Nat, x <= y
  PROVE  x * b <= y * b
<1>1. PICK d \in Nat : y = x + d
  <2>1. y - x \in Nat /\ y = x + (y - x)
    OBVIOUS
  <2> QED BY <2>1
<1>2. (x + d) * b = x * b + d * b
  OBVIOUS
<1>3. d * b \in Nat /\ x * b \in Nat
  OBVIOUS
<1> DEFINE p == x * b
           q == d * b
<1>4. y * b = p + q /\ p \in Nat /\ q \in Nat
  BY <1>1, <1>2, <1>3
<1> HIDE DEF p, q
<1> QED BY <1>4 DEF p

----------------------------------------------------------------------------
\* A node of the next level is the hash of the two nodes below it, on the sides that
\* the parity of the position tells, or the node below it if that was promoted.
LEMMA Upwards ==
  ASSUME NEW s, List(s), NEW i \in Nat, i < Len(s)
  PROVE  /\ List(NextLevel(s)) /\ Len(NextLevel(s)) = (Len(s) + 1) \div 2
         /\ i \div 2 \in Nat /\ i \div 2 < (Len(s) + 1) \div 2
         /\ NextLevel(s)[i \div 2 + 1] =
              IF Promoted(i, Len(s)) THEN s[i + 1]
              ELSE IF i % 2 = 0 THEN node_hash(s[i + 1], Sibling(s, i))
              ELSE node_hash(Sibling(s, i), s[i + 1])
<1> DEFINE m == Len(s)
           k == i \div 2 + 1
<1>1. m \in Nat
  BY ListFacts
<1>2. /\ (m + 1) \div 2 \in Nat /\ i \div 2 \in Nat /\ i \div 2 < (m + 1) \div 2
  BY <1>1
<1>3. List(NextLevel(s)) /\ Len(NextLevel(s)) = (m + 1) \div 2
  <2>1. NextLevel(s) = [j \in 1 .. (m + 1) \div 2 |-> NextLevel(s)[j]]
    BY DEF NextLevel
  <2> QED BY <1>2, <2>1, ListMade
<1>4. k \in 1 .. (m + 1) \div 2
  BY <1>2
<1>5. NextLevel(s)[k] = IF 2 * k <= m THEN node_hash(s[2 * k - 1], s[2 * k]) ELSE s[2 * k - 1]
  BY <1>4 DEF NextLevel
<1>6. CASE Promoted(i, m)
  <2>1. 2 * k - 1 = i + 1 /\ ~(2 * k <= m)
    BY <1>1, <1>6 DEF Promoted
  <2> QED BY <1>2, <1>3, <1>5, <1>6, <2>1
<1>7. CASE ~Promoted(i, m) /\ i % 2 = 0
  <2>1. 2 * k - 1 = i + 1 /\ 2 * k = i + 2 /\ 2 * k <= m
    BY <1>1, <1>7 DEF Promoted
  <2> QED BY <1>2, <1>3, <1>5, <1>7, <2>1 DEF Sibling
<1>8. CASE ~Promoted(i, m) /\ i % 2 # 0
  <2>1. 2 * k - 1 = i /\ 2 * k = i + 1 /\ 2 * k <= m
    BY <1>1, <1>8 DEF Promoted
  <2> QED BY <1>2, <1>3, <1>5, <1>8, <2>1 DEF Sibling
<1> QED BY <1>6, <1>7, <1>8

----------------------------------------------------------------------------
(* The levels of a tree.  T[d] is the level d steps above the hashes of    *)
(* the leaves w, I[d] the position there of leaf k, and U[d] the number of *)
(* siblings in P that are below it; D levels have been folded.             *)

Tower(w, k, T, I, U, P, D) ==
  /\ D \in Nat /\ List(P) /\ Len(P) = U[D]
  /\ T[0] = base_level(w) /\ I[0] = k /\ U[0] = 0
  /\ \A d \in 0 .. D : /\ List(T[d]) /\ I[d] \in Nat /\ I[d] < Len(T[d])
                       /\ U[d] \in Nat /\ U[d] <= Len(P)
  /\ \A d \in 0 .. D - 1 :
       /\ Len(T[d]) > 1 /\ T[d + 1] = NextLevel(T[d]) /\ I[d + 1] = I[d] \div 2
       /\ IF Promoted(I[d], Len(T[d])) THEN U[d + 1] = U[d]
          ELSE U[d + 1] = U[d] + 1 /\ P[U[d] + 1] = Sibling(T[d], I[d])

LEMMA BaseIsATower ==
  ASSUME NEW w, List(w), NEW k \in Nat, k < Len(w)
  PROVE  /\ base_level(w) = [d \in {0} |-> base_level(w)][0] /\ k = [d \in {0} |-> k][0]
         /\ Tower(w, k, [d \in {0} |-> base_level(w)], [d \in {0} |-> k], [d \in {0} |-> 0],
                  << >>, 0)
<1>1. Len(w) \in Nat /\ DOMAIN w = 1 .. Len(w)
  BY ListFacts
<1>2. base_level(w) = [j \in 1 .. Len(w) |-> base_level(w)[j]]
  BY <1>1 DEF base_level
<1>3. List(base_level(w)) /\ Len(base_level(w)) = Len(w)
  BY <1>1, <1>2, ListMade
<1>4. List(<< >>) /\ Len(<< >>) = 0
  <2>1. << >> \in Seq({<< >>[j] : j \in DOMAIN << >>})
    OBVIOUS
  <2> QED BY <2>1 DEF List
<1>5. 0 .. 0 = {0} /\ 0 .. 0 - 1 = {}
  OBVIOUS
<1> QED BY <1>3, <1>4, <1>5 DEF Tower

LEMMA TowerGrows ==
  ASSUME NEW w, NEW k, NEW T, NEW I, NEW U, NEW P, NEW D, Tower(w, k, T, I, U, P, D),
         Len(T[D]) > 1
  PROVE  \E V, J, W : /\ Tower(w, k, V, J, W,
                               IF Promoted(I[D], Len(T[D])) THEN P
                               ELSE Append(P, Sibling(T[D], I[D])), D + 1)
                      /\ V[D + 1] = NextLevel(T[D]) /\ J[D + 1] = I[D] \div 2
<1> DEFINE Q == IF Promoted(I[D], Len(T[D])) THEN P ELSE Append(P, Sibling(T[D], I[D]))
           V == [d \in 0 .. D + 1 |-> IF d = D + 1 THEN NextLevel(T[D]) ELSE T[d]]
           J == [d \in 0 .. D + 1 |-> IF d = D + 1 THEN I[D] \div 2 ELSE I[d]]
           W == [d \in 0 .. D + 1 |-> IF d = D + 1 THEN Len(Q) ELSE U[d]]
<1>1. /\ D \in Nat /\ List(P) /\ Len(P) = U[D]
      /\ \A d \in 0 .. D : /\ List(T[d]) /\ I[d] \in Nat /\ I[d] < Len(T[d])
                           /\ U[d] \in Nat /\ U[d] <= Len(P)
  BY DEF Tower
<1>2. D \in 0 .. D /\ D + 1 \in Nat
  BY <1>1
<1>3. /\ List(NextLevel(T[D])) /\ I[D] \div 2 \in Nat /\ I[D] \div 2 < Len(NextLevel(T[D]))
  BY <1>1, <1>2, Upwards
<1>4. /\ List(Q) /\ \A j \in 1 .. Len(P) : Q[j] = P[j]
      /\ IF Promoted(I[D], Len(T[D])) THEN Len(Q) = U[D]
         ELSE Len(Q) = U[D] + 1 /\ Q[U[D] + 1] = Sibling(T[D], I[D])
  BY <1>1, ListAppend
<1>5. Len(Q) \in Nat /\ Len(Q) >= Len(P) /\ Len(P) \in Nat
  BY <1>1, <1>2, <1>4
<1>6. /\ V[D + 1] = NextLevel(T[D]) /\ J[D + 1] = I[D] \div 2 /\ W[D + 1] = Len(Q)
      /\ \A d \in 0 .. D : V[d] = T[d] /\ J[d] = I[d] /\ W[d] = U[d]
  BY <1>1
<1> HIDE DEF V, J, W, Q
<1>7. V[0] = base_level(w) /\ J[0] = k /\ W[0] = 0
  <2>1. 0 \in 0 .. D
    BY <1>1
  <2> QED BY <1>6, <2>1 DEF Tower
<1>8. ASSUME NEW d \in 0 .. D + 1
      PROVE  /\ List(V[d]) /\ J[d] \in Nat /\ J[d] < Len(V[d])
             /\ W[d] \in Nat /\ W[d] <= Len(Q)
  <2>1. CASE d = D + 1
    BY <2>1, <1>3, <1>5, <1>6
  <2>2. CASE d # D + 1
    <3>1. d \in 0 .. D
      BY <2>2, <1>1
    <3>2. List(T[d]) /\ I[d] \in Nat /\ I[d] < Len(T[d]) /\ U[d] \in Nat /\ U[d] <= Len(P)
      BY <3>1, <1>1
    <3>3. U[d] <= Len(Q)
      BY <3>2, <1>5
    <3> QED BY <3>1, <3>2, <3>3, <1>6
  <2> QED BY <2>1, <2>2
<1>9. ASSUME NEW d \in 0 .. (D + 1) - 1
      PROVE  /\ Len(V[d]) > 1 /\ V[d + 1] = NextLevel(V[d]) /\ J[d + 1] = J[d] \div 2
             /\ IF Promoted(J[d], Len(V[d])) THEN W[d + 1] = W[d]
                ELSE W[d + 1] = W[d] + 1 /\ Q[W[d] + 1] = Sibling(V[d], J[d])
  <2>1. CASE d = D
    BY <2>1, <1>2, <1>4, <1>6
  <2>2. CASE d # D
    <3>1. d \in 0 .. D - 1 /\ d \in 0 .. D /\ d + 1 \in 0 .. D
      BY <2>2, <1>1
    <3>2. /\ Len(T[d]) > 1 /\ T[d + 1] = NextLevel(T[d]) /\ I[d + 1] = I[d] \div 2
          /\ IF Promoted(I[d], Len(T[d])) THEN U[d + 1] = U[d]
             ELSE U[d + 1] = U[d] + 1 /\ P[U[d] + 1] = Sibling(T[d], I[d])
      BY <3>1 DEF Tower
    <3>3. ~Promoted(I[d], Len(T[d])) => U[d] + 1 \in 1 .. Len(P)
      BY <3>1, <3>2, <1>1, <1>5, SMTT(40)
    <3>4. ~Promoted(I[d], Len(T[d])) => Q[U[d] + 1] = P[U[d] + 1]
      BY <3>3, <1>4
    <3>5. V[d] = T[d] /\ J[d] = I[d] /\ W[d] = U[d] /\ V[d + 1] = T[d + 1]
          /\ J[d + 1] = I[d + 1] /\ W[d + 1] = U[d + 1]
      BY <3>1, <1>6
    <3> QED BY <3>2, <3>4, <3>5
  <2> QED BY <2>1, <2>2
<1>10. Tower(w, k, V, J, W, Q, D + 1)
  BY <1>2, <1>4, <1>6, <1>7, <1>8, <1>9 DEF Tower
<1> QED BY <1>6, <1>10 DEF Q

----------------------------------------------------------------------------
(* The inductive invariant of Merkle                                       *)

\* The tower ends in the root, and its siblings are the proof that prove returned.
Finished(T, I, U, D) ==
  /\ Tower(leaves, index, T, I, U, own.siblings, D)
  /\ Len(T[D]) = 1 /\ stmt.root = T[D][1]
  /\ own = [siblings |-> own.siblings, index |-> index, leaf_count |-> Len(leaves)]

\* Every hash in N is that of a leaf or of two hashes in N.
Closed(N) ==
  \A x \in N : \/ \E k \in DOMAIN leaves : x = leaf_hash(leaves[k])
               \/ \E l, r \in N : x = node_hash(l, r)

\* A verifier that was told the right number of leaves is at a level of the tower.  Its
\* accumulator is the node there only if it started from the leaf at its index; at the
\* prover's index it has then used the prover's siblings; and from the prover's leaf
\* and proof it has reached that node.
Follows(T, I, U, D, d) ==
  /\ d \in 0 .. D /\ n = Len(T[d])
  /\ hash = T[d][idx + 1] => stmt.leaf = T[0][proof.index + 1]
  /\ proof.index = index =>
       /\ idx = I[d] /\ used = U[d]
       /\ hash = T[d][idx + 1] => \A j \in 1 .. used : proof.siblings[j] = own.siblings[j]
  /\ proof = own /\ stmt.leaf = T[0][index + 1] => hash = T[d][idx + 1]

Cursor ==
  /\ n \in Nat /\ n >= 1 /\ idx \in Nat /\ idx < n /\ used \in Nat /\ used <= Len(proof.siblings)
  /\ proof.index < proof.leaf_count

WellFormed(p) ==
  /\ p.index \in Nat /\ p.leaf_count \in Nat /\ List(p.siblings)
  /\ p = [siblings |-> p.siblings, index |-> p.index, leaf_count |-> p.leaf_count]

MerkleInv ==
  /\ phase \in {"idle", "build", "proved", "replay", "done"}
  /\ stmt = [root |-> stmt.root, leaf |-> stmt.leaf] /\ WellFormed(proof)
  /\ phase # "idle" => leaves \in Trees /\ index \in Nat /\ index < Len(leaves)
  /\ phase = "build" =>
       /\ \E T, I, U, D : /\ Tower(leaves, index, T, I, U, path, D)
                          /\ level = T[D] /\ idx = I[D]
       /\ \E N : Closed(N) /\ \A k \in DOMAIN level : level[k] \in N
  /\ phase = "proved" =>
       /\ \E T, I, U, D : Finished(T, I, U, D)
       /\ \E N : Closed(N) /\ stmt.root \in N
       /\ proof = own /\ stmt.leaf = leaf_hash(leaves[index + 1])
  /\ phase = "replay" =>
       /\ Cursor
       /\ \E T, I, U, D : /\ Finished(T, I, U, D)
                          /\ proof.leaf_count = Len(leaves) => \E d : Follows(T, I, U, D, d)
       /\ \E N : Closed(N) /\ stmt.root \in N /\ (hash \in N => stmt.leaf \in N)
  /\ phase = "done" => AcceptedIsIncluded

LEMMA MerkleInit == Init => MerkleInv
<1> SUFFICES ASSUME Init PROVE MerkleInv
  OBVIOUS
<1>1. List(<< >>)
  <2>1. << >> \in Seq({<< >>[j] : j \in DOMAIN << >>})
    OBVIOUS
  <2> QED BY <2>1 DEF List
<1> QED BY <1>1 DEF Init, MerkleInv, WellFormed, NoStatement, NoProof

LEMMA ProveKeeps ==
  ASSUME MerkleInv, NEW w \in Trees, NEW k \in 0 .. Len(w), Prove(w, k)
  PROVE  MerkleInv'
<1>1. List(w) /\ k \in Nat /\ k < Len(w) /\ leaves' = w /\ index' = k /\ phase' = "build"
      /\ level' = base_level(w) /\ idx' = k /\ path' = << >>
      /\ stmt' = stmt /\ proof' = proof
  BY MerkleAssumption, ListFacts DEF Prove
<1>2. \E T, I, U, D : /\ Tower(w, k, T, I, U, << >>, D)
                      /\ base_level(w) = T[D] /\ k = I[D]
  BY <1>1, BaseIsATower
<1>3. \E N : Closed(N)' /\ \A j \in DOMAIN base_level(w) : base_level(w)[j] \in N
  <2> DEFINE N == {leaf_hash(w[j]) : j \in DOMAIN w}
  <2>1. Closed(N)'
    BY <1>1 DEF Closed
  <2>2. \A j \in DOMAIN base_level(w) : base_level(w)[j] \in N
    BY DEF base_level
  <2> QED BY <2>1, <2>2
<1> QED BY <1>1, <1>2, <1>3 DEF MerkleInv, WellFormed

\* Folding a level keeps the hashes of the level inside a closed set.
LEMMA ReduceIsClosed ==
  ASSUME NEW N, Closed(N), List(level), \A k \in DOMAIN level : level[k] \in N,
         leaves' = leaves
  PROVE  \E M : Closed(M)' /\ \A k \in DOMAIN NextLevel(level) : NextLevel(level)[k] \in M
<1> DEFINE M == N \cup {NextLevel(level)[k] : k \in DOMAIN NextLevel(level)}
<1>1. Len(level) \in Nat /\ DOMAIN level = 1 .. Len(level)
  BY ListFacts
<1>2. ASSUME NEW k \in DOMAIN NextLevel(level)
      PROVE  \/ NextLevel(level)[k] \in N
             \/ \E l, r \in N : NextLevel(level)[k] = node_hash(l, r)
  <2>1. k \in 1 .. (Len(level) + 1) \div 2
    BY <1>2 DEF NextLevel
  <2>2. NextLevel(level)[k] = IF 2 * k <= Len(level) THEN node_hash(level[2 * k - 1], level[2 * k])
                              ELSE level[2 * k - 1]
    BY <2>1 DEF NextLevel
  <2>3. 2 * k - 1 \in DOMAIN level /\ (2 * k <= Len(level) => 2 * k \in DOMAIN level)
    BY <1>1, <2>1
  <2> QED BY <2>2, <2>3
<1>3. ASSUME NEW x \in M
      PROVE  \/ \E k \in DOMAIN leaves' : x = leaf_hash(leaves'[k])
             \/ \E l, r \in M : x = node_hash(l, r)
  <2>1. x \in N \/ \E l, r \in N : x = node_hash(l, r)
    BY <1>2
  <2>2. CASE x \in N
    BY <2>2 DEF Closed
  <2> QED BY <2>1, <2>2
<1> QED BY <1>3, ZenonT(30) DEF Closed

LEMMA ReduceKeeps ==
  ASSUME MerkleInv, Reduce
  PROVE  MerkleInv'
<1>1. /\ phase = "build" /\ phase' = "build" /\ Len(level) > 1
      /\ path' = IF Promoted(idx, Len(level)) THEN path ELSE Append(path, Sibling(level, idx))
      /\ level' = NextLevel(level) /\ idx' = idx \div 2
      /\ leaves' = leaves /\ index' = index /\ stmt' = stmt /\ proof' = proof
  BY DEF Reduce
<1>2. PICK T, I, U, D : Tower(leaves, index, T, I, U, path, D) /\ level = T[D] /\ idx = I[D]
  BY <1>1 DEF MerkleInv
<1>3. \E V, J, W : /\ Tower(leaves, index, V, J, W, path', D + 1)
                   /\ V[D + 1] = NextLevel(T[D]) /\ J[D + 1] = I[D] \div 2
  <2>1. /\ Len(T[D]) > 1
        /\ path' = IF Promoted(I[D], Len(T[D])) THEN path ELSE Append(path, Sibling(T[D], I[D]))
    BY <1>1, <1>2
  <2>2. \E V, J, W : /\ Tower(leaves, index, V, J, W,
                              IF Promoted(I[D], Len(T[D])) THEN path
                              ELSE Append(path, Sibling(T[D], I[D])), D + 1)
                     /\ V[D + 1] = NextLevel(T[D]) /\ J[D + 1] = I[D] \div 2
    BY <2>1, <1>2, TowerGrows
  <2> QED BY <2>1, <2>2
<1>4. \E V, J, W, E : /\ Tower(leaves', index', V, J, W, path', E)
                      /\ level' = V[E] /\ idx' = J[E]
  BY <1>1, <1>2, <1>3
<1>5. List(level)
  <2>1. D \in 0 .. D
    BY <1>2 DEF Tower
  <2> QED BY <1>2, <2>1 DEF Tower
<1>6. \E M : Closed(M)' /\ \A k \in DOMAIN level' : level'[k] \in M
  <2>1. PICK N : Closed(N) /\ \A k \in DOMAIN level : level[k] \in N
    BY <1>1 DEF MerkleInv
  <2> QED BY <1>1, <1>5, <2>1, ReduceIsClosed
<1> QED BY <1>1, <1>4, <1>6 DEF MerkleInv, WellFormed

LEMMA ProvedKeeps ==
  ASSUME MerkleInv, Proved
  PROVE  MerkleInv'
<1>1. /\ phase = "build" /\ phase' = "proved" /\ Len(level) = 1
      /\ stmt' = [root |-> level[1], leaf |-> leaf_hash(leaves[index + 1])]
      /\ proof' = [siblings |-> path, index |-> index, leaf_count |-> Len(leaves)]
      /\ own' = proof' /\ leaves' = leaves /\ index' = index
  BY DEF Proved
<1>2. PICK T, I, U, D : Tower(leaves, index, T, I, U, path, D) /\ level = T[D] /\ idx = I[D]
  BY <1>1 DEF MerkleInv
<1>3. leaves \in Trees /\ index \in Nat /\ index < Len(leaves) /\ List(leaves)
  BY <1>1, MerkleAssumption DEF MerkleInv
<1>4. Len(leaves) \in Nat /\ List(path) /\ List(level)
  <2>1. D \in 0 .. D
    BY <1>2 DEF Tower
  <2> QED BY <1>2, <1>3, <2>1, ListFacts DEF Tower
<1>5. Finished(T, I, U, D)'
  BY <1>1, <1>2 DEF Finished
<1>6. \E N : Closed(N)' /\ stmt'.root \in N
  <2>1. PICK N : Closed(N) /\ \A k \in DOMAIN level : level[k] \in N
    BY <1>1 DEF MerkleInv
  <2>2. 1 \in DOMAIN level
    BY <1>1, <1>4, ListFacts
  <2>3. Closed(N)'
    BY <1>1, <2>1 DEF Closed
  <2> QED BY <1>1, <2>1, <2>2, <2>3
<1>7. WellFormed(proof)'
  BY <1>1, <1>3, <1>4 DEF WellFormed
<1> QED BY <1>1, <1>3, <1>5, <1>6, <1>7 DEF MerkleInv

----------------------------------------------------------------------------
(* The verifier                                                            *)

LEMMA RightLeaf ==
  ASSUME NEW T, NEW I, NEW U, NEW D, Finished(T, I, U, D), List(leaves), NEW j \in Nat, j < Len(leaves)
  PROVE  T[0][j + 1] = leaf_hash(leaves[j + 1]) /\ Len(T[0]) = Len(leaves)
<1>1. Len(leaves) \in Nat /\ DOMAIN leaves = 1 .. Len(leaves)
  BY ListFacts
<1>2. T[0] = base_level(leaves) /\ j + 1 \in DOMAIN leaves
  BY <1>1 DEF Finished, Tower
<1>3. T[0] = [k \in 1 .. Len(leaves) |-> T[0][k]]
  BY <1>1, <1>2 DEF base_level
<1> QED BY <1>1, <1>2, <1>3, ListMade DEF base_level

\* The verifier is shown a well-formed proof.
LEMMA VerifyKeeps ==
  ASSUME MerkleInv, phase = "proved", NEW l, NEW p, WellFormed(p), Verify(l, p)
  PROVE  MerkleInv'
<1>1. /\ stmt' = [root |-> stmt.root, leaf |-> l] /\ proof' = p
      /\ leaves' = leaves /\ index' = index /\ own' = own
      /\ stmt'.root = stmt.root /\ stmt'.leaf = l
  BY DEF Verify, MerkleInv
<1>2. leaves \in Trees /\ index \in Nat /\ index < Len(leaves) /\ List(leaves) /\ Len(leaves) \in Nat
  BY MerkleAssumption, ListFacts DEF MerkleInv
<1>3. PICK T, I, U, D : Finished(T, I, U, D)
  BY DEF MerkleInv
<1>4. WellFormed(proof)'
  BY <1>1 DEF WellFormed
<1>5. CASE Malformed(p)
  <2>1. phase' = "done" /\ result' = "reject"
    BY <1>5 DEF Verify
  <2>2. own.index = index /\ own.leaf_count = Len(leaves)
    BY <1>3 DEF Finished
  <2>3. p # own
    BY <1>2, <1>5, <2>2 DEF Malformed
  <2>4. AcceptedIsIncluded'
    BY <1>1, <2>1, <2>3
       DEF AcceptedIsIncluded, HonestIsAccepted, AcceptedLeafIsMember, PositionIsBound, Accepted
  <2> QED BY <1>1, <1>2, <1>4, <2>1, <2>4 DEF MerkleInv
<1>6. CASE ~Malformed(p)
  <2>1. /\ phase' = "replay" /\ hash' = l /\ idx' = p.index /\ n' = p.leaf_count /\ used' = 0
    BY <1>6 DEF Verify
  <2>2. p.index \in Nat /\ p.leaf_count \in Nat /\ p.index < p.leaf_count
        /\ p.leaf_count >= 1 /\ Len(p.siblings) \in Nat
    BY <1>6, ListFacts DEF Malformed, WellFormed
  <2>3. Cursor'
    BY <1>1, <2>1, <2>2 DEF Cursor
  <2>4. Finished(T, I, U, D)'
    BY <1>1, <1>3 DEF Finished
  <2>5. ASSUME p.leaf_count = Len(leaves)
        PROVE  Follows(T, I, U, D, 0)'
    <3>1. 0 \in 0 .. D /\ I[0] = index /\ U[0] = 0
      BY <1>3 DEF Finished, Tower
    <3>2. n' = Len(T[0])
      BY <1>2, <1>3, <2>1, <2>5, RightLeaf
    <3>3. p = own => p.index = index
      BY <1>3 DEF Finished
    <3>4. \A j \in 1 .. 0 : p.siblings[j] = own.siblings[j]
      OBVIOUS
    <3> QED BY <1>1, <2>1, <3>1, <3>2, <3>3, <3>4 DEF Follows
  <2>6. \E N : Closed(N)' /\ stmt'.root \in N /\ (hash' \in N => stmt'.leaf \in N)
    <3>1. PICK N : Closed(N) /\ stmt.root \in N
      BY DEF MerkleInv
    <3>2. Closed(N)'
      BY <1>1, <3>1 DEF Closed
    <3> QED BY <1>1, <2>1, <3>1, <3>2
  <2>7. \E TT, II, UU, DD : /\ Finished(TT, II, UU, DD)'
                            /\ proof'.leaf_count = Len(leaves') => \E d : Follows(TT, II, UU, DD, d)'
    BY <1>1, <2>4, <2>5
  <2> QED BY <1>1, <1>2, <1>4, <2>1, <2>3, <2>6, <2>7 DEF MerkleInv
<1> QED BY <1>5, <1>6

LEMMA ShowKeeps ==
  ASSUME MerkleInv, Show
  PROVE  MerkleInv'
<1>1. phase = "proved" /\ WellFormed(proof) /\ leaves \in Trees
  BY DEF Show, MerkleInv
<1>2. CASE Verify(stmt.leaf, proof)
  BY <1>1, <1>2, VerifyKeeps
<1>3. CASE Verify(stmt.leaf, [proof EXCEPT !.leaf_count = IncludeCount(proof.siblings)])
  <2> DEFINE p == [proof EXCEPT !.leaf_count = IncludeCount(proof.siblings)]
  <2>1. Len(proof.siblings) \in Nat
    BY <1>1, ListFacts DEF WellFormed
  <2>2. IncludeCount(proof.siblings) \in Nat
    BY <2>1, PowerIsNat DEF IncludeCount
  <2>3. WellFormed(p)
    BY <1>1, <2>2 DEF WellFormed
  <2> QED BY <1>1, <1>3, <2>3, VerifyKeeps
<1>4. ASSUME NEW o \in Offers(leaves), Verify(o.leaf, o.proof)
      PROVE  MerkleInv'
  <2>1. WellFormed(o.proof)
    BY <1>1, MerkleAssumption DEF WellFormed
  <2> QED BY <1>1, <1>4, <2>1, VerifyKeeps
<1> QED BY <1>2, <1>3, <1>4 DEF Show

\* A parent tells its children, and the hash of a pair is not that of a leaf.
LEMMA HashesTell ==
  ASSUME NEW a, NEW b, NEW c, NEW d
  PROVE  /\ node_hash(a, b) = node_hash(c, d) <=> a = c /\ b = d
         /\ node_hash(a, b) # leaf_hash(c)
BY DEF node_hash, leaf_hash

\* What the climb from a node of level d to its parent does to the verifier that
\* follows the tower.
LEMMA ReplayFollows ==
  ASSUME NEW T, NEW I, NEW U, NEW D, Finished(T, I, U, D), Cursor, Replay,
         NEW d, Follows(T, I, U, D, d)
  PROVE  Follows(T, I, U, D, d + 1)'
<1>1. /\ D \in Nat /\ d \in 0 .. D /\ n = Len(T[d]) /\ n > 1 /\ n \in Nat
      /\ idx \in Nat /\ idx < n /\ used \in Nat
      /\ idx' = idx \div 2 /\ n' = (n + 1) \div 2
      /\ leaves' = leaves /\ index' = index /\ own' = own /\ stmt' = stmt /\ proof' = proof
  BY DEF Finished, Tower, Cursor, Replay, Follows
<1>2. d \in 0 .. D - 1 /\ d + 1 \in 0 .. D
  <2>1. Len(T[D]) = 1
    BY DEF Finished
  <2>2. ASSUME d = D PROVE FALSE
    <3>1. n = Len(T[D])
      BY <1>1, <2>2
    <3> QED BY <1>1, <2>1, <3>1
  <2> QED BY <1>1, <2>2
<1>3. /\ List(T[d]) /\ I[d] \in Nat /\ I[d] < n /\ U[d] \in Nat
      /\ T[d + 1] = NextLevel(T[d]) /\ I[d + 1] = I[d] \div 2
      /\ IF Promoted(I[d], n) THEN U[d + 1] = U[d]
         ELSE U[d + 1] = U[d] + 1 /\ own.siblings[U[d] + 1] = Sibling(T[d], I[d])
  BY <1>1, <1>2 DEF Finished, Tower
<1>4. /\ n' = Len(T[d + 1])
      /\ T[d + 1][idx' + 1] =
           IF Promoted(idx, n) THEN T[d][idx + 1]
           ELSE IF idx % 2 = 0 THEN node_hash(T[d][idx + 1], Sibling(T[d], idx))
           ELSE node_hash(Sibling(T[d], idx), T[d][idx + 1])
  <2> DEFINE s == T[d]
  <2>1. List(s) /\ idx < Len(s) /\ n = Len(s)
    BY <1>1, <1>3
  <2> HIDE DEF s
  <2>2. /\ Len(NextLevel(s)) = (n + 1) \div 2
        /\ NextLevel(s)[idx \div 2 + 1] =
             IF Promoted(idx, n) THEN s[idx + 1]
             ELSE IF idx % 2 = 0 THEN node_hash(s[idx + 1], Sibling(s, idx))
             ELSE node_hash(Sibling(s, idx), s[idx + 1])
    BY <1>1, <2>1, Upwards
  <2> QED BY <1>1, <1>3, <2>2 DEF s
<1>5. CASE Promoted(idx, n)
  <2>1. hash' = hash /\ used' = used
    BY <1>5 DEF Replay
  <2>2. hash' = T[d + 1][idx' + 1] <=> hash = T[d][idx + 1]
    BY <1>4, <1>5, <2>1
  <2>3. proof.index = index => idx' = I[d + 1] /\ used' = U[d + 1]
    BY <1>1, <1>3, <1>5, <2>1 DEF Follows
  <2> QED BY <1>1, <1>2, <1>4, <2>1, <2>2, <2>3 DEF Follows
<1>6. CASE ~Promoted(idx, n)
  <2> DEFINE sib == proof.siblings[used + 1]
  <2>1. used' = used + 1
        /\ hash' = IF idx % 2 = 0 THEN node_hash(hash, sib) ELSE node_hash(sib, hash)
    BY <1>6 DEF Replay, Climb
  <2>2. hash' = T[d + 1][idx' + 1] <=> hash = T[d][idx + 1] /\ sib = Sibling(T[d], idx)
    BY <1>4, <1>6, <2>1, HashesTell
  <2>3. ASSUME proof.index = index
        PROVE  /\ idx' = I[d + 1] /\ used' = U[d + 1]
               /\ own.siblings[used + 1] = Sibling(T[d], idx)
    BY <1>1, <1>3, <1>6, <2>1, <2>3 DEF Follows
  <2>4. ASSUME proof.index = index, hash' = T[d + 1][idx' + 1], NEW j \in 1 .. used'
        PROVE  proof.siblings[j] = own.siblings[j]
    <3>1. \A k \in 1 .. used : proof.siblings[k] = own.siblings[k]
      BY <2>2, <2>4 DEF Follows
    <3>2. sib = own.siblings[used + 1]
      BY <2>2, <2>3, <2>4
    <3>3. j \in 1 .. used \/ j = used + 1
      BY <1>1, <2>1
    <3> QED BY <3>1, <3>2, <3>3
  <2>5. ASSUME proof = own, stmt.leaf = T[0][index + 1]
        PROVE  hash' = T[d + 1][idx' + 1]
    <3>1. hash = T[d][idx + 1] /\ own.index = index
      BY <2>5 DEF Follows, Finished
    <3>2. sib = Sibling(T[d], idx)
      BY <2>3, <2>5, <3>1
    <3> QED BY <2>2, <3>1, <3>2
  <2>6. hash' = T[d + 1][idx' + 1] => stmt.leaf = T[0][proof.index + 1]
    BY <2>2 DEF Follows
  <2> HIDE DEF sib
  <2> QED BY <1>1, <1>2, <1>4, <2>3, <2>4, <2>5, <2>6 DEF Follows
<1> QED BY <1>5, <1>6

LEMMA ReplayKeeps ==
  ASSUME MerkleInv, Replay
  PROVE  MerkleInv'
<1>1. /\ phase = "replay" /\ phase' = "replay" /\ n > 1
      /\ idx' = idx \div 2 /\ n' = (n + 1) \div 2
      /\ leaves' = leaves /\ index' = index /\ own' = own /\ stmt' = stmt /\ proof' = proof
  BY DEF Replay
<1>2. Cursor /\ List(proof.siblings) /\ Len(proof.siblings) \in Nat
  BY <1>1, ListFacts DEF MerkleInv, WellFormed
<1>3. Cursor'
  <2>1. n \in Nat /\ idx \in Nat /\ idx < n /\ used \in Nat /\ used <= Len(proof.siblings)
    BY <1>2 DEF Cursor
  <2>2. n' \in Nat /\ n' >= 1 /\ idx' \in Nat /\ idx' < n'
    BY <1>1, <2>1
  <2>3. used' \in Nat /\ used' <= Len(proof.siblings)
    BY <1>2, <2>1, SMTT(40) DEF Replay
  <2> QED BY <1>1, <1>2, <2>2, <2>3 DEF Cursor
<1>4. PICK T, I, U, D : /\ Finished(T, I, U, D)
                        /\ proof.leaf_count = Len(leaves) => \E d : Follows(T, I, U, D, d)
  BY <1>1 DEF MerkleInv
<1>5. Finished(T, I, U, D)'
  BY <1>1, <1>4 DEF Finished
<1>6. proof'.leaf_count = Len(leaves') => \E d : Follows(T, I, U, D, d)'
  BY <1>1, <1>2, <1>4, ReplayFollows
<1>7. \E N : Closed(N)' /\ stmt'.root \in N /\ (hash' \in N => stmt'.leaf \in N)
  <2>1. PICK N : Closed(N) /\ stmt.root \in N /\ (hash \in N => stmt.leaf \in N)
    BY <1>1 DEF MerkleInv
  <2>2. Closed(N)'
    BY <1>1, <2>1 DEF Closed
  <2>3. ASSUME hash' \in N PROVE hash \in N
    <3>1. hash' = hash \/ \E sib : hash' = node_hash(hash, sib) \/ hash' = node_hash(sib, hash)
      BY DEF Replay, Climb
    <3>2. \A l, r : hash' = node_hash(l, r) => l \in N /\ r \in N
      BY <2>1, <2>3, HashesTell DEF Closed
    <3> QED BY <2>3, <3>1, <3>2
  <2> QED BY <1>1, <2>1, <2>2, <2>3
<1>8. \E TT, II, UU, DD : /\ Finished(TT, II, UU, DD)'
                          /\ proof'.leaf_count = Len(leaves') => \E d : Follows(TT, II, UU, DD, d)'
  BY <1>5, <1>6
<1> QED BY <1>1, <1>3, <1>7, <1>8 DEF MerkleInv, WellFormed

LEMMA PathTooShortKeeps ==
  ASSUME MerkleInv, PathTooShort
  PROVE  MerkleInv'
<1>1. /\ phase = "replay" /\ phase' = "done" /\ result' = "reject" /\ n > 1
      /\ ~Promoted(idx, n) /\ used = Len(proof.siblings)
      /\ leaves' = leaves /\ index' = index /\ own' = own /\ stmt' = stmt /\ proof' = proof
  BY DEF PathTooShort
<1>2. PICK T, I, U, D : /\ Finished(T, I, U, D)
                        /\ proof.leaf_count = Len(leaves) => \E d : Follows(T, I, U, D, d)
  BY <1>1 DEF MerkleInv
<1>3. ASSUME proof = own PROVE FALSE
  <2>1. proof.leaf_count = Len(leaves) /\ proof.index = index
    BY <1>2, <1>3 DEF Finished
  <2>2. PICK d : Follows(T, I, U, D, d)
    BY <1>2, <2>1
  <2>3. D \in Nat /\ d \in 0 .. D /\ n = Len(T[d]) /\ idx = I[d] /\ used = U[d] /\ d # D
    <3>1. D \in Nat /\ Len(T[D]) = 1 /\ d \in 0 .. D /\ n = Len(T[d]) /\ idx = I[d] /\ used = U[d]
      BY <1>2, <2>1, <2>2 DEF Follows, Finished, Tower
    <3>2. ASSUME d = D PROVE FALSE
      <4>1. n = Len(T[D])
        BY <3>1, <3>2
      <4> QED BY <1>1, <3>1, <4>1
    <3> QED BY <3>1, <3>2
  <2>4. d \in 0 .. D - 1 /\ d + 1 \in 0 .. D
    BY <2>3
  <2>5. U[d + 1] = U[d] + 1 /\ U[d] \in Nat
    BY <1>1, <1>2, <2>3, <2>4 DEF Finished, Tower
  <2>6. U[d + 1] <= Len(own.siblings)
    BY <1>2, <2>4 DEF Finished, Tower
  <2> QED BY <1>1, <1>3, <2>3, <2>5, <2>6
<1>4. AcceptedIsIncluded'
  BY <1>1, <1>3
     DEF AcceptedIsIncluded, HonestIsAccepted, AcceptedLeafIsMember, PositionIsBound, Accepted
<1> QED BY <1>1, <1>4 DEF MerkleInv, WellFormed

LEMMA ConcludeKeeps ==
  ASSUME MerkleInv, Conclude
  PROVE  MerkleInv'
<1>1. /\ phase = "replay" /\ phase' = "done" /\ n = 1
      /\ result' = IF Accepts THEN "accept" ELSE "reject"
      /\ leaves' = leaves /\ index' = index /\ own' = own /\ stmt' = stmt /\ proof' = proof
  BY DEF Conclude
<1>2. PICK T, I, U, D : /\ Finished(T, I, U, D)
                        /\ proof.leaf_count = Len(leaves) => \E d : Follows(T, I, U, D, d)
  BY <1>1 DEF MerkleInv
<1>3. /\ idx = 0 /\ proof.index \in Nat /\ proof.index < proof.leaf_count
      /\ List(proof.siblings) /\ List(own.siblings)
  BY <1>1, <1>2 DEF MerkleInv, Cursor, WellFormed, Finished, Tower
<1>4. leaves \in Trees /\ index \in Nat /\ index < Len(leaves) /\ List(leaves)
  BY <1>1, MerkleAssumption DEF MerkleInv
<1>5. ASSUME proof.leaf_count = Len(leaves)
      PROVE  /\ hash = stmt.root => stmt.leaf = leaf_hash(leaves[proof.index + 1])
             /\ hash = stmt.root /\ proof.index = index =>
                  /\ used = Len(own.siblings)
                  /\ \A j \in 1 .. used : proof.siblings[j] = own.siblings[j]
             /\ proof = own /\ stmt.leaf = leaf_hash(leaves[index + 1]) => Accepts
  <2>1. PICK d : Follows(T, I, U, D, d)
    BY <1>2, <1>5
  <2>2. d = D
    <3>1. D \in Nat /\ d \in 0 .. D /\ n = Len(T[d])
      BY <1>2, <2>1 DEF Follows, Finished, Tower
    <3>2. \A e \in 0 .. D - 1 : Len(T[e]) > 1
      BY <1>2 DEF Finished, Tower
    <3>3. ASSUME d # D PROVE FALSE
      <4>1. d \in 0 .. D - 1
        BY <3>1, <3>3
      <4>2. Len(T[d]) > 1
        BY <3>2, <4>1
      <4>3. n > 1
        BY <3>1, <4>2
      <4> QED BY <1>1, <4>3
    <3> QED BY <3>3
  <2>3. stmt.root = T[d][idx + 1] /\ U[d] = Len(own.siblings)
    BY <1>2, <1>3, <2>2 DEF Finished, Tower
  <2>4. /\ T[0][proof.index + 1] = leaf_hash(leaves[proof.index + 1])
        /\ T[0][index + 1] = leaf_hash(leaves[index + 1])
    BY <1>2, <1>3, <1>4, <1>5, RightLeaf
  <2>5. proof = own => proof.index = index
    BY <1>2 DEF Finished
  <2> QED BY <2>1, <2>3, <2>4, <2>5 DEF Follows, Accepts
<1>6. HonestIsAccepted'
  <2>1. proof = own => proof.leaf_count = Len(leaves)
    BY <1>2 DEF Finished
  <2> QED BY <1>1, <1>5, <2>1 DEF HonestIsAccepted, Accepted
<1>7. AcceptedLeafIsMember'
  <2>1. PICK N : Closed(N) /\ stmt.root \in N /\ (hash \in N => stmt.leaf \in N)
    BY <1>1 DEF MerkleInv
  <2>2. Accepts => stmt.leaf \in N
    BY <2>1 DEF Accepts
  <2>3. ASSUME stmt.leaf \in N, stmt.leaf[1] = "leaf"
        PROVE  \E k \in DOMAIN leaves : stmt.leaf = leaf_hash(leaves[k])
    BY <2>1, <2>3 DEF Closed, node_hash
  <2> QED BY <1>1, <2>2, <2>3 DEF AcceptedLeafIsMember, Accepted
<1>8. PositionIsBound'
  <2>1. ASSUME Accepts, proof.leaf_count = Len(leaves), proof.index = index
        PROVE  proof.siblings = own.siblings
    <3>1. used = Len(own.siblings) /\ used = Len(proof.siblings)
          /\ \A j \in 1 .. used : proof.siblings[j] = own.siblings[j]
      BY <1>5, <2>1 DEF Accepts
    <3> QED BY <1>3, <3>1, ListEqual
  <2>2. Accepts => hash = stmt.root
    BY DEF Accepts
  <2> QED BY <1>1, <1>5, <2>1, <2>2 DEF PositionIsBound, Accepted
<1> QED BY <1>1, <1>4, <1>6, <1>7, <1>8 DEF MerkleInv, WellFormed, AcceptedIsIncluded

LEMMA MerkleStep == MerkleInv /\ [Next]_vars => MerkleInv'
<1> SUFFICES ASSUME MerkleInv, [Next]_vars PROVE MerkleInv'
  OBVIOUS
<1>1. ASSUME NEW w \in Trees, NEW k \in 0 .. Len(w), Prove(w, k) PROVE MerkleInv'
  BY <1>1, ProveKeeps
<1>2. ASSUME NEW w \in Trees, NEW k \in 0 .. Len(w), ProveFails(w, k) PROVE MerkleInv'
  BY <1>2 DEF ProveFails, MerkleInv, WellFormed
<1>3. CASE Reduce
  BY <1>3, ReduceKeeps
<1>4. CASE Proved
  BY <1>4, ProvedKeeps
<1>5. CASE Show
  BY <1>5, ShowKeeps
<1>6. CASE Replay
  BY <1>6, ReplayKeeps
<1>7. CASE PathTooShort
  BY <1>7, PathTooShortKeeps
<1>8. CASE Conclude
  BY <1>8, ConcludeKeeps
<1>9. CASE Reset
  <2>1. List(<< >>)
    <3>1. << >> \in Seq({<< >>[j] : j \in DOMAIN << >>})
      OBVIOUS
    <3> QED BY <3>1 DEF List
  <2> QED BY <1>9, <2>1 DEF Reset, MerkleInv, WellFormed, NoStatement, NoProof
<1>10. CASE UNCHANGED vars
  BY <1>10 DEF vars, MerkleInv, WellFormed, Cursor, Finished, Follows, Closed, AcceptedIsIncluded,
               HonestIsAccepted, AcceptedLeafIsMember, PositionIsBound, Accepted
<1> QED BY <1>1, <1>2, <1>3, <1>4, <1>5, <1>6, <1>7, <1>8, <1>9, <1>10 DEF Next

\* For every tree and every proof: verify accepts what prove made, accepts no leaf that
\* is not in the tree, and with the right leaf count only the leaf at the index, by the
\* prover's own path (merkle.rs:193-247).
THEOREM MerkleIsSound == Spec => []AcceptedIsIncluded
<1>1. MerkleInv => AcceptedIsIncluded
  BY DEF MerkleInv, AcceptedIsIncluded, HonestIsAccepted, AcceptedLeafIsMember, PositionIsBound,
         Accepted
<1> QED BY <1>1, MerkleInit, MerkleStep, PTL DEF Spec

----------------------------------------------------------------------------
(* The tree of RFC 6962                                                    *)

\* A list splits at the one power of two below its length and not below half of it.
LEMMA SplitIs ==
  ASSUME NEW e \in Nat, NEW r \in Nat, r >= 1, r <= 2 ^ e
  PROVE  Split(2 ^ e + r) = 2 ^ e
<1> DEFINE p == 2 ^ e
           m == p + r
           Splits(x) == x < m /\ m <= 2 * x
<1>1. p \in Nat /\ e < p /\ r <= p
  BY PowerIsNat, PowerExceeds
<1>2. p \in {2 ^ f : f \in 0 .. m} /\ Splits(p)
  <2>1. e \in 0 .. m
    BY <1>1
  <2>2. Splits(p)
    <3> HIDE DEF p
    <3> QED BY <1>1
  <2> QED BY <2>1, <2>2
<1>3. ASSUME NEW x \in {2 ^ f : f \in 0 .. m}, Splits(x) PROVE x = p
  <2>1. PICK f \in 0 .. m : x = 2 ^ f
    OBVIOUS
  <2>2. f \in Nat /\ x \in Nat
    BY <1>1, <2>1, PowerIsNat
  <2>3. CASE f > e
    <3>1. f - (e + 1) \in Nat /\ e + 1 \in Nat /\ (e + 1) + (f - (e + 1)) = f
      BY <2>2, <2>3
    <3>2. 2 ^ (e + 1) <= 2 ^ ((e + 1) + (f - (e + 1)))
      BY <3>1, PowersGrow
    <3>3. 2 ^ (e + 1) = 2 * p
      BY PowerDoubles
    <3>4. 2 * p <= x
      BY <2>1, <3>1, <3>2, <3>3
    <3> HIDE DEF p
    <3> QED BY <1>1, <1>3, <2>2, <3>4
  <2>4. CASE f < e
    <3>1. e - (f + 1) \in Nat /\ f + 1 \in Nat /\ (f + 1) + (e - (f + 1)) = e
      BY <2>2, <2>4
    <3>2. 2 ^ (f + 1) <= 2 ^ ((f + 1) + (e - (f + 1)))
      BY <3>1, PowersGrow
    <3>3. 2 ^ (f + 1) = 2 * x
      BY <2>1, <2>2, PowerDoubles
    <3>4. 2 * x <= p
      BY <3>1, <3>2, <3>3
    <3> HIDE DEF p
    <3> QED BY <1>1, <1>3, <2>2, <3>4
  <2>5. CASE f = e
    BY <2>1, <2>5
  <2> QED BY <2>2, <2>3, <2>4, <2>5
<1>4. Split(m) = CHOOSE x \in {2 ^ f : f \in 0 .. m} : Splits(x)
  BY DEF Split
<1> HIDE DEF Splits, m
<1>5. (CHOOSE x \in {2 ^ f : f \in 0 .. m} : Splits(x)) = p
  BY <1>2, <1>3
<1> QED BY <1>4, <1>5 DEF m

LEMMA SplitFacts ==
  ASSUME NEW m \in Nat, m >= 2
  PROVE  Split(m) \in 1 .. m - 1 /\ m - Split(m) \in 1 .. m - 1
<1> DEFINE E == {e \in Nat : m <= 2 ^ (e + 1)}
<1>1. m \in E
  <2>1. m < 2 ^ m /\ 2 ^ m \in Nat /\ 2 ^ m <= 2 ^ (m + 1) /\ 2 ^ (m + 1) \in Nat
    BY PowerExceeds, PowerIsNat, PowersGrow
  <2> QED BY <2>1
<1>2. PICK e \in E : \A f \in E : e <= f
  <2>1. E \in SUBSET Nat /\ E # {}
    BY <1>1
  <2> HIDE DEF E
  <2> QED BY <2>1, Least
<1> DEFINE p == 2 ^ e
<1>3. e \in Nat /\ p \in Nat /\ p >= 1 /\ 2 ^ (e + 1) = 2 * p /\ m <= 2 ^ (e + 1)
  BY <1>2, PowerIsNat, PowerIsPositive, PowerDoubles
<1>4. p < m
  <2>1. CASE e = 0
    <3>1. 2 ^ 0 = 1
      OBVIOUS
    <3> QED BY <2>1, <3>1
  <2>2. CASE e # 0
    <3>1. e - 1 \in Nat /\ e - 1 + 1 = e /\ ~(e <= e - 1)
      BY <1>3, <2>2
    <3>2. e - 1 \notin E
      BY <1>2, <3>1
    <3>3. ~(m <= p)
      BY <3>1, <3>2
    <3> QED BY <1>3, <3>3
  <2> QED BY <2>1, <2>2
<1> HIDE DEF E, p
<1>5. m - p \in Nat /\ m - p >= 1 /\ m - p <= p /\ m = p + (m - p)
  BY <1>3, <1>4
<1>6. Split(p + (m - p)) = p
  BY <1>3, <1>5, SplitIs DEF p
<1>7. Split(m) = p
  BY <1>5, <1>6
<1> QED BY <1>3, <1>4, <1>7

HashStep(w, f, m) ==
  [k \in 0 .. Len(w) - m |->
     IF m = 1 THEN leaf_hash(w[k + 1])
     ELSE node_hash(f[Split(m)][k], f[m - Split(m)][k + Split(m)])]

LEMMA HashesExist ==
  ASSUME NEW w, NEW size \in Nat
  PROVE  \E f : f = [m \in 1 .. size |-> HashStep(w, f, m)]
<1> DEFINE S == {j \in Nat : \E f : f = [m \in 1 .. j |-> HashStep(w, f, m)]}
<1>1. 0 \in S
  <2> DEFINE f == [m \in 1 .. 0 |-> << >>]
  <2>1. f = [m \in 1 .. 0 |-> HashStep(w, f, m)]
    <3>1. 1 .. 0 = {}
      OBVIOUS
    <3> QED BY <3>1
  <2> QED BY <2>1
<1>2. ASSUME NEW j \in Nat, j \in S PROVE j + 1 \in S
  <2>1. PICK f : f = [m \in 1 .. j |-> HashStep(w, f, m)]
    BY <1>2
  <2> DEFINE g == [m \in 1 .. j + 1 |-> IF m = j + 1 THEN HashStep(w, f, m) ELSE f[m]]
  <2>2. g = [m \in 1 .. j + 1 |-> g[m]] /\ \A m \in 1 .. j : g[m] = f[m]
    OBVIOUS
  <2>3. ASSUME NEW m \in 1 .. j + 1 PROVE g[m] = HashStep(w, g, m)
    <3>1. g[m] = HashStep(w, f, m)
      <4>1. CASE m = j + 1
        BY <4>1
      <4>2. CASE m # j + 1
        <5>1. m \in 1 .. j /\ g[m] = f[m]
          BY <4>2
        <5> QED BY <2>1, <5>1
      <4> QED BY <4>1, <4>2
    <3>2. CASE m = 1
      BY <3>1, <3>2 DEF HashStep
    <3>3. CASE m # 1
      <4>1. Split(m) \in 1 .. m - 1 /\ m - Split(m) \in 1 .. m - 1
        BY <3>3, SplitFacts
      <4>2. Split(m) \in 1 .. j /\ m - Split(m) \in 1 .. j
        BY <4>1
      <4>3. g[Split(m)] = f[Split(m)] /\ g[m - Split(m)] = f[m - Split(m)]
        BY <2>2, <4>2
      <4> HIDE DEF g
      <4> QED BY <3>1, <4>3 DEF HashStep
    <3> QED BY <3>2, <3>3
  <2> HIDE DEF g
  <2>4. g = [m \in 1 .. j + 1 |-> HashStep(w, g, m)]
    BY <2>2, <2>3
  <2> QED BY <2>4
<1> HIDE DEF S
<1>3. size \in S
  BY <1>1, <1>2, Induction
<1> QED BY <1>3 DEF S

\* The hash of a part of the list is that of a leaf or of the two parts it splits into.
LEMMA HashesAre ==
  ASSUME NEW w, Len(w) \in Nat, NEW m \in 1 .. Len(w), NEW k \in 0 .. Len(w) - m
  PROVE  TreeHashes(w)[m][k] =
           IF m = 1 THEN leaf_hash(w[k + 1])
           ELSE node_hash(TreeHashes(w)[Split(m)][k], TreeHashes(w)[m - Split(m)][k + Split(m)])
<1> DEFINE f == CHOOSE g : g = [j \in 1 .. Len(w) |-> HashStep(w, g, j)]
<1>1. TreeHashes(w) = f
  BY DEF TreeHashes, HashStep
<1>2. f = [j \in 1 .. Len(w) |-> HashStep(w, f, j)]
  <2>1. \E g : g = [j \in 1 .. Len(w) |-> HashStep(w, g, j)]
    BY HashesExist
  <2> QED BY <2>1
<1> HIDE DEF f
<1>3. f[m] = HashStep(w, f, m)
  BY <1>2
<1> QED BY <1>1, <1>3 DEF HashStep

PathStep(w, f, m) ==
  [k \in 0 .. Len(w) - m |->
     [i \in k .. k + m - 1 |->
        IF m = 1 THEN << >>
        ELSE IF i < k + Split(m)
        THEN Append(f[Split(m)][k][i], TreeHashes(w)[m - Split(m)][k + Split(m)])
        ELSE Append(f[m - Split(m)][k + Split(m)][i], TreeHashes(w)[Split(m)][k])]]

LEMMA PathsExist ==
  ASSUME NEW w, NEW size \in Nat
  PROVE  \E f : f = [m \in 1 .. size |-> PathStep(w, f, m)]
<1> DEFINE S == {j \in Nat : \E f : f = [m \in 1 .. j |-> PathStep(w, f, m)]}
<1>1. 0 \in S
  <2> DEFINE f == [m \in 1 .. 0 |-> << >>]
  <2>1. f = [m \in 1 .. 0 |-> PathStep(w, f, m)]
    <3>1. 1 .. 0 = {}
      OBVIOUS
    <3> QED BY <3>1
  <2> QED BY <2>1
<1>2. ASSUME NEW j \in Nat, j \in S PROVE j + 1 \in S
  <2>1. PICK f : f = [m \in 1 .. j |-> PathStep(w, f, m)]
    BY <1>2
  <2> DEFINE g == [m \in 1 .. j + 1 |-> IF m = j + 1 THEN PathStep(w, f, m) ELSE f[m]]
  <2>2. g = [m \in 1 .. j + 1 |-> g[m]] /\ \A m \in 1 .. j : g[m] = f[m]
    OBVIOUS
  <2>3. ASSUME NEW m \in 1 .. j + 1 PROVE g[m] = PathStep(w, g, m)
    <3>1. g[m] = PathStep(w, f, m)
      <4>1. CASE m = j + 1
        BY <4>1
      <4>2. CASE m # j + 1
        <5>1. m \in 1 .. j /\ g[m] = f[m]
          BY <4>2
        <5> QED BY <2>1, <5>1
      <4> QED BY <4>1, <4>2
    <3>2. CASE m = 1
      BY <3>1, <3>2 DEF PathStep
    <3>3. CASE m # 1
      <4>1. Split(m) \in 1 .. m - 1 /\ m - Split(m) \in 1 .. m - 1
        BY <3>3, SplitFacts
      <4>2. Split(m) \in 1 .. j /\ m - Split(m) \in 1 .. j
        BY <4>1
      <4>3. g[Split(m)] = f[Split(m)] /\ g[m - Split(m)] = f[m - Split(m)]
        BY <2>2, <4>2
      <4> HIDE DEF g
      <4> QED BY <3>1, <4>3 DEF PathStep
    <3> QED BY <3>2, <3>3
  <2> HIDE DEF g
  <2>4. g = [m \in 1 .. j + 1 |-> PathStep(w, g, m)]
    BY <2>2, <2>3
  <2> QED BY <2>4
<1> HIDE DEF S
<1>3. size \in S
  BY <1>1, <1>2, Induction
<1> QED BY <1>3 DEF S

\* The path in a part of the list is that in the half with the leaf, and then the hash
\* of the other half.
LEMMA PathsAre ==
  ASSUME NEW w, Len(w) \in Nat, NEW m \in 1 .. Len(w), NEW k \in 0 .. Len(w) - m,
         NEW i \in k .. k + m - 1
  PROVE  AuditPaths(w)[m][k][i] =
           IF m = 1 THEN << >>
           ELSE IF i < k + Split(m)
           THEN Append(AuditPaths(w)[Split(m)][k][i], TreeHashes(w)[m - Split(m)][k + Split(m)])
           ELSE Append(AuditPaths(w)[m - Split(m)][k + Split(m)][i], TreeHashes(w)[Split(m)][k])
<1> DEFINE f == CHOOSE g : g = [j \in 1 .. Len(w) |-> PathStep(w, g, j)]
<1>1. AuditPaths(w) = f
  BY DEF AuditPaths, PathStep
<1>2. f = [j \in 1 .. Len(w) |-> PathStep(w, f, j)]
  <2>1. \E g : g = [j \in 1 .. Len(w) |-> PathStep(w, g, j)]
    BY PathsExist
  <2> QED BY <2>1
<1> HIDE DEF f
<1>3. f[m] = PathStep(w, f, m)
  BY <1>2
<1> QED BY <1>1, <1>3 DEF PathStep

----------------------------------------------------------------------------
(* At level d a node stands for 2^d leaves, or those left at the end.      *)

\* Of a list of l leaves: how many of the first b after the first a there are.
PartAt(l, b, a) == IF a + b <= l THEN b ELSE l - a

\* The nodes of s are the hashes of the parts of w of length b.
PartHashes(w, s, b) ==
  /\ Len(s) \in Nat /\ Len(s) >= 1 /\ Len(w) <= Len(s) * b
  /\ \A j \in 0 .. Len(s) - 1 :
       /\ j * b \in Nat /\ j * b < Len(w)
       /\ s[j + 1] = TreeHashes(w)[PartAt(Len(w), b, j * b)][j * b]

\* The i-th node of them has leaf k, whose path there is the first u hashes of P.
On(w, k, i, u, P, b) ==
  LET m == PartAt(Len(w), b, i * b)
      Q == AuditPaths(w)[m][i * b][k]
  IN  /\ i * b <= k /\ k < i * b + m
      /\ List(Q) /\ Len(Q) = u /\ \A x \in 1 .. u : Q[x] = P[x]

LEMMA Doubling ==
  ASSUME NEW j \in Nat, NEW b \in Nat
  PROVE  /\ (2 * j) * b = j * (2 * b) /\ (2 * j + 1) * b = j * (2 * b) + b
         /\ j * (2 * b) \in Nat
OBVIOUS

\* Two parts side by side, of which the left one is full, or a part alone at the end,
\* which is too short for half of the part above it.
LEMMA PartsJoin ==
  ASSUME NEW w, Len(w) \in Nat, NEW e \in Nat, NEW b, b = 2 ^ e, NEW a \in Nat, a < Len(w)
  PROVE  LET l == Len(w)
             m == PartAt(l, 2 * b, a)
             r == PartAt(l, b, a + b)
         IN  /\ b \in Nat /\ b >= 1
             /\ m \in 1 .. l /\ a \in 0 .. l - m
             /\ a + b < l =>
                  /\ PartAt(l, b, a) = b /\ m = b + r /\ r \in 1 .. b /\ m # 1
                  /\ Split(m) = b /\ m - Split(m) = r
             /\ a + b >= l => PartAt(l, b, a) = m
<1> DEFINE l == Len(w)
           m == PartAt(l, 2 * b, a)
           r == PartAt(l, b, a + b)
<1>1. b \in Nat /\ b >= 1
  BY PowerIsNat, PowerIsPositive
<1>2. m \in 1 .. l /\ a \in 0 .. l - m
  <2> HIDE DEF l
  <2>1. l \in Nat /\ a < l
    BY DEF l
  <2>2. m = (IF a + 2 * b <= l THEN 2 * b ELSE l - a)
    BY DEF PartAt
  <2> HIDE DEF m
  <2> QED BY <1>1, <2>1, <2>2
<1>3. a + b >= l => PartAt(l, b, a) = m
  BY <1>1 DEF PartAt
<1>4. a + b < l => PartAt(l, b, a) = b /\ m = b + r /\ r \in 1 .. b /\ m # 1
  <2> HIDE DEF l
  <2>1. l \in Nat /\ a < l
    BY DEF l
  <2>2. /\ m = (IF a + 2 * b <= l THEN 2 * b ELSE l - a)
        /\ r = (IF a + b + b <= l THEN b ELSE l - (a + b))
        /\ PartAt(l, b, a) = (IF a + b <= l THEN b ELSE l - a)
    BY DEF PartAt
  <2> HIDE DEF m, r
  <2> QED BY <1>1, <2>1, <2>2
<1>5. ASSUME a + b < l PROVE Split(m) = b /\ m - Split(m) = r
  <2> HIDE DEF m, r
  <2>1. m = b + r /\ r \in 1 .. b /\ r \in Nat /\ r >= 1 /\ r <= b
    BY <1>1, <1>4, <1>5
  <2>2. r <= 2 ^ e
    BY <2>1
  <2>3. Split(2 ^ e + r) = 2 ^ e
    BY <2>1, <2>2, SplitIs
  <2>4. Split(b + r) = b
    BY <2>3
  <2>5. b + r - b = r
    BY <1>1, <2>1
  <2> QED BY <2>1, <2>4, <2>5
<1> QED BY <1>1, <1>2, <1>3, <1>4, <1>5

\* Folding the hashes of the parts gives those of the parts twice as long.
LEMMA NodesFold ==
  ASSUME NEW w, Len(w) \in Nat, NEW e \in Nat, NEW b, b = 2 ^ e, NEW s, List(s), PartHashes(w, s, b)
  PROVE  PartHashes(w, NextLevel(s), 2 * b)
<1> DEFINE l == Len(w)
           size == Len(s)
           c == (size + 1) \div 2
           up == NextLevel(s)
<1>1. /\ size \in Nat /\ size >= 1 /\ l <= size * b /\ b \in Nat /\ b >= 1 /\ c \in Nat /\ c >= 1
  BY PowerIsNat, PowerIsPositive DEF PartHashes
<1>2. List(up) /\ Len(up) = c
  <2>1. 0 < Len(s)
    BY <1>1
  <2> QED BY <2>1, Upwards
<1>3. l <= c * (2 * b)
  <2>1. 2 * c >= size
    BY <1>1
  <2>2. size * b <= (2 * c) * b
    BY <1>1, <2>1
  <2>3. (2 * c) * b = c * (2 * b) /\ c * (2 * b) \in Nat
    BY <1>1, Doubling
  <2> DEFINE x == size * b
             y == c * (2 * b)
  <2>4. x \in Nat /\ x <= y /\ l <= x /\ y \in Nat
    BY <1>1, <2>2, <2>3
  <2> HIDE DEF x, y
  <2>5. l <= y
    BY <2>4
  <2> QED BY <2>5 DEF y
<1>4. ASSUME NEW j \in 0 .. c - 1
      PROVE  /\ j * (2 * b) \in Nat /\ j * (2 * b) < l
             /\ up[j + 1] = TreeHashes(w)[PartAt(l, 2 * b, j * (2 * b))][j * (2 * b)]
  <2> DEFINE a == j * (2 * b)
             m == PartAt(l, 2 * b, a)
             r == PartAt(l, b, a + b)
  <2>1. /\ j \in Nat /\ 2 * j \in Nat /\ 2 * j < size /\ 2 * j \in 0 .. size - 1
        /\ (2 * j) \div 2 = j /\ (2 * j) % 2 = 0
    BY <1>1
  <2>2. (2 * j) * b = a /\ (2 * j + 1) * b = a + b /\ a \in Nat
    BY <1>1, <2>1, Doubling
  <2>3. a < l /\ s[2 * j + 1] = TreeHashes(w)[PartAt(l, b, a)][a]
    BY <2>1, <2>2 DEF PartHashes
  <2>4. up[j + 1] = IF Promoted(2 * j, size) THEN s[2 * j + 1]
                   ELSE node_hash(s[2 * j + 1], Sibling(s, 2 * j))
    BY <2>1, Upwards
  <2>5. /\ m \in 1 .. l /\ a \in 0 .. l - m
        /\ a + b < l => /\ PartAt(l, b, a) = b /\ m # 1 /\ Split(m) = b /\ m - Split(m) = r
        /\ a + b >= l => PartAt(l, b, a) = m
    BY <2>2, <2>3, PartsJoin, SMTT(40)
  <2> HIDE DEF a, m, r
  <2>6. CASE Promoted(2 * j, size)
    <3>1. size = 2 * j + 1
      BY <1>1, <2>1, <2>6 DEF Promoted
    <3>2. a + b >= l
      BY <1>1, <2>2, <3>1
    <3>3. up[j + 1] = TreeHashes(w)[m][a]
      BY <2>3, <2>4, <2>5, <2>6, <3>2
    <3> QED BY <2>2, <2>3, <3>3 DEF a, m
  <2>7. CASE ~Promoted(2 * j, size)
    <3>1. 2 * j + 1 \in 0 .. size - 1 /\ (2 * j + 1) + 1 = 2 * j + 2
      BY <1>1, <2>1, <2>7 DEF Promoted
    <3>2. a + b < l /\ s[2 * j + 2] = TreeHashes(w)[r][a + b]
      BY <2>2, <3>1 DEF PartHashes, r
    <3>3. Sibling(s, 2 * j) = s[2 * j + 2]
      BY <2>1 DEF Sibling
    <3>4. up[j + 1] = node_hash(TreeHashes(w)[b][a], TreeHashes(w)[r][a + b])
      BY <2>3, <2>4, <2>5, <2>7, <3>2, <3>3
    <3>5. TreeHashes(w)[m][a] = node_hash(TreeHashes(w)[b][a], TreeHashes(w)[r][a + b])
      BY <2>5, <3>2, HashesAre
    <3> QED BY <2>2, <2>3, <3>4, <3>5 DEF a, m
  <2> QED BY <2>6, <2>7
<1> QED BY <1>1, <1>2, <1>3, <1>4 DEF PartHashes

\* The path goes on with the hash of the part next to that of the leaf.
LEMMA PathGoesOn ==
  ASSUME NEW w, Len(w) \in Nat, NEW e \in Nat, NEW b, b = 2 ^ e, NEW s, List(s), PartHashes(w, s, b),
         NEW k \in Nat, NEW i \in Nat, i < Len(s), NEW u, NEW P, On(w, k, i, u, P, b),
         NEW v, IF Promoted(i, Len(s)) THEN v = u
                ELSE v = u + 1 /\ P[u + 1] = Sibling(s, i)
  PROVE  On(w, k, i \div 2, v, P, 2 * b)
<1> DEFINE l == Len(w)
           size == Len(s)
           j == i \div 2
           a == j * (2 * b)
           m == PartAt(l, 2 * b, a)
           r == PartAt(l, b, a + b)
           Q == AuditPaths(w)[PartAt(l, b, i * b)][i * b][k]
<1>1. /\ size \in Nat /\ l <= size * b /\ b \in Nat /\ b >= 1 /\ j \in Nat
      /\ i = 2 * j \/ i = 2 * j + 1
  <2>1. i \div 2 \in Nat /\ (i = 2 * (i \div 2) \/ i = 2 * (i \div 2) + 1)
    OBVIOUS
  <2> QED BY <2>1, PowerIsNat, PowerIsPositive DEF PartHashes
<1>2. (2 * j) * b = a /\ (2 * j + 1) * b = a + b /\ a \in Nat
  BY <1>1, Doubling
<1>3. /\ i * b <= k /\ k < i * b + PartAt(l, b, i * b)
      /\ List(Q) /\ Len(Q) = u /\ \A x \in 1 .. u : Q[x] = P[x]
  BY DEF On
<1>4. u \in Nat
  BY <1>3, ListFacts
<1>5. 2 * j \in 0 .. size - 1
  BY <1>1
<1>6. a < l /\ s[2 * j + 1] = TreeHashes(w)[PartAt(l, b, a)][a]
  BY <1>2, <1>5 DEF PartHashes
<1>7. /\ m \in 1 .. l /\ a \in 0 .. l - m
      /\ a + b < l => /\ PartAt(l, b, a) = b /\ m = b + r /\ r \in 1 .. b /\ m # 1
                      /\ Split(m) = b /\ m - Split(m) = r
      /\ a + b >= l => PartAt(l, b, a) = m
  <2>1. a < Len(w)
    BY <1>6
  <2> HIDE DEF a
  <2> QED BY <1>2, <2>1, PartsJoin
<1> DEFINE R == AuditPaths(w)[m][a][k]
<1>8. SUFFICES /\ a <= k /\ k < a + m
               /\ List(R) /\ Len(R) = v /\ \A x \in 1 .. v : R[x] = P[x]
  BY DEF On
<1>9. CASE Promoted(i, size)
  <2>1. size = 2 * j + 1 /\ i = 2 * j
    BY <1>1, <1>9, SMTT(40) DEF Promoted
  <2>2. i * b = a /\ a + b >= l
    <3>1. size * b = a + b
      BY <1>2, <2>1
    <3> HIDE DEF a
    <3> QED BY <1>1, <1>2, <2>1, <3>1
  <2>3. Q = R /\ PartAt(l, b, a) = m
    BY <1>7, <2>2
  <2> HIDE DEF a, m, Q, R
  <2> QED BY <1>3, <1>9, <2>2, <2>3
<1>10. CASE ~Promoted(i, size)
  <2>1. 2 * j + 1 \in 0 .. size - 1 /\ (2 * j + 1) + 1 = 2 * j + 2
    BY <1>1, <1>10, SMTT(40) DEF Promoted
  <2>2. a + b < l /\ s[2 * j + 2] = TreeHashes(w)[r][a + b]
    BY <1>2, <2>1 DEF PartHashes
  <2>3. ASSUME NEW x, R = Append(Q, x), x = Sibling(s, i)
        PROVE  List(R) /\ Len(R) = v /\ \A y \in 1 .. v : R[y] = P[y]
    <3> HIDE DEF Q, R
    <3>1. /\ List(R) /\ Len(R) = u + 1 /\ R[u + 1] = x /\ \A y \in 1 .. u : R[y] = Q[y]
      BY <1>3, <2>3, ListAppend
    <3>2. v = u + 1 /\ P[u + 1] = x
      BY <1>10, <2>3
    <3>3. \A y \in 1 .. v : y \in 1 .. u \/ y = u + 1
      BY <1>4, <3>2
    <3> QED BY <1>3, <3>1, <3>2, <3>3
  <2>4. CASE i = 2 * j
    <3>1. i * b = a
      BY <1>2, <2>4
    <3>2. a <= k /\ k < a + b /\ k < a + m /\ Q = AuditPaths(w)[b][a][k]
      <4>1. PartAt(l, b, a) = b /\ m = b + r /\ r \in 1 .. b
        BY <1>7, <2>2
      <4>2. a <= k /\ k < a + b /\ Q = AuditPaths(w)[b][a][k]
        BY <1>3, <3>1, <4>1
      <4> HIDE DEF a, m, r, Q
      <4>3. k < a + m
        <5>1. a \in Nat /\ b \in Nat /\ r \in Nat
          BY <1>1, <1>2, <4>1
        <5>2. m = b + r /\ k < a + b
          BY <4>1, <4>2
        <5> QED BY <5>1, <5>2
      <4> QED BY <4>2, <4>3
    <3>3. k \in a .. a + m - 1
      <4> HIDE DEF a, m
      <4> QED BY <1>2, <1>7, <3>2
    <3>4. R = Append(Q, TreeHashes(w)[r][a + b])
      <4> HIDE DEF a, m, r
      <4>1. AuditPaths(w)[m][a][k] =
              IF m = 1 THEN << >>
              ELSE IF k < a + Split(m)
              THEN Append(AuditPaths(w)[Split(m)][a][k], TreeHashes(w)[m - Split(m)][a + Split(m)])
              ELSE Append(AuditPaths(w)[m - Split(m)][a + Split(m)][k], TreeHashes(w)[Split(m)][a])
        BY <1>7, <3>3, PathsAre
      <4>2. m # 1 /\ Split(m) = b /\ m - Split(m) = r /\ k < a + b
        BY <1>7, <2>2, <3>2
      <4> QED BY <4>1, <4>2, <3>2
    <3>5. Sibling(s, i) = TreeHashes(w)[r][a + b]
      <4>1. i % 2 = 0 /\ i + 2 = 2 * j + 2
        BY <1>1, <2>4
      <4> QED BY <2>2, <4>1 DEF Sibling
    <3> HIDE DEF a, m, r, Q, R
    <3> QED BY <2>3, <3>2, <3>4, <3>5
  <2>5. CASE i = 2 * j + 1
    <3>1. i * b = a + b
      BY <1>2, <2>5
    <3>2. a + b <= k /\ k < (a + b) + r /\ Q = AuditPaths(w)[r][a + b][k]
      BY <1>3, <3>1
    <3>3. a <= k /\ k < a + m /\ ~(k < a + b)
      <4> HIDE DEF a, m, r
      <4> QED BY <1>1, <1>2, <1>7, <2>2, <3>2
    <3>4. k \in a .. a + m - 1
      <4> HIDE DEF a, m
      <4> QED BY <1>2, <1>7, <3>3
    <3>5. R = Append(Q, TreeHashes(w)[b][a])
      <4> HIDE DEF a, m, r
      <4>1. AuditPaths(w)[m][a][k] =
              IF m = 1 THEN << >>
              ELSE IF k < a + Split(m)
              THEN Append(AuditPaths(w)[Split(m)][a][k], TreeHashes(w)[m - Split(m)][a + Split(m)])
              ELSE Append(AuditPaths(w)[m - Split(m)][a + Split(m)][k], TreeHashes(w)[Split(m)][a])
        BY <1>7, <3>4, PathsAre
      <4>2. m # 1 /\ Split(m) = b /\ m - Split(m) = r /\ ~(k < a + b)
        BY <1>7, <2>2, <3>3
      <4> QED BY <4>1, <4>2, <3>2, SMTT(90)
    <3>6. Sibling(s, i) = TreeHashes(w)[b][a]
      <4>1. i % 2 # 0 /\ i = 2 * j + 1
        BY <1>1, <2>5
      <4>2. PartAt(l, b, a) = b
        BY <1>7, <2>2
      <4> QED BY <1>6, <4>1, <4>2 DEF Sibling
    <3> HIDE DEF a, m, r, Q, R
    <3> QED BY <2>3, <3>3, <3>5, <3>6
  <2> QED BY <1>1, <2>4, <2>5
<1> QED BY <1>9, <1>10

LEMMA TowerIsRFC ==
  ASSUME NEW w, List(w), NEW k \in Nat, k < Len(w),
         NEW T, NEW I, NEW U, NEW P, NEW D, Tower(w, k, T, I, U, P, D), NEW d \in 0 .. D
  PROVE  PartHashes(w, T[d], 2 ^ d) /\ On(w, k, I[d], U[d], P, 2 ^ d)
<1> DEFINE Holds(x) == PartHashes(w, T[x], 2 ^ x) /\ On(w, k, I[x], U[x], P, 2 ^ x)
           S == {x \in Nat : x <= D => Holds(x)}
<1>1. D \in Nat /\ Len(w) \in Nat /\ DOMAIN w = 1 .. Len(w)
  BY ListFacts DEF Tower
<1>2. Holds(0)
  <2>1. 2 ^ 0 = 1 /\ I[0] = k /\ U[0] = 0 /\ T[0] = base_level(w) /\ Len(T[0]) \in Nat
    <3>1. 0 \in 0 .. D
      BY <1>1
    <3> QED BY <3>1, ListFacts DEF Tower
  <2>2. Len(T[0]) = Len(w)
    <3>1. T[0] = [j \in 1 .. Len(w) |-> T[0][j]]
      BY <1>1, <2>1 DEF base_level
    <3> QED BY <1>1, <3>1, ListMade
  <2>3. ASSUME NEW j \in 0 .. Len(w) - 1
        PROVE  /\ j * 1 = j /\ j \in Nat /\ j < Len(w) /\ PartAt(Len(w), 1, j) = 1
               /\ T[0][j + 1] = TreeHashes(w)[1][j]
               /\ j = k => AuditPaths(w)[1][j][k] = << >>
    <3>1. /\ j * 1 = j /\ j \in Nat /\ j < Len(w) /\ PartAt(Len(w), 1, j) = 1
          /\ j + 1 \in DOMAIN w /\ 1 \in 1 .. Len(w) /\ j \in 0 .. Len(w) - 1
          /\ j \in j .. j + 1 - 1
      BY <1>1 DEF PartAt
    <3>2. T[0][j + 1] = leaf_hash(w[j + 1])
      BY <2>1, <3>1 DEF base_level
    <3>3. TreeHashes(w)[1][j] = leaf_hash(w[j + 1])
      BY <1>1, <3>1, HashesAre
    <3>4. AuditPaths(w)[1][j][j] = << >>
      BY <1>1, <3>1, PathsAre
    <3> QED BY <3>1, <3>2, <3>3, <3>4
  <2>4. PartHashes(w, T[0], 1)
    <3> DEFINE l == Len(w)
    <3>1. l * 1 = l /\ l >= 1
      <4>1. l \in Nat /\ k < l
        BY <1>1
      <4> HIDE DEF l
      <4> QED BY <4>1
    <3> QED BY <1>1, <2>2, <2>3, <3>1 DEF PartHashes
  <2>5. List(<< >>) /\ Len(<< >>) = 0
    <3>1. << >> \in Seq({<< >>[j] : j \in DOMAIN << >>})
      OBVIOUS
    <3> QED BY <3>1 DEF List
  <2>6. On(w, k, k, 0, P, 1)
    <3>1. /\ k * 1 = k /\ PartAt(Len(w), 1, k) = 1 /\ AuditPaths(w)[1][k][k] = << >>
      BY <1>1, <2>3
    <3>2. k <= k /\ k < k + 1
      OBVIOUS
    <3> QED BY <2>5, <3>1, <3>2 DEF On
  <2> QED BY <2>1, <2>4, <2>6
<1>3. ASSUME NEW x \in Nat, x \in S PROVE x + 1 \in S
  <2>1. SUFFICES ASSUME x + 1 <= D PROVE Holds(x + 1)
    OBVIOUS
  <2>2. x \in 0 .. D /\ x \in 0 .. D - 1 /\ Holds(x)
    BY <1>1, <1>3, <2>1
  <2>3. /\ List(T[x]) /\ I[x] \in Nat /\ I[x] < Len(T[x])
        /\ T[x + 1] = NextLevel(T[x]) /\ I[x + 1] = I[x] \div 2
        /\ IF Promoted(I[x], Len(T[x])) THEN U[x + 1] = U[x]
           ELSE U[x + 1] = U[x] + 1 /\ P[U[x] + 1] = Sibling(T[x], I[x])
    BY <2>2 DEF Tower
  <2>4. 2 ^ (x + 1) = 2 * 2 ^ x
    BY PowerDoubles
  <2>5. PartHashes(w, T[x + 1], 2 * 2 ^ x)
    BY <1>1, <2>2, <2>3, NodesFold
  <2>6. On(w, k, I[x + 1], U[x + 1], P, 2 * 2 ^ x)
    <3> DEFINE v == U[x + 1]
               b == 2 ^ x
    <3>1. IF Promoted(I[x], Len(T[x])) THEN v = U[x]
          ELSE v = U[x] + 1 /\ P[U[x] + 1] = Sibling(T[x], I[x])
      BY <2>3
    <3>2. PartHashes(w, T[x], b) /\ On(w, k, I[x], U[x], P, b)
      BY <2>2
    <3> HIDE DEF v
    <3>3. On(w, k, I[x] \div 2, v, P, 2 * b)
      BY <1>1, <2>3, <3>1, <3>2, PathGoesOn
    <3> QED BY <2>3, <3>3 DEF v
  <2> QED BY <2>4, <2>5, <2>6
<1> HIDE DEF Holds
<1>4. S = {x \in Nat : x <= D => Holds(x)}
  OBVIOUS
<1>5. 0 \in S
  BY <1>2
<1> HIDE DEF S
<1>6. d \in S
  BY <1>1, <1>3, <1>5, Induction, SMTT(40)
<1>7. d \in Nat /\ d <= D
  BY <1>1
<1> QED BY <1>4, <1>6, <1>7 DEF Holds

\* The tower over a list ends in its tree hash, with the audit path of its position; it
\* is as high as the smallest full tree that has room for the list.
LEMMA TowerEnds ==
  ASSUME NEW w, List(w), NEW k \in Nat, k < Len(w),
         NEW T, NEW I, NEW U, NEW P, NEW D, Tower(w, k, T, I, U, P, D), Len(T[D]) = 1
  PROVE  /\ T[D][1] = MTH(w) /\ P = PATH(k, w)
         /\ Len(w) <= 2 ^ D
         /\ D # 0 => 2 ^ (D - 1) < Len(w)
<1> DEFINE l == Len(w)
           b == 2 ^ D
<1>1. D \in Nat /\ D \in 0 .. D /\ l \in Nat /\ b \in Nat /\ b >= 1
  BY ListFacts, PowerIsNat, PowerIsPositive DEF Tower
<1>2. PartHashes(w, T[D], b) /\ On(w, k, I[D], U[D], P, b)
  BY <1>1, TowerIsRFC
<1>3. I[D] = 0 /\ List(P) /\ Len(P) = U[D]
  <2>1. I[D] \in Nat /\ I[D] < 1
    BY <1>1 DEF Tower
  <2> QED BY <2>1 DEF Tower
<1>4. 1 * b = b /\ 0 * b = 0 /\ 0 \in 0 .. 1 - 1 /\ 0 + 1 = 1
  BY <1>1
<1>5. l <= b /\ T[D][1] = TreeHashes(w)[PartAt(l, b, 0)][0]
  BY <1>2, <1>4 DEF PartHashes
<1>6. PartAt(l, b, 0) = l
  <2> HIDE DEF l, b
  <2> QED BY <1>1, <1>5 DEF PartAt
<1>7. T[D][1] = MTH(w)
  BY <1>5, <1>6 DEF MTH
<1>8. P = PATH(k, w)
  <2>1. /\ List(PATH(k, w)) /\ Len(PATH(k, w)) = U[D]
        /\ \A x \in 1 .. U[D] : PATH(k, w)[x] = P[x]
    BY <1>2, <1>3, <1>4, <1>6 DEF On, PATH
  <2> QED BY <1>3, <2>1, ListEqual
<1>9. ASSUME D # 0 PROVE 2 ^ (D - 1) < l
  <2>1. D - 1 \in 0 .. D /\ D - 1 \in 0 .. D - 1 /\ D - 1 \in Nat
    BY <1>1, <1>9
  <2>2. Len(T[D - 1]) > 1 /\ PartHashes(w, T[D - 1], 2 ^ (D - 1))
    BY <2>1, TowerIsRFC DEF Tower
  <2>3. 1 \in 0 .. Len(T[D - 1]) - 1
    BY <2>2 DEF PartHashes
  <2>4. 1 * 2 ^ (D - 1) < l
    BY <2>2, <2>3 DEF PartHashes
  <2>5. 2 ^ (D - 1) \in Nat
    BY <2>1, PowerIsNat
  <2> DEFINE q == 2 ^ (D - 1)
  <2> HIDE DEF q
  <2>6. 1 * q = q
    BY <2>5 DEF q
  <2> QED BY <2>4, <2>6 DEF q
<1> QED BY <1>5, <1>7, <1>8, <1>9

\* Every level adds at most one sibling.
LEMMA FewSiblings ==
  ASSUME NEW w, NEW k, NEW T, NEW I, NEW U, NEW P, NEW D, Tower(w, k, T, I, U, P, D),
         NEW d \in 0 .. D, NEW x \in d .. D
  PROVE  U[x] <= U[d] + (x - d)
<1> DEFINE S == {y \in Nat : d + y <= D => U[d + y] <= U[d] + y}
<1>1. D \in Nat /\ d \in Nat /\ x - d \in Nat /\ \A e \in 0 .. D : U[e] \in Nat
  BY DEF Tower
<1>2. 0 \in S
  <2>1. d + 0 = d /\ U[d] \in Nat
    BY <1>1
  <2> QED BY <2>1
<1>3. ASSUME NEW y \in Nat, y \in S PROVE y + 1 \in S
  <2>1. SUFFICES ASSUME d + (y + 1) <= D PROVE U[d + (y + 1)] <= U[d] + (y + 1)
    OBVIOUS
  <2>2. /\ d + y \in 0 .. D /\ d + y \in 0 .. D - 1 /\ d + y <= D /\ d + (y + 1) = (d + y) + 1
        /\ (d + y) + 1 \in 0 .. D
    BY <1>1, <2>1
  <2>3. U[(d + y) + 1] = U[d + y] \/ U[(d + y) + 1] = U[d + y] + 1
    BY <2>2 DEF Tower
  <2>4. U[d + y] <= U[d] + y /\ U[d + y] \in Nat /\ U[d] \in Nat
    BY <1>1, <1>3, <2>2
  <2> QED BY <2>2, <2>3, <2>4
<1>4. S = {y \in Nat : d + y <= D => U[d + y] <= U[d] + y}
  OBVIOUS
<1> HIDE DEF S
<1>5. x - d \in S
  BY <1>1, <1>2, <1>3, Induction
<1>6. d + (x - d) = x /\ x <= D
  BY <1>1
<1> QED BY <1>4, <1>5, <1>6

\* A position that a level promoted is in the right half of the full tree, beyond the
\* leaves of a full tree with as few levels as the path has siblings.
LEMMA PromotedIsFar ==
  ASSUME NEW w, List(w), NEW k \in Nat, k < Len(w),
         NEW T, NEW I, NEW U, NEW P, NEW D, Tower(w, k, T, I, U, P, D), Len(T[D]) = 1,
         NEW d \in 0 .. D - 1, Promoted(I[d], Len(T[d]))
  PROVE  2 ^ U[D] <= k
<1> DEFINE s == Len(T[d])
           b == 2 ^ d
           q == 2 ^ (D - 1 - d)
           h == 2 ^ (D - 1)
<1>1. /\ D \in Nat /\ D # 0 /\ d \in Nat /\ d \in 0 .. D /\ D - 1 \in Nat /\ D - 1 - d \in Nat
      /\ d + 1 \in 0 .. D /\ D \in 0 .. D /\ D \in d + 1 .. D /\ 0 \in 0 .. D /\ d \in 0 .. d
      /\ d \in 0 .. D /\ d + (D - 1 - d) = D - 1
  BY DEF Tower
<1>2. /\ b \in Nat /\ q \in Nat /\ h \in Nat /\ h = b * q /\ h < Len(w)
  <2>1. b \in Nat /\ q \in Nat /\ h \in Nat
    BY <1>1, PowerIsNat
  <2>2. 2 ^ (d + (D - 1 - d)) = b * q
    BY <1>1, PowersMultiply
  <2>3. h < Len(w)
    BY <1>1, TowerEnds
  <2>4. h = b * q
    BY <1>1, <2>2
  <2> QED BY <2>1, <2>3, <2>4
<1>3. /\ s \in Nat /\ I[d] \in Nat /\ I[d] = s - 1 /\ Len(w) \in Nat
  BY <1>1, ListFacts DEF Tower, Promoted
<1>4. Len(w) <= s * b /\ I[d] * b <= k
  BY <1>1, TowerIsRFC DEF PartHashes, On
<1>5. h <= k
  <2> HIDE DEF s, b, q, h
  <2>1. ~(s <= q)
    <3>1. ASSUME s <= q PROVE FALSE
      <4>1. s * b <= q * b
        BY <1>2, <1>3, <3>1, TimesGrows
      <4>2. q * b = h /\ s * b \in Nat
        BY <1>2, <1>3
      <4> DEFINE x == s * b
      <4>3. x <= h /\ x \in Nat /\ Len(w) <= x
        BY <1>4, <4>1, <4>2
      <4> HIDE DEF x
      <4> QED BY <1>2, <1>3, <4>3
    <3> QED BY <3>1
  <2>2. q <= I[d]
    BY <1>2, <1>3, <2>1
  <2>3. q * b <= I[d] * b
    BY <1>2, <1>3, <2>2, TimesGrows
  <2>4. q * b = h /\ I[d] * b \in Nat
    BY <1>2, <1>3
  <2> DEFINE y == I[d] * b
  <2>5. h <= y /\ y \in Nat /\ y <= k
    BY <1>4, <2>3, <2>4
  <2> HIDE DEF y
  <2> QED BY <1>2, <2>5
<1>6. U[D] <= D - 1
  <2>1. U[d + 1] = U[d] /\ U[0] = 0 /\ U[d] \in Nat /\ U[D] \in Nat
    BY <1>1 DEF Tower
  <2>2. U[D] <= U[d + 1] + (D - (d + 1))
    BY <1>1, FewSiblings
  <2>3. U[d] <= U[0] + (d - 0)
    BY <1>1, FewSiblings
  <2> QED BY <1>1, <2>1, <2>2, <2>3, SMTT(40)
<1>7. U[D] \in Nat /\ (D - 1) - U[D] \in Nat /\ U[D] + ((D - 1) - U[D]) = D - 1
  <2>1. U[D] \in Nat
    BY <1>1 DEF Tower
  <2> QED BY <1>1, <1>6, <2>1
<1>8. 2 ^ U[D] <= 2 ^ (U[D] + ((D - 1) - U[D])) /\ 2 ^ U[D] \in Nat
  BY <1>7, PowersGrow, PowerIsNat
<1>9. 2 ^ U[D] <= h
  BY <1>7, <1>8
<1> DEFINE z == 2 ^ U[D]
<1>10. z \in Nat /\ z <= h
  BY <1>8, <1>9
<1> HIDE DEF z, h
<1>11. z <= k
  BY <1>2, <1>5, <1>10
<1> QED BY <1>11 DEF z

\* Of a position among so few leaves no level is promoted.
LEMMA NearIsFull ==
  ASSUME NEW w, List(w), NEW k \in Nat, k < Len(w),
         NEW T, NEW I, NEW U, NEW P, NEW D, Tower(w, k, T, I, U, P, D), Len(T[D]) = 1,
         k < 2 ^ U[D]
  PROVE  \A d \in 0 .. D : U[d] = d
<1>1. D \in Nat /\ U[0] = 0
  BY DEF Tower
<1>2. 2 ^ U[D] \in Nat
  <2>1. D \in 0 .. D
    BY <1>1
  <2>2. U[D] \in Nat
    BY <2>1 DEF Tower
  <2> QED BY <2>2, PowerIsNat
<1>3. ASSUME NEW d \in 0 .. D - 1 PROVE U[d + 1] = U[d] + 1
  <2>1. ~Promoted(I[d], Len(T[d]))
    <3>1. ~(2 ^ U[D] <= k)
      BY <1>2
    <3> QED BY <3>1, PromotedIsFar
  <2> QED BY <2>1 DEF Tower
<1> DEFINE S == {d \in Nat : d <= D => U[d] = d}
<1>4. 0 \in S
  BY <1>1
<1>5. ASSUME NEW d \in Nat, d \in S PROVE d + 1 \in S
  <2>1. d + 1 <= D => d \in 0 .. D - 1 /\ d <= D
    BY <1>1
  <2> QED BY <1>3, <1>5, <2>1
<1> HIDE DEF S
<1>6. \A d \in Nat : d \in S
  BY <1>4, <1>5, Induction
<1> QED BY <1>1, <1>6 DEF S

----------------------------------------------------------------------------
(* The verifier at the command line                                        *)

\* The prover's proof with the guess of the leaf count.
Guessed == [siblings |-> own.siblings, index |-> index,
            leaf_count |-> IncludeCount(own.siblings)]

\* The replay climbs the tower of a path that was never promoted as if the tree were full.
Climbs(T, I, U, D, d) ==
  /\ Finished(T, I, U, D) /\ d \in 0 .. D /\ \A e \in 0 .. D : U[e] = e
  /\ n = 2 ^ (D - d) /\ idx = I[d] /\ used = d /\ hash = T[d][idx + 1]

GuessInv ==
  /\ phase = "replay" /\ stmt.leaf = leaf_hash(leaves[index + 1]) /\ proof = Guessed =>
       \E T, I, U, D, d : Climbs(T, I, U, D, d)
  /\ phase = "done" => FullPathsAreIncluded

\* What a finished prover has.
LEMMA FinishedIsRFC ==
  ASSUME MerkleInv, phase # "idle", NEW T, NEW I, NEW U, NEW D, Finished(T, I, U, D)
  PROVE  /\ stmt.root = MTH(leaves) /\ own.siblings = PATH(index, leaves)
         /\ List(leaves) /\ Len(leaves) \in Nat /\ index \in Nat /\ index < Len(leaves)
         /\ Len(leaves) <= 2 ^ D /\ D \in Nat /\ Len(own.siblings) = U[D] /\ U[D] \in Nat
<1>1. List(leaves) /\ Len(leaves) \in Nat /\ index \in Nat /\ index < Len(leaves)
  BY MerkleAssumption, ListFacts DEF MerkleInv
<1>2. /\ Tower(leaves, index, T, I, U, own.siblings, D) /\ Len(T[D]) = 1 /\ stmt.root = T[D][1]
  BY DEF Finished
<1>3. D \in Nat /\ Len(own.siblings) = U[D] /\ U[D] \in Nat
  <2>1. D \in Nat /\ D \in 0 .. D /\ Len(own.siblings) = U[D]
    BY <1>2 DEF Tower
  <2> QED BY <1>2, <2>1 DEF Tower
<1>4. /\ T[D][1] = MTH(leaves) /\ own.siblings = PATH(index, leaves)
      /\ Len(leaves) <= 2 ^ D
  BY <1>1, <1>2, TowerEnds
<1> QED BY <1>1, <1>2, <1>3, <1>4

LEMMA VerifyKeepsGuess ==
  ASSUME MerkleInv, phase = "proved", NEW l, NEW p, WellFormed(p), Verify(l, p)
  PROVE  GuessInv'
<1>1. /\ stmt' = [root |-> stmt.root, leaf |-> l] /\ proof' = p
      /\ leaves' = leaves /\ index' = index /\ own' = own
      /\ stmt'.root = stmt.root /\ stmt'.leaf = l
  BY DEF Verify, MerkleInv
<1>2. PICK T, I, U, D : Finished(T, I, U, D)
  BY DEF MerkleInv
<1>3. /\ own.siblings = PATH(index, leaves)
      /\ List(leaves) /\ Len(leaves) \in Nat /\ index \in Nat /\ index < Len(leaves)
      /\ Len(leaves) <= 2 ^ D /\ D \in Nat /\ Len(own.siblings) = U[D] /\ U[D] \in Nat
  BY <1>2, FinishedIsRFC
<1>4. CASE Malformed(p)
  <2>1. phase' = "done" /\ result' = "reject"
    BY <1>4 DEF Verify
  <2>2. ASSUME p.index = index, p.leaf_count = 2 ^ Len(p.siblings)
        PROVE  ~(2 ^ Len(p.siblings) >= Len(leaves))
    <3>1. Len(p.siblings) \in Nat
      BY ListFacts DEF WellFormed
    <3> DEFINE c == 2 ^ Len(p.siblings)
    <3>2. c \in Nat /\ c >= 1 /\ (c = 0 \/ index >= c)
      BY <1>4, <2>2, <3>1, PowerIsNat, PowerIsPositive DEF Malformed
    <3> HIDE DEF c
    <3>3. ~(c >= Len(leaves))
      BY <1>3, <3>2
    <3> QED BY <3>3 DEF c
  <2>3. FullPathsAreIncluded'
    BY <1>1, <2>1, <2>2 DEF FullPathsAreIncluded, Accepted, IncludeCount
  <2> QED BY <2>1, <2>3 DEF GuessInv
<1>5. CASE ~Malformed(p)
  <2>1. /\ phase' = "replay" /\ hash' = l /\ idx' = p.index /\ n' = p.leaf_count /\ used' = 0
    BY <1>5 DEF Verify
  <2>2. ASSUME l = leaf_hash(leaves[index + 1]), p = Guessed
        PROVE  Climbs(T, I, U, D, 0)'
    <3>1. p.index = index /\ p.leaf_count = 2 ^ U[D]
      BY <1>3, <2>2 DEF Guessed, IncludeCount
    <3>2. index < 2 ^ U[D]
      <4>1. 2 ^ U[D] \in Nat
        BY <1>3, PowerIsNat
      <4> QED BY <1>3, <1>5, <3>1, <4>1 DEF Malformed
    <3>3. \A d \in 0 .. D : U[d] = d
      BY <1>2, <1>3, <3>2, NearIsFull DEF Finished
    <3>4. 0 \in 0 .. D /\ D \in 0 .. D /\ D - 0 = D
      BY <1>3
    <3>5. n' = 2 ^ (D - 0) /\ idx' = I[0] /\ used' = 0
      BY <1>2, <2>1, <3>1, <3>3, <3>4 DEF Finished, Tower
    <3>6. T[0][index + 1] = leaf_hash(leaves[index + 1])
      BY <1>2, <1>3, RightLeaf
    <3>7. hash' = T[0][idx' + 1]
      BY <2>1, <2>2, <3>1, <3>6
    <3>8. Finished(T, I, U, D)'
      BY <1>1, <1>2 DEF Finished
    <3> QED BY <3>3, <3>4, <3>5, <3>7, <3>8 DEF Climbs
  <2>3. Guessed' = Guessed
    BY <1>1 DEF Guessed
  <2>4. stmt'.leaf = leaf_hash(leaves'[index' + 1]) /\ proof' = Guessed' =>
          \E TT, II, UU, DD, dd : Climbs(TT, II, UU, DD, dd)'
    BY <1>1, <2>2, <2>3
  <2> QED BY <2>1, <2>4 DEF GuessInv
<1> QED BY <1>4, <1>5

LEMMA ReplayKeepsGuess ==
  ASSUME MerkleInv, GuessInv, Replay
  PROVE  GuessInv'
<1>1. /\ phase = "replay" /\ phase' = "replay" /\ n > 1
      /\ idx' = idx \div 2 /\ n' = (n + 1) \div 2
      /\ leaves' = leaves /\ index' = index /\ own' = own /\ stmt' = stmt /\ proof' = proof
  BY DEF Replay
<1>2. SUFFICES ASSUME stmt.leaf = leaf_hash(leaves[index + 1]), proof = Guessed
               PROVE  \E T, I, U, D, d : Climbs(T, I, U, D, d)'
  BY <1>1 DEF GuessInv, Guessed
<1>3. PICK T, I, U, D, d : Climbs(T, I, U, D, d)
  BY <1>1, <1>2 DEF GuessInv
<1>4. /\ Finished(T, I, U, D) /\ d \in 0 .. D /\ (\A e \in 0 .. D : U[e] = e)
      /\ n = 2 ^ (D - d) /\ idx = I[d] /\ used = d /\ hash = T[d][idx + 1] /\ D \in Nat
  BY <1>3 DEF Climbs, Finished, Tower
<1>5. d \in 0 .. D - 1 /\ d + 1 \in 0 .. D /\ D - (d + 1) \in Nat /\ D - (d + 1) + 1 = D - d
  <2>1. d # D
    <3>1. ASSUME d = D PROVE FALSE
      <4>1. D - d = 0 /\ 2 ^ 0 = 1
        BY <1>4, <3>1
      <4>2. n = 1
        BY <1>4, <4>1
      <4> QED BY <1>1, <4>2
    <3> QED BY <3>1
  <2> QED BY <1>4, <2>1
<1> DEFINE q == 2 ^ (D - (d + 1))
<1>6. q \in Nat /\ n = 2 * q
  <2>1. 2 ^ (D - (d + 1) + 1) = 2 * q
    BY <1>5, PowerDoubles
  <2>2. q \in Nat
    BY <1>5, PowerIsNat
  <2>3. 2 ^ (D - d) = 2 * q
    BY <1>5, <2>1
  <2> QED BY <1>4, <2>2, <2>3
<1>7. n' = q /\ ~Promoted(idx, n)
  <2> HIDE DEF q
  <2>1. (2 * q + 1) \div 2 = q /\ (2 * q) % 2 = 0
    BY <1>6
  <2> QED BY <1>1, <1>6, <2>1 DEF Promoted
<1>8. /\ used' = d + 1
      /\ hash' = IF idx % 2 = 0 THEN node_hash(hash, own.siblings[d + 1])
                 ELSE node_hash(own.siblings[d + 1], hash)
  BY <1>2, <1>4, <1>7 DEF Replay, Climb, Guessed
<1>9. /\ List(T[d]) /\ I[d] \in Nat /\ I[d] < Len(T[d])
      /\ T[d + 1] = NextLevel(T[d]) /\ I[d + 1] = I[d] \div 2
      /\ ~Promoted(I[d], Len(T[d])) /\ own.siblings[d + 1] = Sibling(T[d], I[d])
  <2>1. U[d] = d /\ U[d + 1] = d + 1 /\ d + 1 # d
    BY <1>4, <1>5
  <2> QED BY <1>4, <1>5, <2>1 DEF Finished, Tower
<1>10. hash' = T[d + 1][idx' + 1]
  BY <1>1, <1>4, <1>8, <1>9, Upwards, SMTT(40)
<1>11. Finished(T, I, U, D)'
  BY <1>1, <1>4 DEF Finished
<1>12. Climbs(T, I, U, D, d + 1)'
  BY <1>1, <1>4, <1>5, <1>7, <1>8, <1>9, <1>10, <1>11 DEF Climbs
<1> QED BY <1>12

\* How the replay of the prover's path ends that was told the guess.
LEMMA GuessEnds ==
  ASSUME MerkleInv, GuessInv, phase = "replay", stmt.leaf = leaf_hash(leaves[index + 1]),
         proof = [siblings |-> PATH(index, leaves), index |-> index,
                  leaf_count |-> IncludeCount(proof.siblings)]
  PROVE  /\ 2 ^ Len(proof.siblings) >= Len(leaves)
         /\ used = Len(proof.siblings) => n = 1
         /\ n = 1 => Accepts
<1>1. PICK TT, II, UU, DD : Finished(TT, II, UU, DD)
  BY DEF MerkleInv
<1>2. own.siblings = PATH(index, leaves)
  BY <1>1, FinishedIsRFC
<1>3. proof = Guessed /\ proof.siblings = own.siblings
  BY <1>2 DEF Guessed
<1>4. PICK T, I, U, D, d : Climbs(T, I, U, D, d)
  BY <1>3 DEF GuessInv
<1>5. /\ Finished(T, I, U, D) /\ d \in 0 .. D /\ (\A e \in 0 .. D : U[e] = e)
      /\ n = 2 ^ (D - d) /\ idx = I[d] /\ used = d /\ hash = T[d][idx + 1]
  BY <1>4 DEF Climbs
<1>6. /\ Len(leaves) <= 2 ^ D /\ D \in Nat /\ Len(own.siblings) = U[D] /\ Len(leaves) \in Nat
  BY <1>5, FinishedIsRFC
<1>7. Len(proof.siblings) = D /\ 2 ^ D \in Nat
  <2>1. D \in 0 .. D
    BY <1>6
  <2> QED BY <1>3, <1>5, <1>6, <2>1, PowerIsNat
<1>8. d = D <=> n = 1
  <2>1. ASSUME d = D PROVE n = 1
    <3>1. D - d = 0 /\ 2 ^ 0 = 1
      BY <1>6, <2>1
    <3> QED BY <1>5, <3>1
  <2>2. ASSUME d # D PROVE n # 1
    <3>1. D - d - 1 \in Nat /\ (D - d - 1) + 1 = D - d
      BY <1>5, <1>6, <2>2
    <3> DEFINE q == 2 ^ (D - d - 1)
    <3>2. 2 ^ ((D - d - 1) + 1) = 2 * q /\ q \in Nat
      BY <3>1, PowerDoubles, PowerIsNat
    <3>3. n = 2 * q
      BY <1>5, <3>1, <3>2
    <3> HIDE DEF q
    <3> QED BY <3>2, <3>3
  <2> QED BY <2>1, <2>2
<1>9. ASSUME d = D PROVE Accepts
  <2>1. idx = 0 /\ stmt.root = T[D][1]
    <3>1. D \in 0 .. D
      BY <1>6
    <3>2. I[D] \in Nat /\ I[D] < 1
      BY <1>5, <3>1 DEF Finished, Tower
    <3> QED BY <1>5, <1>9, <3>2 DEF Finished
  <2> QED BY <1>5, <1>7, <1>9, <2>1 DEF Accepts
<1>10. 2 ^ Len(proof.siblings) >= Len(leaves)
  <2> DEFINE b == 2 ^ D
  <2>1. b \in Nat /\ Len(leaves) <= b /\ 2 ^ Len(proof.siblings) = b
    BY <1>6, <1>7
  <2> HIDE DEF b
  <2>2. b >= Len(leaves)
    BY <1>6, <2>1
  <2> QED BY <2>1, <2>2
<1> QED BY <1>5, <1>7, <1>8, <1>9, <1>10

LEMMA GuessStep == MerkleInv /\ GuessInv /\ [Next]_vars => GuessInv'
<1> SUFFICES ASSUME MerkleInv, GuessInv, [Next]_vars PROVE GuessInv'
  OBVIOUS
<1>1. ASSUME NEW w \in Trees, NEW k \in 0 .. Len(w), Prove(w, k) PROVE GuessInv'
  BY <1>1 DEF Prove, GuessInv
<1>2. ASSUME NEW w \in Trees, NEW k \in 0 .. Len(w), ProveFails(w, k) PROVE GuessInv'
  BY <1>2 DEF ProveFails, GuessInv
<1>3. CASE Reduce
  BY <1>3 DEF Reduce, GuessInv
<1>4. CASE Proved
  BY <1>4 DEF Proved, GuessInv
<1>5. CASE Show
  <2>1. phase = "proved" /\ WellFormed(proof) /\ leaves \in Trees
    BY <1>5 DEF Show, MerkleInv
  <2>2. WellFormed([proof EXCEPT !.leaf_count = IncludeCount(proof.siblings)])
    <3>1. Len(proof.siblings) \in Nat
      BY <2>1, ListFacts DEF WellFormed
    <3>2. IncludeCount(proof.siblings) \in Nat
      BY <3>1, PowerIsNat DEF IncludeCount
    <3> QED BY <2>1, <3>2 DEF WellFormed
  <2>3. \A o \in Offers(leaves) : WellFormed(o.proof)
    BY <2>1, MerkleAssumption, ZenonT(40) DEF WellFormed
  <2>4. PICK l, p : WellFormed(p) /\ Verify(l, p)
    BY <1>5, <2>1, <2>2, <2>3 DEF Show
  <2> QED BY <2>1, <2>4, VerifyKeepsGuess
<1>6. CASE Replay
  BY <1>6, ReplayKeepsGuess
<1>7. CASE PathTooShort
  <2>1. /\ phase = "replay" /\ phase' = "done" /\ n > 1 /\ used = Len(proof.siblings)
        /\ leaves' = leaves /\ index' = index /\ stmt' = stmt /\ proof' = proof
    BY <1>7 DEF PathTooShort
  <2>2. ~(1 > 1)
    OBVIOUS
  <2>3. FullPathsAreIncluded'
    BY <2>1, <2>2, GuessEnds DEF FullPathsAreIncluded
  <2> QED BY <2>1, <2>3 DEF GuessInv
<1>8. CASE Conclude
  <2>1. /\ phase = "replay" /\ phase' = "done" /\ n = 1
        /\ result' = IF Accepts THEN "accept" ELSE "reject"
        /\ leaves' = leaves /\ index' = index /\ stmt' = stmt /\ proof' = proof
    BY <1>8 DEF Conclude
  <2>2. FullPathsAreIncluded'
    BY <2>1, GuessEnds DEF FullPathsAreIncluded, Accepted
  <2> QED BY <2>1, <2>2 DEF GuessInv
<1>9. CASE Reset
  BY <1>9 DEF Reset, GuessInv
<1>10. CASE UNCHANGED vars
  BY <1>10 DEF vars, GuessInv, Guessed, Climbs, Finished, FullPathsAreIncluded, Accepted
<1> QED BY <1>1, <1>2, <1>3, <1>4, <1>5, <1>6, <1>7, <1>8, <1>9, <1>10 DEF Next

\* For every list of leaves and every position: the fold with promotion ends in the tree
\* hash and the audit path of RFC 6962, and through the guess of the leaf count at the
\* command line the verifier believes it exactly for the paths that were never promoted.
THEOREM ProverBuildsTheTree == Spec => []ProverIsRFC6962
<1>1. Init => GuessInv
  BY DEF Init, GuessInv
<1>2. MerkleInv /\ GuessInv => ProverIsRFC6962
  <2> SUFFICES ASSUME MerkleInv, GuessInv PROVE ProverIsRFC6962
    OBVIOUS
  <2>1. IsTheRFCTree
    <3>1. SUFFICES ASSUME phase = "proved"
                   PROVE  stmt.root = MTH(leaves) /\ proof.siblings = PATH(index, leaves)
      BY DEF IsTheRFCTree
    <3>2. (\E T, I, U, D : Finished(T, I, U, D)) /\ proof = own
      BY <3>1 DEF MerkleInv
    <3> QED BY <3>1, <3>2, FinishedIsRFC
  <2>2. FullPathsAreIncluded
    BY DEF GuessInv, FullPathsAreIncluded
  <2> QED BY <2>1, <2>2 DEF ProverIsRFC6962
<1> QED BY <1>1, <1>2, MerkleInit, MerkleStep, GuessStep, PTL DEF Spec

----------------------------------------------------------------------------
(* Transcript: the bytes tell how they were framed.                        *)

Bytes == Seq(Nat)

LEMMA FramedFacts ==
  ASSUME NEW a \in Bytes
  PROVE  /\ framed(a) \in Bytes /\ Len(framed(a)) = Len(a) + 1 /\ Len(a) \in Nat
         /\ framed(a)[1] = Len(a)
         /\ \A i \in 1 .. Len(a) : framed(a)[i + 1] = a[i]
<1> DEFINE N == Nat
<1>1. /\ Len(a) \in Nat /\ <<Len(a)>> \in Seq(N) /\ Len(<<Len(a)>>) = 1 /\ <<Len(a)>>[1] = Len(a)
      /\ a \in Seq(N)
  BY DEF Bytes
<1> HIDE DEF N
<1>2. /\ framed(a) \in Seq(N) /\ Len(framed(a)) = 1 + Len(a)
      /\ \A i \in 1 .. 1 + Len(a) :
           framed(a)[i] = IF i <= 1 THEN <<Len(a)>>[i] ELSE a[i - 1]
  BY <1>1, ConcatProperties DEF framed
<1>3. framed(a)[1] = Len(a)
  BY <1>1, <1>2
<1>4. ASSUME NEW i \in 1 .. Len(a) PROVE framed(a)[i + 1] = a[i]
  <2>1. i + 1 \in 1 .. 1 + Len(a) /\ ~(i + 1 <= 1) /\ (i + 1) - 1 = i
    BY <1>1
  <2> DEFINE j == i + 1
  <2>2. j \in 1 .. 1 + Len(a) /\ ~(j <= 1) /\ j - 1 = i
    BY <2>1
  <2> HIDE DEF j
  <2>3. framed(a)[j] = a[i]
    BY <1>2, <2>2
  <2> QED BY <2>3 DEF j
<1>5. framed(a) \in Bytes
  BY <1>2 DEF N, Bytes
<1> QED BY <1>1, <1>2, <1>3, <1>4, <1>5

LEMMA FrameFollowed ==
  ASSUME NEW a \in Bytes, NEW c \in Bytes
  PROVE  /\ Len(framed(a) \o c) = Len(a) + 1 + Len(c) /\ (framed(a) \o c)[1] = Len(a)
         /\ \A i \in 1 .. Len(a) : (framed(a) \o c)[i + 1] = a[i]
         /\ \A i \in 1 .. Len(c) : (framed(a) \o c)[Len(a) + 1 + i] = c[i]
<1> DEFINE F == framed(a)
           X == F \o c
           la == Len(a)
           lc == Len(c)
           N == Nat
<1>1. /\ F \in Bytes /\ Len(F) = la + 1 /\ F[1] = la
      /\ \A i \in 1 .. la : F[i + 1] = a[i]
  BY FramedFacts
<1>2. la \in Nat /\ lc \in Nat /\ F \in Seq(N) /\ c \in Seq(N)
  BY <1>1 DEF Bytes
<1> HIDE DEF F, N
<1>3. /\ Len(X) = Len(F) + Len(c)
      /\ \A i \in 1 .. Len(F) + Len(c) : X[i] = IF i <= Len(F) THEN F[i] ELSE c[i - Len(F)]
  BY <1>2, ConcatProperties
<1> HIDE DEF X
<1>4. /\ Len(X) = la + 1 + lc
      /\ \A i \in 1 .. la + 1 + lc : X[i] = IF i <= la + 1 THEN F[i] ELSE c[i - (la + 1)]
  BY <1>1, <1>3
<1> HIDE DEF la, lc
<1>5. X[1] = la
  BY <1>1, <1>2, <1>4
<1>6. ASSUME NEW i \in 1 .. la PROVE X[i + 1] = a[i]
  <2>1. i + 1 \in 1 .. la + 1 + lc /\ i + 1 <= la + 1
    BY <1>2
  <2>2. X[i + 1] = F[i + 1]
    BY <1>4, <2>1
  <2> QED BY <1>1, <2>2
<1>7. ASSUME NEW i \in 1 .. lc PROVE X[la + 1 + i] = c[i]
  <2> DEFINE j == la + 1 + i
  <2>1. j \in 1 .. la + 1 + lc /\ ~(j <= la + 1) /\ j - (la + 1) = i
    BY <1>2
  <2> HIDE DEF j
  <2>2. X[j] = c[i]
    BY <1>4, <2>1
  <2> QED BY <2>2 DEF j
<1> QED BY <1>4, <1>5, <1>6, <1>7 DEF X, F, la, lc

\* What follows a framed string starts where the length says.
LEMMA FrameSplits ==
  ASSUME NEW a \in Bytes, NEW b \in Bytes, NEW c \in Bytes, NEW d \in Bytes,
         framed(a) \o c = framed(b) \o d
  PROVE  a = b /\ c = d
<1> DEFINE X == framed(a) \o c
<1>1. /\ Len(X) = Len(a) + 1 + Len(c) /\ X[1] = Len(a)
      /\ \A i \in 1 .. Len(a) : X[i + 1] = a[i]
      /\ \A i \in 1 .. Len(c) : X[Len(a) + 1 + i] = c[i]
  BY FrameFollowed
<1>2. /\ Len(X) = Len(b) + 1 + Len(d) /\ X[1] = Len(b)
      /\ \A i \in 1 .. Len(b) : X[i + 1] = b[i]
      /\ \A i \in 1 .. Len(d) : X[Len(b) + 1 + i] = d[i]
  <2> DEFINE Y == framed(b) \o d
  <2>1. /\ Len(Y) = Len(b) + 1 + Len(d) /\ Y[1] = Len(b)
        /\ \A i \in 1 .. Len(b) : Y[i + 1] = b[i]
        /\ \A i \in 1 .. Len(d) : Y[Len(b) + 1 + i] = d[i]
    BY FrameFollowed
  <2>2. X = Y
    OBVIOUS
  <2> HIDE DEF X, Y
  <2> QED BY <2>1, <2>2
<1> DEFINE N == Nat
<1>3. /\ Len(a) \in Nat /\ Len(b) \in Nat /\ Len(c) \in Nat /\ Len(d) \in Nat
      /\ a \in Seq(N) /\ b \in Seq(N) /\ c \in Seq(N) /\ d \in Seq(N)
  BY DEF Bytes
<1> HIDE DEF X, N
<1>4. Len(a) = Len(b) /\ Len(c) = Len(d)
  BY <1>1, <1>2, <1>3
<1>5. (\A i \in 1 .. Len(a) : a[i] = b[i]) /\ (\A i \in 1 .. Len(c) : c[i] = d[i])
  BY <1>1, <1>2, <1>4
<1>6. a = b
  BY <1>3, <1>4, <1>5, SeqEqual
<1>7. c = d
  BY <1>3, <1>4, <1>5, SeqEqual
<1> QED BY <1>6, <1>7

LEMMA FramesTell ==
  ASSUME NEW a \in Bytes, NEW b \in Bytes, framed(a) = framed(b)
  PROVE  a = b
<1>1. << >> \in Bytes /\ framed(a) \o << >> = framed(b) \o << >>
  BY DEF Bytes
<1> QED BY <1>1, FrameSplits

\* The state after a call, from the state before it.
After(s, c) == IF c.call = "absorb" THEN absorb(s, c.label, c.data) ELSE Folded(s, c.label, c.len)

Calls ==
  {Start(l) : l \in Strings}
    \cup [call : {"absorb"}, label : Strings, data : Strings, len : {0}]
    \cup [call : {"challenge"}, label : Strings, data : {<< >>}, len : Lengths]

LEMMA AfterTells ==
  ASSUME NEW s, NEW u, NEW c \in Calls, NEW d \in Calls, c.call # "new", d.call # "new",
         After(s, c) = After(u, d)
  PROVE  s = u /\ c = d
<1>1. \A x \in Calls : x.call # "new" =>
        /\ x.label \in Bytes
        /\ \/ /\ x.call = "absorb" /\ x.data \in Bytes
              /\ x = [call |-> "absorb", label |-> x.label, data |-> x.data, len |-> 0]
           \/ /\ x.call = "challenge" /\ x.len \in Nat
              /\ x = [call |-> "challenge", label |-> x.label, data |-> << >>, len |-> x.len]
  BY TranscriptAssumption DEF Calls, Start, Bytes
<1>2. c.call = d.call /\ s = u
  BY <1>1 DEF After, absorb, Folded, Term
<1>3. c.label \in Bytes /\ d.label \in Bytes
  BY <1>1
<1>4. CASE c.call = "absorb"
  <2>1. framed(c.label) \o framed(c.data) = framed(d.label) \o framed(d.data)
    BY <1>2, <1>4 DEF After, absorb, Term
  <2>2. c.data \in Bytes /\ d.data \in Bytes
    BY <1>1, <1>2, <1>4
  <2>3. framed(c.data) \in Bytes /\ framed(d.data) \in Bytes
    BY <2>2, FramedFacts
  <2>4. c.label = d.label /\ framed(c.data) = framed(d.data)
    <3> DEFINE la == c.label
               lb == d.label
               x == framed(c.data)
               y == framed(d.data)
    <3>1. la \in Bytes /\ lb \in Bytes /\ x \in Bytes /\ y \in Bytes
          /\ framed(la) \o x = framed(lb) \o y
      BY <1>3, <2>1, <2>3
    <3> HIDE DEF la, lb, x, y
    <3>2. la = lb /\ x = y
      BY <3>1, FrameSplits
    <3> QED BY <3>2 DEF la, lb, x, y
  <2>5. c.data = d.data
    BY <2>2, <2>4, FramesTell
  <2> QED BY <1>1, <1>2, <1>4, <2>4, <2>5
<1>5. CASE c.call = "challenge"
  <2>1. framed(c.label) \o <<c.len>> = framed(d.label) \o <<d.len>>
    BY <1>2, <1>5 DEF After, Folded, Term
  <2>2. c.len \in Nat /\ d.len \in Nat
    BY <1>1, <1>2, <1>5
  <2>3. c.label = d.label /\ c.len = d.len
    <3> DEFINE la == c.label
               lb == d.label
               x == <<c.len>>
               y == <<d.len>>
    <3>1. la \in Bytes /\ lb \in Bytes /\ x \in Bytes /\ y \in Bytes
          /\ framed(la) \o x = framed(lb) \o y
      <4>1. x \in Bytes /\ y \in Bytes
        BY <2>2 DEF Bytes
      <4> QED BY <1>3, <2>1, <4>1
    <3> HIDE DEF la, lb, x, y
    <3>2. la = lb /\ x = y
      BY <3>1, FrameSplits
    <3> QED BY <3>2 DEF la, lb, x, y
  <2> QED BY <1>1, <1>2, <1>5, <2>3
<1> QED BY <1>1, <1>4, <1>5
----------------------------------------------------------------------------
(* The inductive invariant of Transcript.  S[p][k] is the state of p after *)
(* k calls, and Q[p][m] the number of calls before challenge m.            *)

\* p has made the same first i calls as q its first j.
SameCalls(p, i, q, j) == i = j /\ \A k \in 1 .. i : calls[p][k] = calls[q][k]

History(S, p) ==
  /\ calls[p] = << >> => sponge[p] = Nothing
  /\ calls[p] # << >> => S[p][1] = new(calls[p][1].label) /\ sponge[p] = S[p][Len(calls[p])]
  /\ \A k \in 1 .. Len(calls[p]) - 1 : S[p][k + 1] = After(S[p][k], calls[p][k + 1])

Apart(S) ==
  \A p, q \in Parties : \A i \in 1 .. Len(calls[p]), j \in 1 .. Len(calls[q]) :
    S[p][i] = S[q][j] <=> SameCalls(p, i, q, j)

Derived(S, Q, p) ==
  /\ \A k \in 1 .. Len(squeezed[p]) :
       /\ Q[p][k] \in Nat /\ 1 <= Q[p][k] /\ Q[p][k] < Len(calls[p])
       /\ \E l, x : squeezed[p][k] = Squeezed(S[p][Q[p][k]], l, x)
  /\ \A k, m \in 1 .. Len(squeezed[p]) : Q[p][k] = Q[p][m] => k = m

TranscriptTypeOK ==
  /\ calls \in [Parties -> Seq(Calls)]
  /\ DOMAIN sponge = Parties /\ DOMAIN squeezed = Parties
  /\ \A p \in Parties : List(squeezed[p])
  /\ \A p \in Parties : \A k \in 1 .. Len(calls[p]) : calls[p][k].call = "new" <=> k = 1

TranscriptInv ==
  /\ TranscriptTypeOK
  /\ \E S, Q : /\ \A p \in Parties : History(S, p) /\ Derived(S, Q, p)
               /\ Apart(S)

\* The state after a call more equals one that was reached before exactly when the same
\* calls lead to both.
LEMMA NewState ==
  ASSUME TranscriptTypeOK, NEW S, \A r \in Parties : History(S, r), Apart(S),
         NEW p \in Parties, NEW c \in Calls, c.call = "new" <=> calls[p] = << >>,
         NEW v, v = IF c.call = "new" THEN new(c.label) ELSE After(sponge[p], c),
         NEW r \in Parties, NEW j \in 1 .. Len(calls[r])
  PROVE  v = S[r][j] <=> /\ Len(calls[p]) + 1 = j /\ c = calls[r][j]
                         /\ \A k \in 1 .. Len(calls[p]) : calls[p][k] = calls[r][k]
<1> DEFINE m == Len(calls[p])
           k == j - 1
<1>1. /\ m \in Nat /\ Len(calls[r]) \in Nat /\ j \in Nat /\ calls[r] # << >>
      /\ calls[r][j] \in Calls /\ calls[r][1] \in Calls
      /\ m = 0 <=> calls[p] = << >>
  BY DEF TranscriptTypeOK
<1>2. calls[r][1].call = "new" /\ (j # 1 => calls[r][j].call # "new")
  BY <1>1 DEF TranscriptTypeOK
<1>3. S[r][1] = new(calls[r][1].label)
  BY <1>1 DEF History
<1>4. j # 1 => k \in 1 .. Len(calls[r]) - 1 /\ k \in 1 .. Len(calls[r]) /\ k + 1 = j
  BY <1>1
<1> HIDE DEF k
<1>5. j # 1 => S[r][j] = After(S[r][k], calls[r][j])
  BY <1>4 DEF History
<1>6. \A s, d : After(s, d).tag # "FS_PROTOCOL"
  BY DEF After, absorb, Folded, Term
<1>7. \A l : new(l).tag = "FS_PROTOCOL"
  BY DEF new, Term
<1>8. CASE c.call = "new"
  <2>1. m = 0 /\ v = new(c.label)
    BY <1>1, <1>8
  <2>2. CASE j = 1
    <3>1. \A x \in Calls : x.call = "new" => x.label \in Bytes /\ x = Start(x.label)
      BY TranscriptAssumption DEF Calls, Start, Bytes
    <3>2. new(c.label) = new(calls[r][1].label) <=> framed(c.label) = framed(calls[r][1].label)
      BY DEF new, Term
    <3>3. new(c.label) = new(calls[r][1].label) <=> c = calls[r][1]
      <4>1. c.label \in Bytes /\ calls[r][1].label \in Bytes
            /\ c = Start(c.label) /\ calls[r][1] = Start(calls[r][1].label)
        BY <1>1, <1>2, <1>8, <3>1
      <4>2. framed(c.label) = framed(calls[r][1].label) => c.label = calls[r][1].label
        BY <4>1, FramesTell
      <4>3. framed(c.label) = framed(calls[r][1].label) => c = calls[r][1]
        BY <4>1, <4>2
      <4> QED BY <3>2, <4>3
    <3> QED BY <1>3, <2>1, <2>2, <3>3
  <2>3. CASE j # 1
    BY <1>5, <1>6, <1>7, <2>1, <2>3
  <2> QED BY <2>2, <2>3
<1>9. CASE c.call # "new"
  <2>1. v = After(S[p][m], c) /\ m \in 1 .. m
    BY <1>1, <1>9 DEF History
  <2>2. CASE j = 1
    <3>1. v # S[r][j]
      BY <1>3, <1>6, <1>7, <2>1, <2>2
    <3> QED BY <1>1, <2>1, <2>2, <3>1
  <2>3. CASE j # 1
    <3>1. After(S[p][m], c) = After(S[r][k], calls[r][j]) <=> S[p][m] = S[r][k] /\ c = calls[r][j]
      BY <1>1, <1>2, <1>9, <2>3, AfterTells
    <3>2. S[p][m] = S[r][k] <=> SameCalls(p, m, r, k)
      BY <1>4, <2>1, <2>3 DEF Apart
    <3>3. m = k <=> m + 1 = j
      BY <1>1, <1>4, <2>3, SMTT(40) DEF k
    <3> HIDE DEF m
    <3> QED BY <1>5, <2>1, <2>3, <3>1, <3>2, <3>3 DEF SameCalls, m
  <2> QED BY <2>2, <2>3
<1> QED BY <1>8, <1>9
\* One more call c of p; a challenge also derives what it returns.
OneMore(p, c) ==
  /\ c.call = "new" <=> calls[p] = << >>
  /\ calls' = [calls EXCEPT ![p] = Append(calls[p], c)]
  /\ sponge' = [sponge EXCEPT ![p] =
       IF c.call = "new" THEN new(c.label) ELSE After(sponge[p], c)]
  /\ \/ squeezed' = squeezed
     \/ /\ calls[p] # << >>
        /\ squeezed' = [squeezed EXCEPT ![p] = Append(squeezed[p], Squeezed(sponge[p], c.label, c.len))]

LEMMA CallsGrow ==
  ASSUME TranscriptTypeOK, NEW p \in Parties, NEW c \in Calls, OneMore(p, c)
  PROVE  /\ TranscriptTypeOK'
         /\ Len(calls[p]) \in Nat /\ Len(calls'[p]) = Len(calls[p]) + 1
         /\ calls'[p][Len(calls[p]) + 1] = c
         /\ \A k \in 1 .. Len(calls[p]) : calls'[p][k] = calls[p][k]
         /\ \A q \in Parties : q # p => /\ calls'[q] = calls[q] /\ sponge'[q] = sponge[q]
                                        /\ squeezed'[q] = squeezed[q]
<1>1. calls[p] \in Seq(Calls) /\ DOMAIN calls = Parties
  BY DEF TranscriptTypeOK
<1>2. calls'[p] = Append(calls[p], c)
  BY <1>1 DEF OneMore
<1>3. /\ Append(calls[p], c) \in Seq(Calls) /\ Len(Append(calls[p], c)) = Len(calls[p]) + 1
      /\ \A k \in 1 .. Len(calls[p]) : Append(calls[p], c)[k] = calls[p][k]
      /\ Append(calls[p], c)[Len(calls[p]) + 1] = c
  BY <1>1, AppendProperties
<1>4. Len(calls[p]) \in Nat /\ (Len(calls[p]) = 0 <=> calls[p] = << >>)
  BY <1>1
<1>5. \A q \in Parties : q # p => /\ calls'[q] = calls[q] /\ sponge'[q] = sponge[q]
                                  /\ squeezed'[q] = squeezed[q]
  BY DEF OneMore, TranscriptTypeOK
<1>6. calls' \in [Parties -> Seq(Calls)]
  BY <1>1, <1>3 DEF OneMore, TranscriptTypeOK
<1>7. DOMAIN sponge' = Parties /\ DOMAIN squeezed' = Parties
  BY DEF OneMore, TranscriptTypeOK
<1>8. ASSUME NEW q \in Parties PROVE List(squeezed'[q])
  <2>1. List(squeezed[p]) /\ List(squeezed[q]) /\ DOMAIN squeezed = Parties
    BY DEF TranscriptTypeOK
  <2>2. List(Append(squeezed[p], Squeezed(sponge[p], c.label, c.len)))
    BY <2>1, ListAppend
  <2> QED BY <2>1, <2>2 DEF OneMore
<1>9. ASSUME NEW q \in Parties, NEW k \in 1 .. Len(calls'[q])
      PROVE  calls'[q][k].call = "new" <=> k = 1
  <2>1. CASE q # p
    BY <1>5, <1>9, <2>1 DEF TranscriptTypeOK
  <2>2. CASE q = p /\ k = Len(calls[p]) + 1
    BY <1>2, <1>3, <1>4, <2>2 DEF OneMore
  <2>3. CASE q = p /\ k # Len(calls[p]) + 1
    <3>1. k \in 1 .. Len(calls[p])
      BY <1>2, <1>3, <1>4, <2>3
    <3> QED BY <1>2, <1>3, <2>3, <3>1 DEF TranscriptTypeOK
  <2> QED BY <2>1, <2>2, <2>3
<1> HIDE DEF OneMore
<1> QED BY <1>2, <1>3, <1>4, <1>5, <1>6, <1>7, <1>8, <1>9 DEF TranscriptTypeOK

LEMMA OneMoreKeeps ==
  ASSUME TranscriptInv, NEW p \in Parties, NEW c \in Calls, OneMore(p, c)
  PROVE  TranscriptInv'
<1>1. PICK S, Q : /\ \A q \in Parties : History(S, q) /\ Derived(S, Q, q)
                  /\ Apart(S)
  BY DEF TranscriptInv
<1> DEFINE m == Len(calls[p])
           y == Len(squeezed[p])
<1>v. PICK v : v = IF c.call = "new" THEN new(c.label) ELSE After(sponge[p], c)
  OBVIOUS
<1>V. PICK V : V = [q \in Parties |-> IF q = p THEN [k \in 1 .. m + 1 |-> IF k = m + 1 THEN v ELSE S[p][k]]
                                      ELSE S[q]]
  OBVIOUS
<1>W. PICK W : W = [q \in Parties |-> IF q = p THEN [k \in 1 .. y + 1 |-> IF k = y + 1 THEN m ELSE Q[p][k]]
                                      ELSE Q[q]]
  OBVIOUS
<1>2. TranscriptTypeOK
  BY DEF TranscriptInv
<1>3. /\ TranscriptTypeOK' /\ m \in Nat /\ Len(calls'[p]) = m + 1 /\ calls'[p][m + 1] = c
      /\ \A k \in 1 .. m : calls'[p][k] = calls[p][k]
      /\ \A q \in Parties : q # p => /\ calls'[q] = calls[q] /\ sponge'[q] = sponge[q]
                                     /\ squeezed'[q] = squeezed[q]
  BY <1>2, CallsGrow
<1>4. /\ V[p][m + 1] = v /\ \A k \in 1 .. m : V[p][k] = S[p][k]
      /\ \A q \in Parties : q # p => V[q] = S[q]
  BY <1>3, <1>V
<1>5. y \in Nat
  BY <1>2, ListFacts DEF TranscriptTypeOK
<1>6. /\ W[p][y + 1] = m /\ \A k \in 1 .. y : W[p][k] = Q[p][k]
      /\ \A q \in Parties : q # p => W[q] = Q[q]
  BY <1>5, <1>W
<1>7. sponge'[p] = v /\ (m = 0 <=> calls[p] = << >>) /\ (c.call = "new" <=> m = 0)
      /\ (m # 0 => sponge[p] = S[p][m] /\ S[p][1] = new(calls[p][1].label))
  BY <1>1, <1>2, <1>v DEF OneMore, TranscriptTypeOK, History
<1>8. \A r \in Parties : \A j \in 1 .. Len(calls[r]) :
        v = S[r][j] <=> /\ m + 1 = j /\ c = calls[r][j]
                        /\ \A k \in 1 .. m : calls[p][k] = calls[r][k]
  <2>1. c.call = "new" <=> calls[p] = << >>
    BY DEF OneMore
  <2> QED BY <1>1, <1>2, <1>v, <2>1, NewState
<1>9. ASSUME NEW q \in Parties PROVE History(V, q)'
  <2>1. CASE q # p
    BY <1>1, <1>3, <1>4, <2>1 DEF History
  <2>2. CASE q = p
    <3>1. calls'[p] # << >>
      BY <1>3
    <3>2. V[p][1] = new(calls'[p][1].label)
      <4>1. CASE m = 0
        BY <1>3, <1>4, <1>7, <1>v, <4>1
      <4>2. CASE m # 0
        <5>1. 1 \in 1 .. m
          BY <1>3, <4>2
        <5> QED BY <1>3, <1>4, <1>7, <4>2, <5>1
      <4> QED BY <4>1, <4>2
    <3>3. ASSUME NEW k \in 1 .. (m + 1) - 1
          PROVE  V[p][k + 1] = After(V[p][k], calls'[p][k + 1])
      <4>1. CASE k = m
        <5>1. m # 0 /\ m \in 1 .. m
          BY <1>3, <4>1
        <5>2. v = After(S[p][m], c)
          BY <1>7, <1>v, <5>1
        <5> QED BY <1>3, <1>4, <4>1, <5>1, <5>2
      <4>2. CASE k # m
        <5>1. k \in 1 .. m - 1 /\ k \in 1 .. m /\ k + 1 \in 1 .. m
          BY <1>3, <4>2
        <5>2. S[p][k + 1] = After(S[p][k], calls[p][k + 1])
          BY <1>1, <5>1 DEF History
        <5> QED BY <1>3, <1>4, <5>1, <5>2
      <4> QED BY <4>1, <4>2
    <3> QED BY <1>3, <1>4, <1>7, <2>2, <3>1, <3>2, <3>3 DEF History
  <2> QED BY <2>1, <2>2
<1>10. ASSUME NEW q \in Parties, NEW r \in Parties,
              NEW i \in 1 .. Len(calls'[q]), NEW j \in 1 .. Len(calls'[r])
       PROVE  V[q][i] = V[r][j] <=> SameCalls(q, i, r, j)'
  <2> DEFINE last(x, k) == x = p /\ k = m + 1
  <2>1. ASSUME NEW x \in Parties, NEW k \in 1 .. Len(calls'[x]), ~last(x, k)
        PROVE  k \in 1 .. Len(calls[x]) /\ V[x][k] = S[x][k]
               /\ \A l \in 1 .. k : calls'[x][l] = calls[x][l]
    <3>1. CASE x # p
      BY <1>3, <1>4, <2>1, <3>1
    <3>2. CASE x = p
      <4>1. k \in 1 .. m
        BY <1>3, <2>1, <3>2
      <4>2. \A l \in 1 .. k : l \in 1 .. m
        BY <1>3, <4>1
      <4> QED BY <1>3, <1>4, <3>2, <4>1, <4>2
    <3> QED BY <3>1, <3>2
  <2>2. CASE ~last(q, i) /\ ~last(r, j)
    <3>1. S[q][i] = S[r][j] <=> SameCalls(q, i, r, j)
      BY <1>1, <2>1, <2>2 DEF Apart
    <3>2. SameCalls(q, i, r, j)' <=> SameCalls(q, i, r, j)
      <4>1. /\ \A l \in 1 .. i : calls'[q][l] = calls[q][l]
            /\ \A l \in 1 .. j : calls'[r][l] = calls[r][l]
        BY <2>1, <2>2
      <4> QED BY <4>1 DEF SameCalls
    <3> QED BY <2>1, <2>2, <3>1, <3>2
  <2>3. CASE last(q, i) /\ last(r, j)
    BY <2>3 DEF SameCalls
  <2>4. ASSUME NEW x \in Parties, NEW k \in 1 .. Len(calls'[x]), ~last(x, k)
        PROVE  V[p][m + 1] = V[x][k] <=> /\ m + 1 = k
                                         /\ \A l \in 1 .. m + 1 : calls'[p][l] = calls'[x][l]
    <3>1. V[p][m + 1] = V[x][k] <=> /\ m + 1 = k /\ c = calls[x][k]
                                    /\ \A l \in 1 .. m : calls[p][l] = calls[x][l]
      BY <1>4, <1>8, <2>1, <2>4
    <3>2. ASSUME m + 1 = k
          PROVE  (\A l \in 1 .. m + 1 : calls'[p][l] = calls'[x][l])
                   <=> c = calls[x][k] /\ \A l \in 1 .. m : calls[p][l] = calls[x][l]
      <4>1. \A l \in 1 .. m + 1 : calls'[x][l] = calls[x][l]
        BY <2>1, <2>4, <3>2
      <4>2. \A l \in 1 .. m + 1 : l = m + 1 \/ l \in 1 .. m
        BY <1>3
      <4>3. m + 1 \in 1 .. m + 1 /\ \A l \in 1 .. m : l \in 1 .. m + 1
        BY <1>3
      <4> QED BY <1>3, <3>2, <4>1, <4>2, <4>3
    <3> QED BY <3>1, <3>2
  <2>5. CASE last(q, i) /\ ~last(r, j)
    BY <2>4, <2>5 DEF SameCalls
  <2>6. CASE ~last(q, i) /\ last(r, j)
    <3>1. V[p][m + 1] = V[q][i] <=> /\ m + 1 = i
                                    /\ \A l \in 1 .. m + 1 : calls'[p][l] = calls'[q][l]
      BY <2>4, <2>6
    <3>2. r = p /\ j = m + 1
      BY <2>6
    <3> HIDE DEF last
    <3> QED BY <3>1, <3>2 DEF SameCalls
  <2> QED BY <2>2, <2>3, <2>5, <2>6
<1>11. ASSUME NEW q \in Parties PROVE Derived(V, W, q)'
  <2>1. CASE q # p
    <3>1. calls'[q] = calls[q] /\ squeezed'[q] = squeezed[q] /\ V[q] = S[q] /\ W[q] = Q[q]
      BY <1>3, <1>4, <1>6, <2>1
    <3> QED BY <1>1, <3>1 DEF Derived
  <2>2. CASE q = p
    <3>1. ASSUME NEW k \in 1 .. y
          PROVE  /\ W[p][k] \in 1 .. m /\ W[p][k] < m /\ W[p][k] = Q[p][k]
                 /\ \E l, x : squeezed[p][k] = Squeezed(V[p][W[p][k]], l, x)
      <4>1. Q[p][k] \in Nat /\ 1 <= Q[p][k] /\ Q[p][k] < m
            /\ \E l, x : squeezed[p][k] = Squeezed(S[p][Q[p][k]], l, x)
        BY <1>1 DEF Derived
      <4>2. W[p][k] = Q[p][k] /\ Q[p][k] \in 1 .. m
        BY <1>3, <1>6, <4>1
      <4>3. V[p][Q[p][k]] = S[p][Q[p][k]]
        BY <1>4, <4>2
      <4> QED BY <4>1, <4>2, <4>3
    <3>2. \A k, l \in 1 .. y : W[p][k] = W[p][l] => k = l
      BY <1>1, <3>1 DEF Derived
    <3>3. CASE squeezed' = squeezed
      <4>1. squeezed'[p] = squeezed[p]
        BY <3>3
      <4>2. \A k \in 1 .. y : W[p][k] \in Nat /\ 1 <= W[p][k] /\ W[p][k] < m + 1
        BY <1>3, <3>1
      <4> QED BY <1>3, <2>2, <3>1, <3>2, <4>1, <4>2 DEF Derived
    <3>4. CASE /\ calls[p] # << >>
               /\ squeezed' = [squeezed EXCEPT ![p] = Append(squeezed[p], Squeezed(sponge[p], c.label, c.len))]
      <4>1. squeezed'[p] = Append(squeezed[p], Squeezed(sponge[p], c.label, c.len))
            /\ List(squeezed[p])
        BY <1>2, <3>4 DEF TranscriptTypeOK
      <4>2. /\ Len(squeezed'[p]) = y + 1 /\ \A k \in 1 .. y : squeezed'[p][k] = squeezed[p][k]
            /\ squeezed'[p][y + 1] = Squeezed(sponge[p], c.label, c.len)
        BY <4>1, ListAppend
      <4>3. m # 0 /\ m \in 1 .. m /\ V[p][m] = sponge[p]
        BY <1>3, <1>4, <1>7, <3>4, SMTT(40)
      <4>4. \A k \in 1 .. y + 1 : k = y + 1 \/ k \in 1 .. y
        BY <1>5
      <4>5. \A k \in 1 .. y + 1 : W[p][k] \in Nat /\ 1 <= W[p][k] /\ W[p][k] < m + 1
        BY <1>3, <1>6, <3>1, <4>3, <4>4
      <4>6. ASSUME NEW k \in 1 .. y + 1
            PROVE  \E l, x : squeezed'[p][k] = Squeezed(V[p][W[p][k]], l, x)
        <5>1. CASE k = y + 1
          BY <1>6, <4>2, <4>3, <5>1
        <5>2. CASE k \in 1 .. y
          BY <3>1, <4>2, <5>2
        <5> QED BY <4>4, <5>1, <5>2
      <4>7. \A k, l \in 1 .. y + 1 : W[p][k] = W[p][l] => k = l
        <5>1. \A k \in 1 .. y : W[p][k] # W[p][y + 1]
          BY <1>3, <1>6, <3>1, SMTT(40)
        <5> QED BY <3>2, <4>4, <5>1
      <4> HIDE DEF y
      <4> QED BY <1>3, <2>2, <4>2, <4>5, <4>6, <4>7 DEF Derived
    <3> QED BY <3>3, <3>4 DEF OneMore
  <2> QED BY <2>1, <2>2
<1>12. Apart(V)'
  BY <1>10 DEF Apart
<1> QED BY <1>3, <1>9, <1>11, <1>12 DEF TranscriptInv
LEMMA TranscriptStart == TranscriptInit => TranscriptInv
<1> SUFFICES ASSUME TranscriptInit PROVE TranscriptInv
  OBVIOUS
<1>1. List(<< >>) /\ Len(<< >>) = 0
  <2>1. << >> \in Seq({<< >>[j] : j \in DOMAIN << >>})
    OBVIOUS
  <2> QED BY <2>1 DEF List
<1>2. << >> \in Seq(Calls) /\ 1 .. 0 = {} /\ 1 .. 0 - 1 = {}
  OBVIOUS
<1>3. calls \in [Parties -> Seq(Calls)]
  BY <1>2 DEF TranscriptInit
<1>4. TranscriptTypeOK
  BY <1>1, <1>2, <1>3 DEF TranscriptTypeOK, TranscriptInit
<1>5. \A S, Q : /\ \A p \in Parties : History(S, p) /\ Derived(S, Q, p)
                /\ Apart(S)
  BY <1>1, <1>2 DEF History, Derived, Apart, TranscriptInit
<1> QED BY <1>4, <1>5 DEF TranscriptInv

LEMMA TranscriptRestart == TranscriptInit' => TranscriptInv'
BY TranscriptStart, PTL

LEMMA TranscriptStep == TranscriptInv /\ [TranscriptNext]_transcriptVars => TranscriptInv'
<1> SUFFICES ASSUME TranscriptInv, [TranscriptNext]_transcriptVars PROVE TranscriptInv'
  OBVIOUS
<1> USE DEF Parties
<1>1. calls \in [Parties -> Seq(Calls)]
  BY DEF TranscriptInv, TranscriptTypeOK
<1>2. ASSUME NEW p \in Parties, NEW label \in Strings, New(p, label)
      PROVE  TranscriptInv'
  <2>1. Start(label) \in Calls /\ Start(label).call = "new" /\ Start(label).label = label
    BY DEF Calls, Start
  <2>2. Append(calls[p], Start(label)) = <<Start(label)>>
    BY <1>2 DEF New
  <2>3. OneMore(p, Start(label))
    BY <1>2, <2>1, <2>2 DEF New, OneMore
  <2> QED BY <2>1, <2>3, OneMoreKeeps
<1>3. ASSUME NEW p \in Parties, NEW label \in Strings, NEW data \in Strings, Absorb(p, label, data)
      PROVE  TranscriptInv'
  <2> DEFINE c == [call |-> "absorb", label |-> label, data |-> data, len |-> 0]
  <2>1. c \in Calls
    BY DEF Calls
  <2>2. OneMore(p, c)
    BY <1>3 DEF Absorb, OneMore, After
  <2> QED BY <2>1, <2>2, OneMoreKeeps
<1>4. ASSUME NEW p \in Parties, NEW label \in Strings, NEW len \in Lengths, Challenge(p, label, len)
      PROVE  TranscriptInv'
  <2> DEFINE c == [call |-> "challenge", label |-> label, data |-> << >>, len |-> len]
  <2>1. c \in Calls
    BY DEF Calls
  <2>2. OneMore(p, c)
    BY <1>4 DEF Challenge, OneMore, After
  <2> QED BY <2>1, <2>2, OneMoreKeeps
<1>5. CASE DropTranscripts
  BY <1>5, TranscriptRestart DEF DropTranscripts, TranscriptInit
<1>6. CASE UNCHANGED transcriptVars
  <2>1. PICK S, Q : /\ \A q \in Parties : History(S, q) /\ Derived(S, Q, q)
                    /\ Apart(S)
    BY DEF TranscriptInv
  <2>2. calls' = calls /\ sponge' = sponge /\ squeezed' = squeezed
    BY <1>6 DEF transcriptVars
  <2>3. ASSUME NEW q \in Parties PROVE History(S, q)' /\ Derived(S, Q, q)'
    <3>1. History(S, q)'
      BY <2>1, <2>2 DEF History
    <3>2. Derived(S, Q, q)'
      BY <2>1, <2>2, SMTT(40) DEF Derived
    <3> QED BY <3>1, <3>2
  <2>4. Apart(S)'
    BY <2>1, <2>2 DEF Apart, SameCalls
  <2>5. TranscriptTypeOK'
    BY <2>2 DEF TranscriptInv, TranscriptTypeOK
  <2> QED BY <2>3, <2>4, <2>5 DEF TranscriptInv
<1> QED BY <1>2, <1>3, <1>4, <1>5, <1>6 DEF TranscriptNext

LEMMA TranscriptBinds == TranscriptInv => ChallengesBindHistory
<1> SUFFICES ASSUME TranscriptInv PROVE ChallengesBindHistory
  OBVIOUS
<1>1. PICK S, Q : /\ \A q \in Parties : History(S, q) /\ Derived(S, Q, q)
                  /\ Apart(S)
  BY DEF TranscriptInv
<1>2. calls \in [Parties -> Seq(Calls)] /\ \A p \in Parties : List(squeezed[p])
  BY DEF TranscriptInv, TranscriptTypeOK
<1>3. StateTellsCalls
  <2> DEFINE a == calls["prover"]
             b == calls["verifier"]
  <2>1. a \in Seq(Calls) /\ b \in Seq(Calls) /\ "prover" \in Parties /\ "verifier" \in Parties
    BY <1>2 DEF Parties
  <2>2. \A l : new(l) # Nothing
    BY DEF new, Nothing, Term
  <2>3. \A s, d : After(s, d) # Nothing
    BY DEF After, absorb, Folded, Nothing, Term
  <2>4. ASSUME NEW p \in Parties, calls[p] # << >>
        PROVE  sponge[p] # Nothing
    <3>1. Len(calls[p]) \in Nat /\ Len(calls[p]) # 0
      BY <1>2, <2>4
    <3>2. CASE Len(calls[p]) = 1
      BY <1>1, <2>2, <2>4, <3>2 DEF History
    <3>3. CASE Len(calls[p]) # 1
      <4> DEFINE m == Len(calls[p])
                 k == m - 1
      <4>0. m \in Nat /\ m # 0 /\ m # 1
        BY <3>1, <3>3
      <4> HIDE DEF m
      <4>1. k \in 1 .. m - 1 /\ k + 1 = m
        BY <4>0
      <4> HIDE DEF k
      <4>2. S[p][k + 1] = After(S[p][k], calls[p][k + 1])
        BY <1>1, <4>1 DEF History, m
      <4>3. sponge[p] = S[p][m]
        BY <1>1, <2>4 DEF History, m
      <4> QED BY <2>3, <4>1, <4>2, <4>3
    <3> QED BY <3>2, <3>3
  <2>5. CASE a = << >> \/ b = << >>
    BY <1>1, <2>1, <2>4, <2>5 DEF History, StateTellsCalls
  <2>6. CASE a # << >> /\ b # << >>
    <3>1. Len(a) \in 1 .. Len(a) /\ Len(b) \in 1 .. Len(b)
      BY <2>1, <2>6
    <3>2. sponge["prover"] = S["prover"][Len(a)] /\ sponge["verifier"] = S["verifier"][Len(b)]
      BY <1>1, <2>1, <2>6 DEF History
    <3>3. S["prover"][Len(a)] = S["verifier"][Len(b)]
            <=> SameCalls("prover", Len(a), "verifier", Len(b))
      BY <1>1, <2>1, <3>1 DEF Apart
    <3>4. SameCalls("prover", Len(a), "verifier", Len(b)) => a = b
      BY <2>1, SeqEqual DEF SameCalls
    <3>5. a = b => SameCalls("prover", Len(a), "verifier", Len(b))
      BY DEF SameCalls
    <3> QED BY <3>2, <3>3, <3>4, <3>5 DEF StateTellsCalls
  <2> QED BY <2>5, <2>6
<1>4. ChallengesDiffer
  <2> SUFFICES ASSUME NEW p \in Parties, NEW i \in DOMAIN squeezed[p], NEW j \in DOMAIN squeezed[p],
                      squeezed[p][i] # Nothing, squeezed[p][i] = squeezed[p][j]
               PROVE  i = j
    BY DEF ChallengesDiffer
  <2>1. i \in 1 .. Len(squeezed[p]) /\ j \in 1 .. Len(squeezed[p])
    BY <1>2, ListFacts
  <2>2. ASSUME NEW k \in 1 .. Len(squeezed[p]), squeezed[p][k] # Nothing
        PROVE  /\ Q[p][k] \in 1 .. Len(calls[p])
               /\ squeezed[p][k].prev = <<S[p][Q[p][k]]>>
    <3>1. Len(calls[p]) \in Nat /\ Derived(S, Q, p)
      BY <1>1, <1>2
    <3>2. Q[p][k] \in Nat /\ 1 <= Q[p][k] /\ Q[p][k] < Len(calls[p])
      BY <3>1 DEF Derived
    <3>3. PICK l, x : squeezed[p][k] = Squeezed(S[p][Q[p][k]], l, x)
      BY <3>1 DEF Derived
    <3>4. squeezed[p][k].prev = <<S[p][Q[p][k]]>>
      BY <2>2, <3>3 DEF Squeezed, Term
    <3>5. Q[p][k] \in 1 .. Len(calls[p])
      BY <3>1, <3>2
    <3> QED BY <3>4, <3>5
  <2>3. S[p][Q[p][i]] = S[p][Q[p][j]] /\ Q[p][i] \in 1 .. Len(calls[p]) /\ Q[p][j] \in 1 .. Len(calls[p])
    BY <2>1, <2>2, SMTT(30)
  <2>4. Q[p][i] = Q[p][j]
    BY <1>1, <2>3 DEF Apart, SameCalls
  <2> QED BY <1>1, <2>1, <2>4 DEF Derived
<1> QED BY <1>3, <1>4 DEF ChallengesBindHistory

\* For every label, datum and length of a challenge, however many calls two parties
\* make: their transcripts agree exactly when the calls did, and no challenge of one
\* transcript that has a byte is derived twice (transcript.rs:66-149).
THEOREM TranscriptsBindHistory == TranscriptSpec => []ChallengesBindHistory
<1> QED BY TranscriptStart, TranscriptStep, TranscriptBinds, PTL DEF TranscriptSpec
----------------------------------------------------------------------------
(* The bits of a number                                                    *)

\* The bits of x below bit k make x modulo 2^k.
LEMMA BitsTell ==
  ASSUME NEW x \in Nat, NEW k \in Nat, NEW bits, Len(bits) = k,
         \A i \in 1 .. k : bits[i] = BitOf(x, i)
  PROVE  Reconstructed(bits) = x % 2 ^ k
<1> DEFINE eq(f) == f = [i \in 0 .. k |-> IF i = 0 THEN 0 ELSE f[i - 1] + 2 ^ (i - 1) * bits[i]]
           g == [i \in 0 .. k |-> x % 2 ^ i]
<1>1. ASSUME NEW i \in 1 .. k
      PROVE  x % 2 ^ i = (x % 2 ^ (i - 1)) + 2 ^ (i - 1) * bits[i]
  <2> DEFINE P == 2 ^ (i - 1)
  <2>1. i - 1 \in Nat /\ i - 1 + 1 = i
    OBVIOUS
  <2>2. P \in Nat /\ P > 0 /\ 2 ^ i = 2 * P
    <3>1. P \in Nat /\ P >= 1
      BY <2>1, PowerIsNat, PowerIsPositive
    <3>2. 2 ^ (i - 1 + 1) = 2 * P
      BY <2>1, PowerDoubles
    <3> HIDE DEF P
    <3> QED BY <2>1, <3>1, <3>2
  <2>3. bits[i] = (x \div P) % 2
    BY DEF BitOf
  <2> HIDE DEF P
  <2>4. x % (2 * P) = (x % P) + P * ((x \div P) % 2)
    BY <2>2, NextBit
  <2> QED BY <2>2, <2>3, <2>4 DEF P
<1>2. 2 ^ 0 = 1 /\ x % 1 = 0
  OBVIOUS
<1>3. eq(g)
  <2>1. ASSUME NEW i \in 0 .. k
        PROVE  x % 2 ^ i = IF i = 0 THEN 0 ELSE g[i - 1] + 2 ^ (i - 1) * bits[i]
    <3>1. CASE i = 0
      BY <1>2, <3>1
    <3>2. CASE i # 0
      <4>1. i \in 1 .. k /\ i - 1 \in 0 .. k
        BY <3>2
      <4> QED BY <1>1, <3>2, <4>1
    <3> QED BY <3>1, <3>2
  <2> QED BY <2>1
<1> DEFINE f == CHOOSE h : eq(h)
<1>4. eq(f)
  BY <1>3
<1>5. Reconstructed(bits) = f[k]
  BY DEF Reconstructed
<1> HIDE DEF f, g
<1>6. f[0] = 0 /\ \A i \in 1 .. k : f[i] = f[i - 1] + 2 ^ (i - 1) * bits[i]
  BY <1>4
<1> HIDE DEF eq
<1> DEFINE S == {i \in Nat : i <= k => f[i] = x % 2 ^ i}
<1>7. 0 \in S
  BY <1>2, <1>6
<1>8. ASSUME NEW i \in Nat, i \in S PROVE i + 1 \in S
  <2>1. CASE i + 1 <= k
    <3>1. i + 1 \in 1 .. k /\ (i + 1) - 1 = i /\ f[i] = x % 2 ^ i
      BY <1>8, <2>1
    <3>2. f[i + 1] = f[i] + 2 ^ i * bits[i + 1]
      BY <1>6, <3>1
    <3>3. x % 2 ^ (i + 1) = (x % 2 ^ i) + 2 ^ i * bits[i + 1]
      BY <1>1, <3>1
    <3> QED BY <3>1, <3>2, <3>3
  <2> QED BY <2>1
<1> HIDE DEF S
<1>9. k \in S
  BY <1>7, <1>8, Induction
<1> QED BY <1>5, <1>9 DEF S

----------------------------------------------------------------------------
(* The inductive invariant of Backends                                     *)

BackendInv ==
  /\ scheme \in {"none", "ml_dsa", "slh_dsa", "fn_dsa"} /\ List(signatures)
  /\ scheme \in {"none", "fn_dsa"} =>
       signatures = << >> /\ accepted = {} /\ secretKey = NoKey
  /\ scheme = "slh_dsa" =>
       /\ \E seed \in Seeds : publicKey = <<seed>>
       /\ signatures # << >> => secretKey = <<Wiped>>
       /\ \A k \in 2 .. Len(signatures) : signatures[k].by = Wiped
  /\ VerifiedWasSigned

LEMMA EmptyIsAList == List(<< >>) /\ Len(<< >>) = 0
<1>1. << >> \in Seq({<< >>[j] : j \in DOMAIN << >>})
  OBVIOUS
<1> QED BY <1>1 DEF List

LEMMA BackendStart == BackendInit => BackendInv
BY EmptyIsAList DEF BackendInit, BackendInv, VerifiedWasSigned

LEMMA SignOkKeeps ==
  ASSUME BackendInv, NEW msg, SignOk(msg)
  PROVE  BackendInv'
<1> DEFINE sig == Signature(scheme, secretKey[1], msg, "ctx")
           m == Len(signatures)
<1>1. /\ secretKey # NoKey /\ signatures' = Append(signatures, sig) /\ secretKey' = KeyAfterSign
      /\ scheme' = scheme /\ publicKey' = publicKey /\ accepted' = accepted
  BY DEF SignOk
<1>2. List(signatures) /\ m \in Nat /\ DOMAIN signatures = 1 .. m
  BY ListFacts DEF BackendInv
<1>3. /\ List(signatures') /\ Len(signatures') = m + 1 /\ signatures'[m + 1] = sig
      /\ \A k \in 1 .. m : signatures'[k] = signatures[k]
  BY <1>1, <1>2, ListAppend
<1>4. DOMAIN signatures' = 1 .. m + 1
  BY <1>3, ListFacts
<1>5. VerifiedWasSigned'
  <2> SUFFICES ASSUME NEW a \in accepted
               PROVE  \E k \in 1 .. m + 1 : /\ signatures'[k] = a[1] /\ a[1].of = a[2]
                                            /\ scheme = "slh_dsa" => k = 1
    BY <1>1, <1>4 DEF VerifiedWasSigned
  <2>1. PICK k \in 1 .. m : /\ signatures[k] = a[1] /\ a[1].of = a[2]
                            /\ scheme = "slh_dsa" => k = 1
    BY <1>2 DEF BackendInv, VerifiedWasSigned
  <2>2. k \in 1 .. m + 1 /\ signatures'[k] = signatures[k]
    BY <1>2, <1>3
  <2> QED BY <2>1, <2>2
<1>6. ASSUME scheme = "slh_dsa"
      PROVE  secretKey' = <<Wiped>> /\ \A k \in 2 .. m + 1 : signatures'[k].by = Wiped
  <2>1. secretKey' = <<Wiped>>
    BY <1>1, <1>6 DEF KeyAfterSign
  <2>2. ASSUME NEW k \in 2 .. m + 1 PROVE signatures'[k].by = Wiped
    <3>1. CASE k = m + 1
      <4>1. m # 0
        BY <1>2, <3>1
      <4>2. signatures # << >>
        BY <4>1, EmptyIsAList
      <4>3. secretKey[1] = Wiped
        BY <1>6, <4>2 DEF BackendInv
      <4> QED BY <1>3, <3>1, <4>3 DEF Signature
    <3>2. CASE k # m + 1
      <4>1. k \in 2 .. m /\ k \in 1 .. m
        BY <1>2, <3>2
      <4> QED BY <1>3, <1>6, <4>1 DEF BackendInv
    <3> QED BY <3>1, <3>2
  <2> QED BY <2>1, <2>2
<1>7. scheme \notin {"none", "fn_dsa"}
  BY <1>1 DEF BackendInv
<1> QED BY <1>1, <1>3, <1>5, <1>6, <1>7 DEF BackendInv

LEMMA SchemeVerifyKeeps ==
  ASSUME BackendInv, NEW sig \in Shown, NEW msg, SchemeVerify(sig, msg, "ctx")
  PROVE  BackendInv'
<1>1. /\ scheme \notin {"none", "fn_dsa"} /\ publicKey = <<sig.by>>
      /\ sig = Signature(scheme, sig.by, msg, "ctx")
      /\ accepted' = accepted \cup {<<sig, msg>>}
      /\ scheme' = scheme /\ secretKey' = secretKey /\ publicKey' = publicKey
      /\ signatures' = signatures
  BY DEF SchemeVerify, SchemeAccepts
<1>2. sig.ctx = "ctx" /\ sig.of = msg
  BY <1>1 DEF Signature
<1>3. PICK k \in DOMAIN signatures : signatures[k] = sig
  BY <1>2 DEF Shown, Signature
<1>4. scheme = "slh_dsa" => k = 1
  <2> SUFFICES ASSUME scheme = "slh_dsa", k # 1 PROVE FALSE
    OBVIOUS
  <2>1. Len(signatures) \in Nat /\ k \in 1 .. Len(signatures)
    BY <1>3, ListFacts DEF BackendInv
  <2>2. k \in 2 .. Len(signatures)
    BY <2>1
  <2>3. sig.by = Wiped
    BY <1>3, <2>2 DEF BackendInv
  <2> QED BY <1>1, <2>3, BackendsAssumption DEF BackendInv
<1>5. VerifiedWasSigned'
  BY <1>1, <1>2, <1>3, <1>4 DEF BackendInv, VerifiedWasSigned
<1> QED BY <1>1, <1>5 DEF BackendInv

LEMMA BackendStep == BackendInv /\ [BackendNext]_backendVars => BackendInv'
<1> SUFFICES ASSUME BackendInv, [BackendNext]_backendVars PROVE BackendInv'
  OBVIOUS
<1>1. CASE KeygenDeferred
  BY <1>1 DEF KeygenDeferred, BackendInv, VerifiedWasSigned
<1>2. ASSUME NEW sch \in Schemes, NEW seed \in Seeds, Keygen(sch, seed) PROVE BackendInv'
  BY <1>2, EmptyIsAList DEF Keygen, BackendInv, VerifiedWasSigned
<1>3. CASE SignFails
  BY <1>3 DEF SignFails, KeyAfterSign, BackendInv, VerifiedWasSigned
<1>4. ASSUME NEW m \in Messages, SignOk(m) PROVE BackendInv'
  BY <1>4, SignOkKeeps
<1>5. CASE DropKeys
  BY <1>5, EmptyIsAList DEF DropKeys, BackendInv, VerifiedWasSigned
<1>6. ASSUME NEW sig \in Shown, NEW m \in Messages, SchemeVerify(sig, m, "ctx") PROVE BackendInv'
  BY <1>6, SchemeVerifyKeeps
<1>7. CASE UNCHANGED backendVars
  BY <1>7 DEF backendVars, BackendInv, VerifiedWasSigned
<1> QED BY <1>1, <1>2, <1>3, <1>4, <1>5, <1>6, <1>7 DEF BackendNext
----------------------------------------------------------------------------
(* The inductive invariant of Relations                                    *)

\* What was shown last is a pair that prove or somebody else made, and the answer is
\* that of verify.
Judged ==
  /\ relation \in RelationNames /\ ~ProveRefuses(relation, witness)
  /\ shown = Pair(relation, witness, 0) \/ shown \in OtherPairs(relation, witness)
  /\ answer = "accept" <=> VerifyPair(relation, shown[1], shown[2])

\* All that proofs of the witness reveal.
Openings ==
  IF relation = "preimage" THEN {PreimageProof(witness, 0)[i] : i \in Spots} ELSE {}

RelationInv ==
  /\ oracle \in [{<<PreimageStatement(s), e>> : s \in Seeds, e \in Entropy} -> [Spots -> 0 .. 1]]
  /\ relation \in RelationNames \cup {"none"}
  /\ relation # "none" => witness \in Witnesses(relation)
  /\ relation = "none" => shown = NoPair /\ answer # "ok"
  /\ opened \subseteq Openings
  /\ answer = "ok" => /\ relation \in RelationNames /\ ~ProveRefuses(relation, witness)
                      /\ ownProof = Pair(relation, witness, 0)
  /\ shown # NoPair => Judged

LEMMA RelationStart == RelationInit => RelationInv
BY DEF RelationInit, RelationInv

\* The challenge absorbs nothing of the entropy: each proof is the same.
LEMMA ProofsRepeat ==
  ASSUME NEW rel, NEW w, NEW e
  PROVE  Pair(rel, w, e) = Pair(rel, w, 0) /\ PreimageProof(w, e) = PreimageProof(w, 0)
<1>1. PreimageProof(w, e) = PreimageProof(w, 0)
  BY DEF PreimageProof, challenge_bit
<1> QED BY <1>1 DEF Pair

LEMMA ProveKeepsRelation ==
  ASSUME RelationInv, NEW rel \in RelationNames, NEW w \in Witnesses(rel), NEW e, RelationProve(rel, w, e)
  PROVE  RelationInv'
<1>1. /\ relation = "none" \/ (relation = rel /\ witness = w)
      /\ relation' = rel /\ witness' = w /\ ~ProveRefuses(rel, w)
      /\ ownProof' = Pair(rel, w, e) /\ answer' = "ok" /\ shown' = NoPair /\ oracle' = oracle
      /\ opened' = IF rel = "preimage" THEN opened \cup {ownProof'[2][i] : i \in Spots} ELSE opened
  BY DEF RelationProve
<1>2. ownProof' = Pair(rel, w, 0)
  BY <1>1, ProofsRepeat
<1>3. rel = "preimage" => ownProof'[2] = PreimageProof(w, 0)
  BY <1>2 DEF Pair
<1>4. opened \subseteq IF rel = "preimage" THEN {PreimageProof(w, 0)[i] : i \in Spots} ELSE {}
  BY <1>1 DEF RelationInv, RelationNames, Openings
<1>5. opened' \subseteq IF rel = "preimage" THEN {PreimageProof(w, 0)[i] : i \in Spots} ELSE {}
  BY <1>1, <1>3, <1>4
<1>6. rel # "none"
  BY DEF RelationNames
<1>7. PreimageProof(witness, 0)' = PreimageProof(w, 0) /\ Pair(relation, witness, 0)' = Pair(rel, w, 0)
      /\ ProveRefuses(relation, witness)' = ProveRefuses(rel, w)
      /\ Witnesses(relation)' = Witnesses(rel)
  <2>1. PreimageProof(witness, 0)' = PreimageProof(w, 0)
    BY <1>1 DEF PreimageProof, challenge_bit
  <2>2. Pair(relation, witness, 0)' = Pair(rel, w, 0)
    BY <1>1, <2>1 DEF Pair
  <2> QED BY <1>1, <2>1, <2>2
<1>8. (opened \subseteq Openings)'
  BY <1>1, <1>5 DEF Openings, PreimageProof, challenge_bit
<1>9. (answer = "ok" => /\ relation \in RelationNames /\ ~ProveRefuses(relation, witness)
                        /\ ownProof = Pair(relation, witness, 0))'
  BY <1>1, <1>2, <1>7
<1>10. oracle' \in [{<<PreimageStatement(s), z>> : s \in Seeds, z \in Entropy} -> [Spots -> 0 .. 1]]
  BY <1>1 DEF RelationInv
<1> QED BY <1>1, <1>6, <1>8, <1>9, <1>10 DEF RelationInv

LEMMA PairsAreSteady ==
  ASSUME relation' = relation, witness' = witness, oracle' = oracle
  PROVE  /\ OtherPairs(relation, witness)' = OtherPairs(relation, witness)
         /\ Openings' = Openings
BY DEF OtherPairs, Pair, PreimageProof, challenge_bit, Openings

LEMMA VerifyKeepsRelation ==
  ASSUME RelationInv, answer = "ok", NEW pair, RelationVerify(pair),
         pair = ownProof \/ pair \in OtherPairs(relation, witness)
  PROVE  RelationInv'
<1>1. /\ shown' = pair /\ relation' = relation /\ witness' = witness /\ ownProof' = ownProof
      /\ opened' = opened /\ oracle' = oracle
      /\ answer' = IF VerifyPair(relation, pair[1], pair[2]) THEN "accept" ELSE "reject"
  BY DEF RelationVerify
<1>2. /\ PreimageProof(witness, 0)' = PreimageProof(witness, 0)
      /\ Pair(relation, witness, 0)' = Pair(relation, witness, 0)
      /\ ProveRefuses(relation, witness)' = ProveRefuses(relation, witness)
      /\ Witnesses(relation)' = Witnesses(relation)
      /\ OtherPairs(relation, witness)' = OtherPairs(relation, witness)
      /\ VerifyPair(relation, shown[1], shown[2])' = VerifyPair(relation, pair[1], pair[2])
  <2>1. PreimageProof(witness, 0)' = PreimageProof(witness, 0)
    BY <1>1 DEF PreimageProof, challenge_bit
  <2>2. Pair(relation, witness, 0)' = Pair(relation, witness, 0)
    BY <1>1, <2>1 DEF Pair
  <2>3. OtherPairs(relation, witness)' = OtherPairs(relation, witness)
    BY <1>1, PairsAreSteady
  <2>4. VerifyPair(relation, shown[1], shown[2])' = VerifyPair(relation, pair[1], pair[2])
    <3>1. PreimageVerify(shown[1], shown[2])' = PreimageVerify(pair[1], pair[2])
      BY <1>1 DEF PreimageVerify, challenge_bit
    <3> QED BY <1>1, <3>1 DEF VerifyPair
  <2> QED BY <1>1, <2>1, <2>2, <2>3, <2>4
<1>3. Judged'
  BY <1>1, <1>2 DEF Judged, RelationInv
<1>4. relation \in RelationNames /\ relation # "none" /\ answer' # "ok"
  BY <1>1 DEF RelationInv, RelationNames
<1>5. Openings' = Openings
  BY <1>1, PairsAreSteady
<1> QED BY <1>1, <1>2, <1>3, <1>4, <1>5 DEF RelationInv

LEMMA RelationStep == RelationInv /\ [RelationNext]_relationVars => RelationInv'
<1> SUFFICES ASSUME RelationInv, [RelationNext]_relationVars PROVE RelationInv'
  OBVIOUS
<1>1. ASSUME NEW rel \in RelationNames, NEW w \in Witnesses(rel), RelationProveFails(rel, w)
      PROVE  RelationInv'
  <2>1. rel # "none" /\ relation = "none" /\ opened = {}
    BY <1>1 DEF RelationProveFails, RelationInv, RelationNames, Openings
  <2> QED BY <1>1, <2>1 DEF RelationProveFails, RelationInv
<1>2. ASSUME NEW rel \in RelationNames, NEW w \in Witnesses(rel), NEW e, RelationProve(rel, w, e)
      PROVE  RelationInv'
  BY <1>2, ProveKeepsRelation
<1>3. ASSUME answer = "ok", RelationVerify(ownProof) PROVE RelationInv'
  BY <1>3, VerifyKeepsRelation
<1>4. ASSUME answer = "ok", NEW pair \in OtherPairs(relation, witness), RelationVerify(pair)
      PROVE  RelationInv'
  BY <1>4, VerifyKeepsRelation
<1>5. CASE DropWitness
  BY <1>5 DEF DropWitness, RelationInv
<1>6. CASE UNCHANGED relationVars
  <2>0. /\ relation' = relation /\ witness' = witness /\ ownProof' = ownProof /\ opened' = opened
        /\ shown' = shown /\ answer' = answer /\ oracle' = oracle
    BY <1>6 DEF relationVars
  <2>1. PreimageProof(witness, 0)' = PreimageProof(witness, 0)
    BY <2>0 DEF PreimageProof, challenge_bit
  <2>2. Pair(relation, witness, 0)' = Pair(relation, witness, 0)
    BY <2>0, <2>1 DEF Pair
  <2>3. OtherPairs(relation, witness)' = OtherPairs(relation, witness)
    BY <2>0, PairsAreSteady
  <2>4. VerifyPair(relation, shown[1], shown[2])' = VerifyPair(relation, shown[1], shown[2])
    <3>1. PreimageVerify(shown[1], shown[2])' = PreimageVerify(shown[1], shown[2])
      BY <2>0 DEF PreimageVerify, challenge_bit
    <3> QED BY <2>0, <3>1 DEF VerifyPair
  <2>5. Judged => Judged'
    BY <2>0, <2>2, <2>3, <2>4 DEF Judged
  <2>6. Openings' = Openings
    BY <2>0, PairsAreSteady
  <2> QED BY <2>0, <2>1, <2>2, <2>5, <2>6 DEF RelationInv
<1>7. \A rel : rel \in (IF relation = "none" THEN RelationNames ELSE {relation} \cap {"preimage"}) =>
        /\ rel \in RelationNames
        /\ \A w : w \in (IF relation = "none" THEN Witnesses(rel) ELSE {witness}) => w \in Witnesses(rel)
  BY DEF RelationInv, RelationNames
<1>8. CASE RelationNext
  <2>1. CASE \E rel \in IF relation = "none" THEN RelationNames ELSE {relation} \cap {"preimage"} :
               \E w \in IF relation = "none" THEN Witnesses(rel) ELSE {witness} :
                 RelationProveFails(rel, w) \/ \E e \in IF rel = "preimage" THEN Entropy ELSE {0} :
                                                 RelationProve(rel, w, e)
    <3>1. PICK rel : /\ rel \in (IF relation = "none" THEN RelationNames ELSE {relation} \cap {"preimage"})
                     /\ \E w \in IF relation = "none" THEN Witnesses(rel) ELSE {witness} :
                          RelationProveFails(rel, w) \/ \E e \in IF rel = "preimage" THEN Entropy ELSE {0} :
                                                          RelationProve(rel, w, e)
      BY <2>1
    <3>2. PICK w : /\ w \in (IF relation = "none" THEN Witnesses(rel) ELSE {witness})
                   /\ RelationProveFails(rel, w) \/ \E e : RelationProve(rel, w, e)
      BY <3>1
    <3>3. rel \in RelationNames /\ w \in Witnesses(rel)
      BY <1>7, <3>1, <3>2
    <3> QED BY <1>1, <1>2, <3>2, <3>3
  <2> QED BY <1>3, <1>4, <1>5, <1>8, <2>1 DEF RelationNext
<1> QED BY <1>6, <1>8

----------------------------------------------------------------------------
(* What the invariant says of each relation                                *)

LEMMA BitsAreBits ==
  ASSUME RelationInv, NEW w \in Seeds, NEW i \in Spots
  PROVE  challenge_bit(PreimageStatement(w), i, 0) \in 0 .. 1
<1>1. <<PreimageStatement(w), 0>> \in {<<PreimageStatement(s), e>> : s \in Seeds, e \in Entropy}
  BY DEF Entropy
<1>2. oracle[<<PreimageStatement(w), 0>>] \in [Spots -> 0 .. 1]
  BY <1>1 DEF RelationInv
<1> QED BY <1>2 DEF challenge_bit

LEMMA OneLeaf == RelationInv => OneLeafPerPosition
<1> SUFFICES ASSUME RelationInv, NEW s \in Seeds, NEW i \in Spots,
                    derive_sk(s, i, 0) \in opened, derive_sk(s, i, 1) \in opened
             PROVE  FALSE
  BY DEF OneLeafPerPosition
<1>1. \A x \in opened : \E j \in Spots :
        x = derive_sk(witness, j, challenge_bit(PreimageStatement(witness), j, 0))
  BY DEF RelationInv, Openings, PreimageProof
<1>2. PICK j \in Spots : derive_sk(s, i, 0) = derive_sk(witness, j, challenge_bit(PreimageStatement(witness), j, 0))
  BY <1>1
<1>3. PICK k \in Spots : derive_sk(s, i, 1) = derive_sk(witness, k, challenge_bit(PreimageStatement(witness), k, 0))
  BY <1>1
<1>4. i = j /\ challenge_bit(PreimageStatement(witness), j, 0) = 0
  BY <1>2 DEF derive_sk
<1>5. i = k /\ challenge_bit(PreimageStatement(witness), k, 0) = 1
  BY <1>3 DEF derive_sk
<1> QED BY <1>4, <1>5

\* A Lamport key is proved with one opening only.
LEMMA PreimageFits ==
  ASSUME RelationInv, NEW w \in Seeds, NEW p, NEW X,
         p = PreimageProof(w, 0) \/ p \in [Spots -> X] \/ p = << >>
  PROVE  PreimageVerify(PreimageStatement(w), p) <=> p = PreimageProof(w, 0)
<1> DEFINE st == PreimageStatement(w)
           bit(i) == challenge_bit(st, i, 0)
<1>1. DOMAIN st = Spots /\ 1 \in Spots
  BY RelationsAssumption DEF PreimageStatement, Spots
<1>2. ASSUME NEW i \in Spots
      PROVE  st[i][bit(i)] = pubnode(derive_sk(w, i, bit(i)))
  <2>1. bit(i) \in 0 .. 1
    BY BitsAreBits
  <2> HIDE DEF bit
  <2> QED BY <2>1 DEF PreimageStatement
<1>3. \A a, b : pubnode(a) = pubnode(b) <=> a = b
  BY DEF pubnode
<1>4. PreimageProof(w, 0) = [i \in Spots |-> derive_sk(w, i, bit(i))]
  BY DEF PreimageProof
<1>5. PreimageVerify(st, p) <=> DOMAIN p = Spots /\ \A i \in Spots : pubnode(p[i]) = st[i][bit(i)]
  BY <1>1 DEF PreimageVerify
<1> HIDE DEF st, bit
<1>6. PreimageVerify(st, p) <=> DOMAIN p = Spots /\ \A i \in Spots : p[i] = derive_sk(w, i, bit(i))
  BY <1>2, <1>3, <1>5
<1>7. CASE p = PreimageProof(w, 0)
  BY <1>4, <1>6, <1>7 DEF st
<1>8. CASE p \in [Spots -> X]
  BY <1>4, <1>6, <1>8 DEF st
<1>9. CASE p = << >>
  <2>1. DOMAIN p # Spots /\ DOMAIN PreimageProof(w, 0) = Spots
    BY <1>1, <1>4, <1>9
  <2> QED BY <1>6, <2>1 DEF st
<1> QED BY <1>7, <1>8, <1>9

LEMMA Fits == RelationInv => ProofFitsStatement
<1> SUFFICES ASSUME RelationInv, Verified, relation \in {"preimage", "pedersen", "ml_dsa"}
             PROVE  answer = "accept" <=> shown[2] = Pair(relation, witness, 0)[2]
  BY DEF ProofFitsStatement
<1>1. Judged /\ witness \in Witnesses(relation)
  BY DEF RelationInv, Verified
<1>2. CASE relation = "preimage"
  <2> DEFINE X == {derive_sk(s, i, b) : s \in Seeds, i \in Spots, b \in 0 .. 1}
  <2>1. witness \in Seeds
    BY <1>1, <1>2 DEF Witnesses
  <2>2. /\ shown[1] = PreimageStatement(witness)
        /\ shown[2] = PreimageProof(witness, 0) \/ shown[2] \in [Spots -> X] \/ shown[2] = << >>
    <3>1. CASE shown = Pair(relation, witness, 0)
      BY <1>2, <3>1 DEF Pair
    <3>2. CASE shown \in OtherPairs(relation, witness)
      <4>1. PICK p \in [Spots -> X] \cup {<< >>} : shown = <<PreimageStatement(witness), p>>
        BY <1>2, <3>2 DEF OtherPairs
      <4> QED BY <4>1
    <3> QED BY <1>1, <3>1, <3>2 DEF Judged
  <2> HIDE DEF X
  <2>3. PreimageVerify(shown[1], shown[2]) <=> shown[2] = PreimageProof(witness, 0)
    BY <2>1, <2>2, PreimageFits
  <2> QED BY <1>1, <1>2, <2>3 DEF Judged, VerifyPair, Pair
<1>3. CASE relation = "pedersen"
  <2>1. \A v \in Witnesses(relation) : v = [value |-> v.value, blinding |-> v.blinding]
    BY <1>3 DEF Witnesses
  <2>2. PICK v \in Witnesses(relation) : shown = <<compute_commitment(witness.value, witness.blinding), v>>
    BY <1>1, <1>3 DEF Judged, Pair, OtherPairs
  <2>3. answer = "accept" <=> compute_commitment(v.value, v.blinding)
                                = compute_commitment(witness.value, witness.blinding)
    BY <1>1, <1>3, <2>2 DEF Judged, VerifyPair, PedersenVerify
  <2>4. compute_commitment(v.value, v.blinding) = compute_commitment(witness.value, witness.blinding)
          <=> v.value = witness.value /\ v.blinding = witness.blinding
    BY DEF compute_commitment
  <2>5. v = witness <=> v.value = witness.value /\ v.blinding = witness.blinding
    BY <1>1, <2>1
  <2> QED BY <1>3, <2>2, <2>3, <2>4, <2>5 DEF Pair
<1>4. CASE relation = "ml_dsa"
  <2>1. PICK v : shown = <<witness, MlDsaProof(v)>>
    BY <1>1, <1>4 DEF Judged, Pair, OtherPairs
  <2>2. answer = "accept" <=> MlDsaProof(v) = MlDsaProof(witness)
    BY <1>1, <1>4, <2>1 DEF Judged, VerifyPair, MlDsaVerify, dsa_verify, MlDsaProof, dsa_sign
  <2> QED BY <1>4, <2>1, <2>2 DEF Pair
<1> QED BY <1>2, <1>3, <1>4
LEMMA UpToIsAList ==
  ASSUME NEW S, NEW m, NEW f \in UpTo(S, m)
  PROVE  List(f)
<1>1. PICK j \in 0 .. m : f \in [1 .. j -> S]
  BY DEF UpTo
<1>2. j \in Nat /\ f = [k \in 1 .. j |-> f[k]]
  BY <1>1
<1> QED BY <1>2, ListMade

\* The proof of a threshold witness v has a hash of each share, and none is zero.
LEMMA ThresholdProofFacts ==
  ASSUME NEW v, List(v.shares)
  PROVE  /\ Len(ThresholdProof(v).share_hashes) = Len(v.shares)
         /\ \A k \in DOMAIN ThresholdProof(v).share_hashes :
              ThresholdProof(v).share_hashes[k] # <<"zero">>
<1> DEFINE h == ThresholdProof(v).share_hashes
<1>1. Len(v.shares) \in Nat /\ DOMAIN v.shares = 1 .. Len(v.shares)
  BY ListFacts
<1>2. h = [k \in 1 .. Len(v.shares) |-> <<"share-hash", v.shares[k]>>]
  BY <1>1 DEF ThresholdProof
<1>3. h = [k \in 1 .. Len(v.shares) |-> h[k]]
  BY <1>2
<1>4. \A x : <<"share-hash", x>> # <<"zero">>
  OBVIOUS
<1> QED BY <1>1, <1>2, <1>3, <1>4, ListMade

\* What a threshold proof is judged by.
LEMMA ThresholdTells ==
  ASSUME RelationInv, Verified, relation = "threshold"
  PROVE  answer = "accept" <=>
           /\ Len(witness.shares) < U8
           /\ Len(shown[2].share_hashes) = Len(witness.shares)
           /\ shown[2].index_commitment = <<"share-commitment", witness.indices>>
<1>1. Judged /\ witness.shares \in UpTo(ShareValues, MaxHeld) /\ witness.indices \in UpTo(0 .. 1, MaxHeld)
  BY DEF RelationInv, Verified, Witnesses
<1> DEFINE sh == witness.shares
           m == Len(sh)
<1>2. /\ List(sh) /\ m \in Nat /\ DOMAIN sh = 1 .. m
      /\ Len(witness.indices) = m /\ sh # << >>
  <2>1. List(sh)
    BY <1>1, UpToIsAList
  <2>2. m \in Nat /\ DOMAIN sh = 1 .. m
    BY <2>1, ListFacts
  <2> QED BY <1>1, <2>1, <2>2 DEF Judged, ProveRefuses, ThresholdRefuses
<1>3. m >= 1
  <2>1. ASSUME m = 0 PROVE FALSE
    BY <1>2, <2>1, EmptyIsAList, ListEqual
  <2> QED BY <1>2, <2>1
<1>4. PICK v : shown = <<ThresholdStatement(witness), ThresholdProof(v)>> /\ List(v.shares)
                 /\ Len(v.shares) >= m
  <2>1. CASE shown = Pair(relation, witness, 0)
    BY <1>2, <2>1 DEF Pair
  <2>2. CASE shown \in OtherPairs(relation, witness)
    <3>1. PICK v \in [shares : {[sh EXCEPT ![1] = z] : z \in ShareValues}
                                 \cup {Append(sh, z) : z \in ShareValues},
                      indices : {witness.indices, [witness.indices EXCEPT ![1] = 1 - @]}] :
            shown = <<ThresholdStatement(witness), ThresholdProof(v)>>
      BY <2>2 DEF OtherPairs
    <3>2. CASE \E z \in ShareValues : v.shares = [sh EXCEPT ![1] = z]
      <4>1. v.shares = [k \in 1 .. m |-> v.shares[k]]
        BY <1>2, <3>2
      <4>2. List(v.shares) /\ Len(v.shares) = m
        BY <1>2, <4>1, ListMade
      <4> QED BY <1>2, <3>1, <4>2
    <3>3. CASE \E z \in ShareValues : v.shares = Append(sh, z)
      <4>1. List(v.shares) /\ Len(v.shares) = m + 1
        BY <1>2, <3>3, ListAppend
      <4> QED BY <1>2, <3>1, <4>1
    <3> QED BY <3>1, <3>2, <3>3
  <2> QED BY <1>1, <2>1, <2>2 DEF Judged
<1> DEFINE p == ThresholdProof(v)
           l == Len(v.shares)
<1>5. /\ Len(p.share_hashes) = l /\ \A k \in DOMAIN p.share_hashes : p.share_hashes[k] # <<"zero">>
      /\ l \in Nat /\ l >= m
  BY <1>4, ThresholdProofFacts, ListFacts
<1>6. U8 \in Nat /\ U8 > 0
  BY RelationsAssumption
<1> HIDE DEF p, l
<1>7. answer = "accept" <=> /\ m % U8 # 0 /\ m % U8 <= m % U8 /\ l = m % U8
                            /\ p.index_commitment = <<"share-commitment", witness.indices>>
  <2>1. answer = "accept" <=> ThresholdVerify(ThresholdStatement(witness), p)
    BY <1>1, <1>4 DEF Judged, VerifyPair, p
  <2>2. /\ ThresholdStatement(witness).threshold = m % U8 /\ ThresholdStatement(witness).total = m % U8
        /\ ThresholdStatement(witness).share_commitment = <<"share-commitment", witness.indices>>
    BY <1>2 DEF ThresholdStatement
  <2> QED BY <1>5, <2>1, <2>2 DEF ThresholdVerify
<1> HIDE DEF m
<1>8. CASE m < U8
  <2>1. m % U8 = m
    BY <1>2, <1>6, <1>8
  <2> QED BY <1>2, <1>3, <1>4, <1>5, <1>7, <1>8, <2>1 DEF p, m
<1>9. CASE ~(m < U8)
  <2>1. m % U8 \in 0 .. U8 - 1
    BY <1>2, <1>6
  <2>2. l # m % U8
    BY <1>2, <1>5, <1>6, <1>9, <2>1
  <2> QED BY <1>7, <1>9, <2>2 DEF m
<1> QED BY <1>8, <1>9

LEMMA ThresholdExact == RelationInv => ThresholdIsExact
<1> SUFFICES ASSUME RelationInv, Verified, relation = "threshold", Len(witness.shares) < U8
             PROVE  /\ answer = "accept" =>
                         /\ Len(shown[2].share_hashes) = Len(witness.shares)
                         /\ shown[2].index_commitment = <<"share-commitment", witness.indices>>
                    /\ shown = Pair(relation, witness, 0) => answer = "accept"
  BY DEF ThresholdIsExact
<1>1. ASSUME shown = Pair(relation, witness, 0) PROVE answer = "accept"
  <2>1. shown[2] = ThresholdProof(witness)
    BY <1>1 DEF Pair
  <2>2. List(witness.shares)
    BY UpToIsAList DEF RelationInv, Verified, Witnesses
  <2>3. Len(shown[2].share_hashes) = Len(witness.shares)
    BY <2>1, <2>2, ThresholdProofFacts
  <2>4. shown[2].index_commitment = <<"share-commitment", witness.indices>>
    BY <2>1 DEF ThresholdProof, ThresholdStatement
  <2> QED BY <2>3, <2>4, ThresholdTells
<1> QED BY <1>1, ThresholdTells

----------------------------------------------------------------------------
(* Range proofs                                                            *)

\* Every range needs between one and Width bits, and they are enough for it.
LEMMA NumBits ==
  ASSUME NEW a \in Numbers, NEW b \in Numbers
  PROVE  /\ num_bits(a, b) \in 1 .. Width
         /\ (IF b > a THEN b - a ELSE 0) < 2 ^ num_bits(a, b)
<1> DEFINE range == IF b > a THEN b - a ELSE 0
           ok(k) == range < 2 ^ k /\ (k = 1 \/ range >= 2 ^ (k - 1))
           W == 2 ^ Width
<1>1. Width \in Nat /\ Width >= 1 /\ W \in Nat /\ W >= 1
  BY RelationsAssumption, PowerIsNat, PowerIsPositive
<1>2. range \in Nat /\ range < W
  <2>1. a \in 0 .. W - 1 /\ b \in 0 .. W - 1
    BY DEF Numbers
  <2> HIDE DEF W
  <2> QED BY <1>1, <2>1
<1> DEFINE T == {k \in Nat : k >= 1 /\ range < 2 ^ k}
<1> HIDE DEF range
<1>3. PICK k \in T : \A j \in T : k <= j
  <2>1. Width \in T
    BY <1>1, <1>2
  <2> HIDE DEF T
  <2>2. T \in SUBSET Nat
    BY DEF T
  <2> QED BY <2>1, <2>2, Least
<1>4. k \in 1 .. Width
  <2>1. Width \in T
    BY <1>1, <1>2
  <2> QED BY <1>1, <1>3, <2>1
<1>5. ok(k)
  <2>1. range < 2 ^ k
    BY <1>3
  <2>2. ASSUME k # 1 PROVE range >= 2 ^ (k - 1)
    <3>1. k - 1 \in Nat /\ k - 1 >= 1 /\ k - 1 \notin T
      BY <1>3, <2>2
    <3>2. 2 ^ (k - 1) \in Nat
      BY <3>1, PowerIsNat
    <3> QED BY <1>2, <3>1, <3>2
  <2> QED BY <2>1, <2>2
<1>6. num_bits(a, b) = CHOOSE j \in 1 .. Width : ok(j)
  BY DEF num_bits, range
<1> HIDE DEF ok
<1>7. num_bits(a, b) \in 1 .. Width /\ ok(num_bits(a, b))
  BY <1>4, <1>5, <1>6
<1> QED BY <1>7 DEF ok, range

LEMMA RangeExact == RelationInv => RangeIsExact
<1> DEFINE w == witness
           s == shown[1]
<1> SUFFICES ASSUME RelationInv, Verified, relation = "range"
             PROVE  /\ answer = "accept" => w.min <= w.value /\ w.value <= w.max
                    /\ w.value - w.min + s.min < 2 ^ Width =>
                         (answer = "accept" <=> /\ w.min <= w.value /\ w.value <= w.max
                                                /\ w.value - w.min + s.min <= s.max)
  BY DEF RangeIsExact
<1> DEFINE W == 2 ^ Width
           k == num_bits(w.min, w.max)
           off == Offset(w)
           P == RangeProof(w)
<1>1. Judged /\ w \in [value : Numbers, min : Numbers, max : Numbers]
  BY DEF RelationInv, Verified, Witnesses
<1>2. W \in Nat /\ W >= 1 /\ w.value \in 0 .. W - 1 /\ w.min \in 0 .. W - 1 /\ w.max \in 0 .. W - 1
  <2>1. W \in Nat /\ W >= 1
    BY RelationsAssumption, PowerIsNat, PowerIsPositive
  <2> QED BY <1>1, <2>1 DEF Numbers
<1>3. k \in Nat /\ k >= 1 /\ (IF w.max > w.min THEN w.max - w.min ELSE 0) < 2 ^ k
  BY <1>1, NumBits, RelationsAssumption
<1>4. /\ s.commitments = RangeStatement(w).commitments /\ shown[2] = P
      /\ s.min \in 0 .. W - 1 /\ s.max \in 0 .. W - 1
  <2>1. CASE shown = Pair(relation, w, 0)
    BY <1>2, <2>1 DEF Pair, RangeStatement
  <2>2. CASE shown \in OtherPairs(relation, w)
    <3> DEFINE other(a, b) == <<[RangeStatement(w) EXCEPT !.min = a, !.max = b], P>>
    <3>1. OtherPairs("range", w) = {other(a, b) : a, b \in Numbers}
      BY DEF OtherPairs
    <3> HIDE DEF other
    <3>2. PICK a \in Numbers, b \in Numbers : shown = other(a, b)
      BY <2>2, <3>1
    <3>3. /\ shown[1] = [commitments |-> RangeStatement(w).commitments, min |-> a, max |-> b]
          /\ shown[2] = P
      BY <3>2 DEF RangeStatement, other
    <3> QED BY <3>3 DEF Numbers
  <2> QED BY <1>1, <2>1, <2>2 DEF Judged
<1>5. answer = "accept" <=> RangeVerify(s, P)
  BY <1>1, <1>4 DEF Judged, VerifyPair
<1>6. /\ P.bits = [i \in 1 .. k |-> BitOf(off, i)]
      /\ P.nonces = Invalidated(w, [i \in 1 .. k |-> Nonce(w, i)])
      /\ s.commitments = [i \in 1 .. k |-> bit_commitment(BitOf(off, i), Nonce(w, i))]
  BY <1>4 DEF RangeProof, RangeStatement
<1> HIDE DEF k, off, P
<1>7. Len(P.bits) = k /\ Len(s.commitments) = k /\ DOMAIN P.bits = 1 .. k
  <2>1. P.bits = [i \in 1 .. k |-> P.bits[i]] /\ s.commitments = [i \in 1 .. k |-> s.commitments[i]]
    BY <1>6
  <2> QED BY <1>3, <1>6, <2>1, ListMade
<1>8. CASE ~(w.min <= w.value /\ w.value <= w.max)
  <2>1. P.nonces[1] = <<"flipped", Nonce(w, 1)>>
    BY <1>3, <1>6, <1>8 DEF Invalidated
  <2>2. P.nonces[1] # Nonce(w, 1)
    BY <2>1 DEF Nonce
  <2>3. 1 \in 1 .. k /\ s.commitments[1] = bit_commitment(BitOf(off, 1), Nonce(w, 1))
    BY <1>3, <1>6
  <2>4. bit_commitment(P.bits[1], P.nonces[1]) # s.commitments[1]
    BY <2>2, <2>3 DEF bit_commitment
  <2>5. ~RangeVerify(s, P)
    BY <1>7, <2>3, <2>4 DEF RangeVerify
  <2> QED BY <1>5, <1>8, <2>5
<1>9. CASE w.min <= w.value /\ w.value <= w.max
  <2>1. P.nonces = [i \in 1 .. k |-> Nonce(w, i)]
    BY <1>6, <1>9 DEF Invalidated
  <2>2. Len(P.nonces) = k
    <3>1. P.nonces = [i \in 1 .. k |-> P.nonces[i]]
      BY <2>1
    <3> QED BY <1>3, <3>1, ListMade
  <2>3. ASSUME NEW i \in DOMAIN P.bits
        PROVE  bit_commitment(P.bits[i], P.nonces[i]) = s.commitments[i]
    <3>1. i \in 1 .. k
      BY <1>7
    <3>2. P.bits[i] = BitOf(off, i)
      BY <1>6, <3>1
    <3>3. P.nonces[i] = Nonce(w, i)
      BY <2>1, <3>1
    <3>4. s.commitments[i] = bit_commitment(BitOf(off, i), Nonce(w, i))
      BY <1>6, <3>1
    <3> QED BY <3>2, <3>3, <3>4
  <2>4. off = w.value - w.min /\ off \in Nat /\ off < W /\ off < 2 ^ k
    <3> DEFINE x == w.value - w.min
               K == 2 ^ k
    <3>1. x \in Nat /\ x < W
      BY <1>2, <1>9
    <3>2. off = x % W
      BY DEF off, Offset
    <3>3. K \in Nat
      BY <1>3, PowerIsNat
    <3>4. (IF w.max > w.min THEN w.max - w.min ELSE 0) < K
      BY <1>3
    <3> HIDE DEF W, K
    <3>5. x < K
      BY <1>2, <1>9, <3>3, <3>4
    <3>6. x % W = x
      BY <1>2, <3>1
    <3> QED BY <3>1, <3>2, <3>5, <3>6 DEF K
  <2>5. Reconstructed(P.bits) = off
    <3>1. \A i \in 1 .. k : P.bits[i] = BitOf(off, i)
      BY <1>6
    <3>2. Reconstructed(P.bits) = off % 2 ^ k
      BY <1>3, <1>7, <2>4, <3>1, BitsTell
    <3> DEFINE K == 2 ^ k
    <3>3. K \in Nat
      BY <1>3, PowerIsNat
    <3>4. off < K
      BY <2>4
    <3> HIDE DEF K
    <3>5. off % K = off
      BY <2>4, <3>3, <3>4
    <3> QED BY <3>2, <3>5 DEF K
  <2>6. RangeVerify(s, P) <=> /\ saturating_add(off, s.min) >= s.min
                              /\ saturating_add(off, s.min) <= s.max
    BY <1>7, <2>2, <2>3, <2>5 DEF RangeVerify
  <2>7. saturating_add(off, s.min) = IF off + s.min < W THEN off + s.min ELSE W - 1
    BY DEF saturating_add
  <2> HIDE DEF W, s
  <2>8. off + s.min < W =>
          ((saturating_add(off, s.min) >= s.min /\ saturating_add(off, s.min) <= s.max)
             <=> off + s.min <= s.max)
    BY <1>2, <1>4, <2>4, <2>7
  <2> QED BY <1>5, <1>9, <2>4, <2>6, <2>8 DEF W
<1> QED BY <1>8, <1>9

----------------------------------------------------------------------------
\* For every key, every challenge the oracle gives and every entropy: no two proofs of
\* a witness together reveal both leaves of a position (hash_preimage.rs:107-160).
THEOREM LamportOpensOneLeaf == RelationSpec => []OneLeafPerPosition
BY RelationStart, RelationStep, OneLeaf, PTL DEF RelationSpec

\* For every width of the integers and of the share counter, every witness and every
\* pair that is shown: verify of each relation accepts exactly what VerifyIsExact says,
\* and the signatures it rests on verify only as they were made.
THEOREM RelationsAreExact == RelationSpec /\ BackendSpec => []VerifyIsExact
<1>1. RelationInv /\ BackendInv => VerifyIsExact
  BY Fits, ThresholdExact, RangeExact DEF BackendInv, VerifyIsExact
<1> QED BY <1>1, RelationStart, RelationStep, BackendStart, BackendStep, PTL
        DEF RelationSpec, BackendSpec

----------------------------------------------------------------------------
(* Shamir: functions that are computed by recursion                        *)

\* The i-th step leads from a value in V to another one; f takes the steps from z.
Steps(V, N, step) == \A i \in 1 .. N : \A v \in V : step[<<i, v>>] \in V
Takes(f, V, z, N, step) ==
  f \in [0 .. N -> V] /\ f[0] = z /\ \A i \in 1 .. N : f[i] = step[<<i, f[i - 1]>>]

\* A step that is defined on the values in V gives a recursive function.
LEMMA Recursion ==
  ASSUME NEW V, NEW z, NEW N, NEW step, N \in Nat, z \in V, Steps(V, N, step)
  PROVE  \E f : Takes(f, V, z, N, step)
<1> USE DEF Steps, Takes
<1> DEFINE Solves(f, m) == Takes(f, V, z, m, step)
           S == {m \in Nat : m <= N => \E f : Solves(f, m)}
<1>1. 0 \in S
  <2> DEFINE f == [i \in 0 .. 0 |-> z]
  <2>1. Solves(f, 0)
    OBVIOUS
  <2> QED BY <2>1
<1>2. ASSUME NEW m \in Nat, m \in S PROVE m + 1 \in S
  <2>1. SUFFICES ASSUME m + 1 <= N PROVE \E f : Solves(f, m + 1)
    OBVIOUS
  <2>2. PICK f : Solves(f, m)
    BY <1>2, <2>1
  <2> DEFINE g == [i \in 0 .. m + 1 |-> IF i = m + 1 THEN step[<<m + 1, f[m]>>] ELSE f[i]]
  <2>3. m \in 0 .. m /\ m + 1 \in 1 .. N /\ f[m] \in V /\ (m + 1) - 1 = m
    BY <2>1, <2>2
  <2>4. step[<<m + 1, f[m]>>] \in V
    BY <2>3
  <2>5. g \in [0 .. m + 1 -> V]
    BY <2>2, <2>4
  <2>6. g[m + 1] = step[<<m + 1, f[m]>>] /\ \A i \in 0 .. m : g[i] = f[i]
    OBVIOUS
  <2> HIDE DEF g
  <2>7. ASSUME NEW i \in 1 .. m + 1 PROVE g[i] = step[<<i, g[i - 1]>>]
    <3>1. CASE i = m + 1
      BY <2>3, <2>6, <3>1
    <3>2. CASE i # m + 1
      <4>1. i \in 1 .. m /\ i \in 0 .. m /\ i - 1 \in 0 .. m
        BY <3>2
      <4> QED BY <2>2, <2>6, <4>1
    <3> QED BY <3>1, <3>2
  <2>8. g[0] = z
    BY <2>2, <2>6
  <2> QED BY <2>5, <2>7, <2>8
<1> HIDE DEF S
<1>3. N \in S
  BY <1>1, <1>2, Induction
<1> QED BY <1>3 DEF S

----------------------------------------------------------------------------
(* Bits                                                                    *)

LEMMA BitIsBit == ASSUME NEW x \in Nat, NEW i \in Nat PROVE Bit(x, i) \in {0, 1}
<1> DEFINE p == 2 ^ i
<1>1. p \in Nat /\ p > 0
  BY PowerIsNat, PowerIsPositive
<1> HIDE DEF p
<1>2. x \div p \in Nat
  BY <1>1, Division
<1>3. (x \div p) % 2 \in {0, 1}
  BY <1>2
<1> QED BY <1>3 DEF p, Bit

LEMMA QuotientOfSum ==
  ASSUME NEW x \in Nat, NEW p \in Nat, p > 0, NEW c \in Nat
  PROVE  (x + p * c) \div p = (x \div p) + c
<1> DEFINE q == x \div p
           r == x % p
           y == x + p * c
<1>1. q \in Nat /\ r \in Nat /\ r < p /\ x = p * q + r
  BY Division
<1> HIDE DEF q, r
<1>2. p * c \in Nat /\ p * (q + c) = p * q + p * c /\ p * q \in Nat /\ q + c \in Nat
  BY <1>1
<1>3. y \in Nat /\ y = p * (q + c) + r
  BY <1>1, <1>2
<1> HIDE DEF y
<1>4. y \div p = q + c
  BY <1>1, <1>2, <1>3, Quotient
<1> QED BY <1>4 DEF y, q

\* The bits below i do not see what is added at i or above; the bit at i does.
LEMMA BitOfSum ==
  ASSUME NEW i \in Nat, NEW x \in Nat, x < 2 ^ i, NEW b \in {0, 1}
  PROVE  /\ Bit(x + 2 ^ i * b, i) = b
         /\ \A j \in 0 .. i - 1 : Bit(x + 2 ^ i * b, j) = Bit(x, j)
         /\ x + 2 ^ i * b \in Nat /\ x + 2 ^ i * b < 2 ^ (i + 1)
<1> DEFINE p == 2 ^ i
<1>1. p \in Nat /\ p > 0 /\ x < p /\ 2 ^ (i + 1) = 2 * p
  BY PowerIsNat, PowerIsPositive, PowerDoubles
<1>2. Bit(x + p * b, i) = b
  <2> HIDE DEF p
  <2>1. x \div p = 0
    <3>1. p * 0 = 0 /\ x = 0 + x
      BY <1>1
    <3> QED BY <1>1, <3>1, Quotient
  <2>2. (x + p * b) \div p = (x \div p) + b
    BY <1>1, QuotientOfSum
  <2>3. (0 + b) % 2 = b
    OBVIOUS
  <2> QED BY <2>1, <2>2, <2>3 DEF Bit, p
<1>3. ASSUME NEW j \in 0 .. i - 1 PROVE Bit(x + p * b, j) = Bit(x, j)
  <2> DEFINE q == 2 ^ j
             c == 2 ^ (i - (j + 1))
  <2>1. j \in Nat /\ j + 1 \in Nat /\ i - (j + 1) \in Nat /\ (j + 1) + (i - (j + 1)) = i
    OBVIOUS
  <2>2. q \in Nat /\ q > 0 /\ c \in Nat /\ 2 ^ (j + 1) = 2 * q
    BY <2>1, PowerIsNat, PowerIsPositive, PowerDoubles
  <2>3. 2 ^ ((j + 1) + (i - (j + 1))) = 2 ^ (j + 1) * c
    BY <2>1, PowersMultiply
  <2>4. p = (2 * q) * c
    BY <2>1, <2>2, <2>3
  <2> HIDE DEF p, q, c
  <2>5. p * b = q * (2 * (c * b)) /\ c * b \in Nat /\ 2 * (c * b) \in Nat
    BY <2>2, <2>4
  <2> DEFINE d == c * b
  <2>6. (x + q * (2 * d)) \div q = (x \div q) + 2 * d
    <3>1. 2 * d \in Nat
      BY <2>5
    <3> HIDE DEF d
    <3> QED BY <2>2, <3>1, QuotientOfSum
  <2>7. d \in Nat /\ x \div q \in Nat
    BY <2>2, <2>5, Division
  <2> DEFINE h == x \div q
  <2>8. (h + 2 * d) % 2 = h % 2
    <3> HIDE DEF h, d
    <3> QED BY <2>7 DEF h
  <2> QED BY <2>5, <2>6, <2>8 DEF Bit, q
<1>4. x + p * b \in Nat /\ x + p * b < 2 * p
  <2> HIDE DEF p
  <2>1. b = 0 \/ b = 1
    OBVIOUS
  <2>2. p * 0 = 0 /\ p * 1 = p
    BY <1>1
  <2> QED BY <1>1, <2>1, <2>2
<1> QED BY <1>1, <1>2, <1>3, <1>4

\* Summing up powers of two makes a number with the given bits.
AddsBits(f, N, g) ==
  /\ N \in Nat /\ f[0] = 0 /\ \A i \in 0 .. N - 1 : g[i] \in {0, 1}
  /\ \A i \in 1 .. N : f[i] = f[i - 1] + 2 ^ (i - 1) * g[i - 1]

\* A number is the sum of its bits.
LEMMA BitsMake ==
  ASSUME NEW N, NEW g, NEW f, AddsBits(f, N, g)
  PROVE  f[N] \in Nat /\ f[N] < 2 ^ N /\ \A j \in 0 .. N - 1 : Bit(f[N], j) = g[j]
<1> USE DEF AddsBits
<1> DEFINE Made(i) == f[i] \in Nat /\ f[i] < 2 ^ i /\ \A j \in 0 .. i - 1 : Bit(f[i], j) = g[j]
           S == {i \in Nat : i <= N => Made(i)}
<1>1. 0 \in S
  BY PowerIsPositive
<1>2. ASSUME NEW i \in Nat, i \in S PROVE i + 1 \in S
  <2>1. SUFFICES ASSUME i + 1 <= N PROVE Made(i + 1)
    OBVIOUS
  <2>2. i <= N /\ Made(i) /\ i + 1 \in 1 .. N /\ (i + 1) - 1 = i /\ i \in 0 .. N - 1
    BY <1>2, <2>1
  <2>3. f[i + 1] = f[i] + 2 ^ i * g[i] /\ g[i] \in {0, 1}
    BY <2>2
  <2>4. /\ Bit(f[i + 1], i) = g[i] /\ \A j \in 0 .. i - 1 : Bit(f[i + 1], j) = Bit(f[i], j)
        /\ f[i + 1] \in Nat /\ f[i + 1] < 2 ^ (i + 1)
    BY <2>2, <2>3, BitOfSum, SMTT(40)
  <2>5. ASSUME NEW j \in 0 .. (i + 1) - 1 PROVE Bit(f[i + 1], j) = g[j]
    <3>1. j \in 0 .. i - 1 \/ j = i
      OBVIOUS
    <3> QED BY <2>2, <2>4, <3>1
  <2> QED BY <2>4, <2>5
<1> HIDE DEF S
<1>3. N \in S
  BY <1>1, <1>2, Induction
<1> QED BY <1>3 DEF S

\* Numbers with the same bits are the same.
LEMMA BitsSame ==
  ASSUME NEW N \in Nat, NEW x \in Nat, NEW y \in Nat, x < 2 ^ N, y < 2 ^ N,
         \A i \in 0 .. N - 1 : Bit(x, i) = Bit(y, i)
  PROVE  x = y
<1> DEFINE S == {i \in Nat : i <= N => x % 2 ^ i = y % 2 ^ i}
<1>1. 0 \in S
  <2>1. 2 ^ 0 = 1 /\ x % 1 = 0 /\ y % 1 = 0
    OBVIOUS
  <2> QED BY <2>1
<1>2. ASSUME NEW i \in Nat, i \in S PROVE i + 1 \in S
  <2>1. SUFFICES ASSUME i + 1 <= N PROVE x % 2 ^ (i + 1) = y % 2 ^ (i + 1)
    OBVIOUS
  <2> DEFINE p == 2 ^ i
  <2>2. p \in Nat /\ p > 0 /\ 2 ^ (i + 1) = 2 * p
    BY PowerIsNat, PowerIsPositive, PowerDoubles
  <2>3. x % p = y % p /\ i \in 0 .. N - 1
    BY <1>2, <2>1
  <2>4. (x \div p) % 2 = (y \div p) % 2
    BY <2>3 DEF Bit
  <2> HIDE DEF p
  <2>5. x % (2 * p) = (x % p) + p * ((x \div p) % 2) /\ y % (2 * p) = (y % p) + p * ((y \div p) % 2)
    BY <2>2, NextBit
  <2> QED BY <2>2, <2>3, <2>4, <2>5
<1> HIDE DEF S
<1>3. N \in S
  BY <1>1, <1>2, Induction
<1> DEFINE p == 2 ^ N
<1>4. x % p = y % p /\ p \in Nat /\ p > 0
  BY <1>3, PowerIsNat, PowerIsPositive DEF S
<1> HIDE DEF p
<1>5. x < p /\ y < p
  BY DEF p
<1>6. x % p = x /\ y % p = y
  <2>1. p * 0 = 0 /\ x = 0 + x /\ y = 0 + y
    BY <1>4
  <2> QED BY <1>4, <1>5, <2>1, Quotient
<1> QED BY <1>4, <1>6

LEMMA BitsOfDouble ==
  ASSUME NEW x \in Nat, NEW i \in Nat
  PROVE  Bit(2 * x, 0) = 0 /\ Bit(2 * x, i + 1) = Bit(x, i)
<1> DEFINE p == 2 ^ i
<1>1. p \in Nat /\ p > 0 /\ 2 ^ (i + 1) = 2 * p /\ 2 ^ 0 = 1
  BY PowerIsNat, PowerIsPositive, PowerDoubles
<1>2. (2 * x) \div 1 = 2 * x /\ (2 * x) % 2 = 0
  OBVIOUS
<1>3. (2 * x) \div (2 * p) = x \div p
  <2> DEFINE q == x \div p
             r == x % p
             P == 2 * p
             y == 2 * x
  <2> HIDE DEF p
  <2>1. q \in Nat /\ r \in Nat /\ r < p /\ x = p * q + r
    BY <1>1, Division
  <2> HIDE DEF q, r
  <2>2. 2 * (p * q) = (2 * p) * q
    BY <1>1, <2>1
  <2>3. y = P * q + 2 * r /\ 2 * r < P /\ 2 * r \in Nat /\ y \in Nat /\ P \in Nat /\ P > 0
    BY <1>1, <2>1, <2>2
  <2> HIDE DEF P, y
  <2>4. y \div P = q
    <3> DEFINE s == 2 * r
    <3>1. s \in Nat /\ s < P /\ y = P * q + s
      BY <2>3
    <3> HIDE DEF s
    <3> QED BY <2>1, <2>3, <3>1, Quotient
  <2> QED BY <2>4 DEF P, y, q
<1> QED BY <1>1, <1>2, <1>3 DEF Bit

LEMMA HighBits ==
  ASSUME NEW i \in Nat, NEW x \in Nat
  PROVE  /\ x < 2 ^ i => Bit(x, i) = 0
         /\ 2 ^ i <= x /\ x < 2 ^ (i + 1) => Bit(x, i) = 1
         /\ x < 2 ^ (i + 1) /\ Bit(x, i) = 0 => x < 2 ^ i
<1> DEFINE p == 2 ^ i
<1>1. p \in Nat /\ p > 0 /\ 2 ^ (i + 1) = 2 * p
  BY PowerIsNat, PowerIsPositive, PowerDoubles
<1> HIDE DEF p
<1>2. ASSUME x < p PROVE (x \div p) % 2 = 0
  <2>1. p * 0 = 0 /\ x = 0 + x
    BY <1>1
  <2>2. x \div p = 0
    BY <1>1, <1>2, <2>1, Quotient
  <2> QED BY <2>2
<1>3. ASSUME p <= x, x < 2 * p PROVE (x \div p) % 2 = 1
  <2>1. p * 1 = p /\ x = p + (x - p) /\ x - p \in Nat /\ x - p < p
    BY <1>1, <1>3
  <2>2. x \div p = 1
    BY <1>1, <2>1, Quotient
  <2> QED BY <2>2
<1>4. ASSUME x < 2 * p, (x \div p) % 2 = 0 PROVE x < p
  <2>1. ASSUME p <= x PROVE FALSE
    BY <1>3, <1>4, <2>1
  <2> QED BY <1>1, <2>1
<1> QED BY <1>1, <1>2, <1>3, <1>4 DEF p, Bit

LEMMA BitOfZero == ASSUME NEW i \in Nat PROVE Bit(0, i) = 0
<1>1. 0 < 2 ^ i
  BY PowerIsNat, PowerIsPositive
<1> QED BY <1>1, HighBits

----------------------------------------------------------------------------
(* Exclusive or                                                            *)

\* Numbers of Bits + 1 bits.
Wide == 0 .. 2 ^ (Bits + 1) - 1

LEMMA Sizes ==
  /\ Bits \in Nat /\ Bits >= 1 /\ Bits - 1 \in Nat /\ 2 ^ Bits \in Nat /\ 2 ^ Bits >= 2
  /\ 2 ^ (Bits + 1) = 2 * 2 ^ Bits /\ 2 ^ Bits = 2 * 2 ^ (Bits - 1) /\ 2 ^ (Bits - 1) \in Nat
  /\ POLY \in Wide /\ POLY >= 2 ^ Bits /\ Field \subseteq Wide
  /\ Field \subseteq Nat /\ Wide \subseteq Nat /\ 0 \in Field /\ 1 \in Field
<1>1. Bits \in Nat /\ Bits >= 1 /\ Bits - 1 \in Nat /\ Bits - 1 + 1 = Bits
  BY FieldAssumption
<1> DEFINE q == 2 ^ Bits
           h == 2 ^ (Bits - 1)
<1>2. q \in Nat /\ h \in Nat /\ h >= 1 /\ 2 ^ (Bits + 1) = 2 * q
  BY <1>1, PowerIsNat, PowerIsPositive, PowerDoubles
<1>3. 2 ^ (Bits - 1 + 1) = 2 * h
  BY <1>1, PowerDoubles
<1>4. q = 2 * h
  BY <1>1, <1>3
<1>5. POLY \in q .. 2 * q - 1
  BY <1>2, FieldAssumption
<1>6. Wide = 0 .. 2 * q - 1 /\ Field = 0 .. q - 1
  BY <1>2 DEF Wide, Field
<1> HIDE DEF q, h
<1>7. POLY \in Nat /\ POLY >= q /\ POLY \in Wide /\ Field \subseteq Wide /\ q >= 2
      /\ Field \subseteq Nat /\ Wide \subseteq Nat /\ 0 \in Field /\ 1 \in Field
  BY <1>2, <1>4, <1>5, <1>6
<1> QED BY <1>1, <1>2, <1>4, <1>7 DEF q, h

\* Bit by bit, Xor adds without a carry.
LEMMA XorBits ==
  ASSUME NEW x \in Nat, NEW y \in Nat
  PROVE  /\ Xor(x, y) \in Wide
         /\ \A i \in 0 .. Bits : Bit(Xor(x, y), i) = (Bit(x, i) + Bit(y, i)) % 2
<1> DEFINE N == Bits + 1
           g == [i \in 0 .. Bits |-> (Bit(x, i) + Bit(y, i)) % 2]
           step == [p \in (1 .. N) \X Nat |-> p[2] + 2 ^ (p[1] - 1) * g[p[1] - 1]]
           eq(f) == f = [i \in 0 .. Bits + 1 |->
                           IF i = 0 THEN 0
                           ELSE f[i - 1] + 2 ^ (i - 1) * ((Bit(x, i - 1) + Bit(y, i - 1)) % 2)]
           f == CHOOSE h : eq(h)
<1>1. N \in Nat /\ Bits \in Nat /\ N - 1 = Bits
  BY Sizes
<1>2. \A i \in 0 .. Bits : g[i] \in {0, 1} /\ g[i] = (Bit(x, i) + Bit(y, i)) % 2
  <2>1. ASSUME NEW i \in 0 .. Bits PROVE (Bit(x, i) + Bit(y, i)) % 2 \in {0, 1}
    <3>1. i \in Nat
      BY <1>1
    <3>2. Bit(x, i) \in {0, 1} /\ Bit(y, i) \in {0, 1}
      BY <3>1, BitIsBit
    <3> QED BY <3>2
  <2> QED BY <2>1
<1> HIDE DEF g
<1>3. ASSUME NEW i \in 1 .. N PROVE i - 1 \in 0 .. Bits /\ 2 ^ (i - 1) * g[i - 1] \in Nat
  <2>1. i - 1 \in 0 .. Bits /\ i - 1 \in Nat
    BY <1>1
  <2>2. g[i - 1] \in Nat /\ 2 ^ (i - 1) \in Nat
    BY <1>2, <2>1, PowerIsNat
  <2> QED BY <2>1, <2>2
<1>4. \E h : eq(h)
  <2>1. \A i \in 1 .. N : \A v \in Nat : step[<<i, v>>] = v + 2 ^ (i - 1) * g[i - 1]
    OBVIOUS
  <2> HIDE DEF step
  <2>2. ASSUME NEW i \in 1 .. N, NEW v \in Nat PROVE step[<<i, v>>] \in Nat
    <3> DEFINE c == 2 ^ (i - 1) * g[i - 1]
    <3>1. c \in Nat /\ step[<<i, v>>] = v + c
      BY <1>3, <2>1
    <3> HIDE DEF c
    <3> QED BY <3>1
  <2>3. PICK h : h \in [0 .. N -> Nat] /\ h[0] = 0 /\ \A i \in 1 .. N : h[i] = step[<<i, h[i - 1]>>]
    <3>1. Steps(Nat, N, step)
      BY <2>2, ZenonT(40) DEF Steps
    <3>2. \E h : Takes(h, Nat, 0, N, step)
      BY <1>1, <3>1, Recursion
    <3> QED BY <3>2 DEF Takes
  <2>4. ASSUME NEW i \in 0 .. Bits + 1
        PROVE  h[i] = IF i = 0 THEN 0
                      ELSE h[i - 1] + 2 ^ (i - 1) * ((Bit(x, i - 1) + Bit(y, i - 1)) % 2)
    <3>1. CASE i = 0
      BY <2>3, <3>1
    <3>2. CASE i # 0
      <4>1. i \in 1 .. N /\ i - 1 \in 0 .. N /\ i - 1 \in 0 .. Bits
        BY <1>1, <3>2
      <4>2. h[i - 1] \in Nat /\ h[i] = step[<<i, h[i - 1]>>]
        BY <2>3, <4>1
      <4> QED BY <1>2, <2>1, <3>2, <4>1, <4>2
    <3> QED BY <3>1, <3>2
  <2>5. h = [i \in 0 .. Bits + 1 |-> h[i]]
    BY <2>3
  <2> QED BY <2>4, <2>5
<1>5. eq(f)
  BY <1>4
<1>6. Xor(x, y) = f[N]
  BY DEF Xor
<1> HIDE DEF f
<1>7. f[0] = 0 /\ \A i \in 1 .. N : f[i] = f[i - 1] + 2 ^ (i - 1) * g[i - 1]
  <2>1. f[0] = 0
    BY <1>1, <1>5
  <2>2. ASSUME NEW i \in 1 .. N PROVE f[i] = f[i - 1] + 2 ^ (i - 1) * g[i - 1]
    <3>1. i \in 0 .. Bits + 1 /\ i # 0 /\ i - 1 \in 0 .. Bits
      BY <1>1
    <3>2. f[i] = f[i - 1] + 2 ^ (i - 1) * ((Bit(x, i - 1) + Bit(y, i - 1)) % 2)
      BY <1>5, <3>1
    <3> QED BY <1>2, <3>1, <3>2
  <2> QED BY <2>1, <2>2
<1> HIDE DEF eq
<1>8. AddsBits(f, N, g)
  BY <1>1, <1>2, <1>7 DEF AddsBits
<1> HIDE DEF N
<1>9. f[N] \in Nat /\ f[N] < 2 ^ N /\ \A j \in 0 .. N - 1 : Bit(f[N], j) = g[j]
  BY <1>8, BitsMake
<1>10. f[N] \in Wide
  <2>1. 2 ^ N \in Nat
    BY <1>1, PowerIsNat
  <2>2. Wide = 0 .. 2 ^ N - 1
    BY DEF Wide, N
  <2> QED BY <1>9, <2>1, <2>2
<1> QED BY <1>1, <1>2, <1>6, <1>9, <1>10

\* Numbers with the same bits are the same.
LEMMA WideSame ==
  ASSUME NEW x \in Wide, NEW y \in Wide, \A i \in 0 .. Bits : Bit(x, i) = Bit(y, i)
  PROVE  x = y
<1> DEFINE N == Bits + 1
<1>1. N \in Nat /\ N - 1 = Bits /\ 2 ^ N \in Nat
  BY Sizes, PowerIsNat
<1>2. x \in Nat /\ y \in Nat /\ x < 2 ^ N /\ y < 2 ^ N
  BY <1>1 DEF Wide
<1>3. \A i \in 0 .. N - 1 : Bit(x, i) = Bit(y, i)
  BY <1>1
<1> HIDE DEF N
<1> QED BY <1>1, <1>2, <1>3, BitsSame

\* An element of the field is a number whose bit Bits is not set.
LEMMA FieldBit ==
  ASSUME NEW x \in Wide
  PROVE  x \in Field <=> Bit(x, Bits) = 0
<1> DEFINE q == 2 ^ Bits
<1>1. Bits \in Nat /\ x \in Nat /\ q \in Nat /\ x < 2 ^ (Bits + 1)
  BY Sizes DEF Wide
<1>2. Bit(x, Bits) = 0 <=> x < q
  BY <1>1, HighBits
<1>3. x \in Field <=> x < q
  <2>1. Field = 0 .. q - 1
    BY DEF Field
  <2> HIDE DEF q
  <2> QED BY <1>1, <2>1
<1> QED BY <1>2, <1>3

\* The laws of a group in which everything is its own inverse.
LEMMA XorLaws ==
  /\ \A x, y \in Wide : Xor(x, y) \in Wide /\ Xor(x, y) = Xor(y, x)
  /\ \A x, y, z \in Wide : Xor(Xor(x, y), z) = Xor(x, Xor(y, z))
  /\ \A x \in Wide : Xor(x, 0) = x /\ Xor(x, x) = 0
  /\ \A x, y \in Field : Xor(x, y) \in Field
<1>1. /\ Wide \subseteq Nat /\ Field \subseteq Wide /\ 0 \in Wide /\ Bits \in Nat
      /\ Bits \in 0 .. Bits
  BY Sizes
<1>2. \A x \in Wide : \A i \in 0 .. Bits : Bit(x, i) \in {0, 1}
  <2>1. \A i \in 0 .. Bits : i \in Nat
    BY <1>1
  <2> QED BY <1>1, <2>1, BitIsBit
<1>3. \A x, y \in Wide :
        /\ Xor(x, y) \in Wide
        /\ \A i \in 0 .. Bits : Bit(Xor(x, y), i) = (Bit(x, i) + Bit(y, i)) % 2
  BY <1>1, XorBits
<1>4. ASSUME NEW x \in Wide, NEW y \in Wide PROVE Xor(x, y) = Xor(y, x)
  <2>1. ASSUME NEW i \in 0 .. Bits PROVE Bit(Xor(x, y), i) = Bit(Xor(y, x), i)
    <3>1. Bit(x, i) \in {0, 1} /\ Bit(y, i) \in {0, 1}
      BY <1>2
    <3>2. (Bit(x, i) + Bit(y, i)) % 2 = (Bit(y, i) + Bit(x, i)) % 2
      BY <3>1
    <3> QED BY <1>3, <3>2
  <2> QED BY <1>3, <2>1, WideSame
<1>5. ASSUME NEW x \in Wide, NEW y \in Wide, NEW z \in Wide
      PROVE  Xor(Xor(x, y), z) = Xor(x, Xor(y, z))
  <2>1. ASSUME NEW i \in 0 .. Bits PROVE Bit(Xor(Xor(x, y), z), i) = Bit(Xor(x, Xor(y, z)), i)
    <3>1. Bit(x, i) \in {0, 1} /\ Bit(y, i) \in {0, 1} /\ Bit(z, i) \in {0, 1}
      BY <1>2
    <3>2. (((Bit(x, i) + Bit(y, i)) % 2) + Bit(z, i)) % 2
            = (Bit(x, i) + ((Bit(y, i) + Bit(z, i)) % 2)) % 2
      BY <3>1
    <3>3. Bit(Xor(Xor(x, y), z), i) = (((Bit(x, i) + Bit(y, i)) % 2) + Bit(z, i)) % 2
      BY <1>3
    <3>4. Bit(Xor(x, Xor(y, z)), i) = (Bit(x, i) + ((Bit(y, i) + Bit(z, i)) % 2)) % 2
      BY <1>3
    <3> QED BY <3>2, <3>3, <3>4
  <2>2. Xor(Xor(x, y), z) \in Wide /\ Xor(x, Xor(y, z)) \in Wide
    BY <1>3
  <2> QED BY <2>1, <2>2, WideSame
<1>6. ASSUME NEW x \in Wide PROVE Xor(x, 0) = x /\ Xor(x, x) = 0
  <2>1. ASSUME NEW i \in 0 .. Bits PROVE Bit(Xor(x, 0), i) = Bit(x, i) /\ Bit(Xor(x, x), i) = Bit(0, i)
    <3>1. Bit(x, i) \in {0, 1} /\ Bit(0, i) = 0
      BY <1>1, <1>2, BitOfZero
    <3>2. (Bit(x, i) + 0) % 2 = Bit(x, i) /\ (Bit(x, i) + Bit(x, i)) % 2 = 0
      BY <3>1
    <3> QED BY <1>1, <1>3, <3>1, <3>2
  <2>2. Xor(x, 0) \in Wide /\ Xor(x, x) \in Wide
    BY <1>1, <1>3
  <2> QED BY <1>1, <2>1, <2>2, WideSame
<1>7. ASSUME NEW x \in Field, NEW y \in Field PROVE Xor(x, y) \in Field
  <2>1. x \in Wide /\ y \in Wide
    BY <1>1
  <2>2. Bit(x, Bits) = 0 /\ Bit(y, Bits) = 0
    BY <2>1, FieldBit
  <2>3. Bit(Xor(x, y), Bits) = (0 + 0) % 2
    BY <1>1, <1>3, <2>1, <2>2
  <2>4. (0 + 0) % 2 = 0
    OBVIOUS
  <2> QED BY <1>3, <2>1, <2>3, <2>4, FieldBit
<1> QED BY <1>3, <1>4, <1>5, <1>6, <1>7

----------------------------------------------------------------------------
(* Products                                                                *)

LEMMA Rearrange ==
  ASSUME NEW a \in Wide, NEW b \in Wide, NEW c \in Wide, NEW d \in Wide
  PROVE  Xor(Xor(a, b), Xor(c, d)) = Xor(Xor(a, c), Xor(b, d))
<1>1. Xor(Xor(a, b), Xor(c, d)) = Xor(a, Xor(b, Xor(c, d)))
  BY XorLaws
<1>2. Xor(b, Xor(c, d)) = Xor(Xor(b, c), d)
  BY XorLaws
<1>3. Xor(b, c) = Xor(c, b)
  BY XorLaws
<1>4. Xor(Xor(c, b), d) = Xor(c, Xor(b, d))
  BY XorLaws
<1>5. Xor(a, Xor(c, Xor(b, d))) = Xor(Xor(a, c), Xor(b, d))
  BY XorLaws
<1> QED BY <1>1, <1>2, <1>3, <1>4, <1>5

\* Doubling stays in the field, because the polynomial has bit Bits, and is linear.
LEMMA DoubleLaws ==
  /\ \A x \in Field : Double(x) \in Field
  /\ \A x, y \in Field : Double(Xor(x, y)) = Xor(Double(x), Double(y))
  /\ Double(0) = 0
<1> DEFINE p(x) == POLY * Bit(x, Bits - 1)
<1>1. /\ Bits \in Nat /\ Bits - 1 \in Nat /\ (Bits - 1) + 1 = Bits /\ Bits \in 0 .. Bits
      /\ Bits - 1 \in 0 .. Bits
      /\ POLY \in Nat /\ POLY \in Wide /\ 0 \in Wide /\ Field \subseteq Wide
      /\ Wide \subseteq Nat /\ Field \subseteq Nat /\ 0 \in Field
  BY Sizes
<1>2. Bit(POLY, Bits) = 1
  <2>1. 2 ^ Bits <= POLY /\ POLY < 2 ^ (Bits + 1)
    BY <1>1, Sizes, FieldAssumption
  <2> QED BY <1>1, <2>1, HighBits
<1>3. ASSUME NEW x \in Field
      PROVE  /\ Bit(x, Bits - 1) \in {0, 1} /\ 2 * x \in Wide /\ 2 * x \in Nat /\ p(x) \in {0, POLY}
             /\ (Bit(x, Bits - 1) = 0 => p(x) = 0) /\ (Bit(x, Bits - 1) = 1 => p(x) = POLY)
  <2>1. Bit(x, Bits - 1) \in {0, 1}
    BY <1>1, BitIsBit
  <2>2. POLY * 0 = 0 /\ POLY * 1 = POLY
    BY <1>1
  <2>3. 2 * x \in Wide /\ 2 * x \in Nat
    <3> DEFINE q == 2 ^ Bits
    <3>1. q \in Nat /\ x \in 0 .. q - 1 /\ Wide = 0 .. 2 * q - 1
      BY Sizes DEF Field, Wide
    <3> HIDE DEF q
    <3> QED BY <3>1
  <2> QED BY <2>1, <2>2, <2>3
<1>4. \A x : Double(x) = Xor(2 * x, p(x))
  BY DEF Double
<1> HIDE DEF p
<1>5. ASSUME NEW x \in Field PROVE Double(x) \in Field
  <2>1. p(x) \in Wide
    BY <1>1, <1>3
  <2>2. Bit(2 * x, Bits) = Bit(x, Bits - 1)
    <3>1. Bit(2 * x, (Bits - 1) + 1) = Bit(x, Bits - 1)
      BY <1>1, BitsOfDouble
    <3> QED BY <1>1, <3>1
  <2>3. Bit(p(x), Bits) = Bit(x, Bits - 1)
    BY <1>1, <1>2, <1>3, BitOfZero
  <2>4. Xor(2 * x, p(x)) \in Wide
        /\ Bit(Xor(2 * x, p(x)), Bits) = (Bit(2 * x, Bits) + Bit(p(x), Bits)) % 2
    BY <1>1, <1>3, <2>1, XorBits
  <2>5. (Bit(x, Bits - 1) + Bit(x, Bits - 1)) % 2 = 0
    BY <1>3
  <2>6. Bit(Xor(2 * x, p(x)), Bits) = 0
    BY <2>2, <2>3, <2>4, <2>5
  <2> QED BY <1>4, <2>4, <2>6, FieldBit
<1>6. ASSUME NEW x \in Field, NEW y \in Field
      PROVE  Double(Xor(x, y)) = Xor(Double(x), Double(y))
  <2>1. Xor(x, y) \in Field /\ Xor(x, y) \in Nat /\ x \in Nat /\ y \in Nat
    BY <1>1, XorLaws
  <2>2. 2 * Xor(x, y) = Xor(2 * x, 2 * y)
    <3>1. 2 * Xor(x, y) \in Wide /\ Xor(2 * x, 2 * y) \in Wide
      BY <1>3, <2>1, XorLaws
    <3>2. ASSUME NEW i \in 0 .. Bits PROVE Bit(2 * Xor(x, y), i) = Bit(Xor(2 * x, 2 * y), i)
      <4>1. Bit(Xor(2 * x, 2 * y), i) = (Bit(2 * x, i) + Bit(2 * y, i)) % 2
        BY <1>3, XorBits
      <4>2. CASE i = 0
        <5>1. Bit(2 * x, 0) = 0 /\ Bit(2 * y, 0) = 0 /\ Bit(2 * Xor(x, y), 0) = 0
          BY <2>1, BitsOfDouble
        <5>2. (0 + 0) % 2 = 0
          OBVIOUS
        <5> QED BY <4>1, <4>2, <5>1, <5>2
      <4>3. CASE i # 0
        <5>1. i - 1 \in Nat /\ i - 1 \in 0 .. Bits /\ (i - 1) + 1 = i
          BY <1>1, <4>3
        <5>2. /\ Bit(2 * x, (i - 1) + 1) = Bit(x, i - 1) /\ Bit(2 * y, (i - 1) + 1) = Bit(y, i - 1)
              /\ Bit(2 * Xor(x, y), (i - 1) + 1) = Bit(Xor(x, y), i - 1)
          BY <2>1, <5>1, BitsOfDouble
        <5>3. Bit(Xor(x, y), i - 1) = (Bit(x, i - 1) + Bit(y, i - 1)) % 2
          BY <2>1, <5>1, XorBits
        <5> QED BY <4>1, <5>1, <5>2, <5>3
      <4> QED BY <4>2, <4>3
    <3> QED BY <3>1, <3>2, WideSame
  <2>3. p(Xor(x, y)) = Xor(p(x), p(y))
    <3>1. Bit(Xor(x, y), Bits - 1) = (Bit(x, Bits - 1) + Bit(y, Bits - 1)) % 2
      BY <1>1, <2>1, XorBits
    <3>2. (0 + 0) % 2 = 0 /\ (0 + 1) % 2 = 1 /\ (1 + 0) % 2 = 1 /\ (1 + 1) % 2 = 0
      OBVIOUS
    <3>3. /\ Xor(0, 0) = 0 /\ Xor(POLY, 0) = POLY /\ Xor(POLY, POLY) = 0
          /\ Xor(0, POLY) = Xor(POLY, 0)
      BY <1>1, XorLaws
    <3>4. CASE Bit(x, Bits - 1) = 0 /\ Bit(y, Bits - 1) = 0
      BY <1>3, <2>1, <3>1, <3>2, <3>3, <3>4
    <3>5. CASE Bit(x, Bits - 1) = 0 /\ Bit(y, Bits - 1) = 1
      BY <1>3, <2>1, <3>1, <3>2, <3>3, <3>5
    <3>6. CASE Bit(x, Bits - 1) = 1 /\ Bit(y, Bits - 1) = 0
      BY <1>3, <2>1, <3>1, <3>2, <3>3, <3>6
    <3>7. CASE Bit(x, Bits - 1) = 1 /\ Bit(y, Bits - 1) = 1
      BY <1>3, <2>1, <3>1, <3>2, <3>3, <3>7
    <3> QED BY <1>3, <3>4, <3>5, <3>6, <3>7
  <2>4. Xor(Xor(2 * x, 2 * y), Xor(p(x), p(y))) = Xor(Xor(2 * x, p(x)), Xor(2 * y, p(y)))
    <3>1. 2 * x \in Wide /\ 2 * y \in Wide /\ p(x) \in Wide /\ p(y) \in Wide
      BY <1>1, <1>3
    <3> QED BY <3>1, Rearrange
  <2> QED BY <1>4, <2>2, <2>3, <2>4
<1>7. Double(0) = 0
  <2>1. Bit(0, Bits - 1) = 0
    BY <1>1, BitOfZero
  <2>2. p(0) = 0
    BY <1>1, <1>3, <2>1
  <2>3. 2 * 0 = 0 /\ Xor(0, 0) = 0
    BY <1>1, XorLaws
  <2> QED BY <1>4, <2>2, <2>3
<1> QED BY <1>5, <1>6, <1>7

\* The elements that gf_mul adds up, and its partial sums.
Shifts(a, x) ==
  a \in [0 .. Bits -> Field] /\ a[0] = x /\ \A i \in 1 .. Bits : a[i] = Double(a[i - 1])
Rounds(acc, a, y) ==
  /\ acc \in [0 .. Bits -> Field] /\ acc[0] = 0
  /\ \A i \in 1 .. Bits : acc[i] = Xor(acc[i - 1], a[i - 1] * Bit(y, i - 1))

LEMMA Scaled ==
  ASSUME NEW x \in Field, NEW y \in Field, NEW i \in Nat
  PROVE  /\ x * Bit(y, i) \in Field
         /\ \/ Bit(y, i) = 0 /\ x * Bit(y, i) = 0
            \/ Bit(y, i) = 1 /\ x * Bit(y, i) = x
<1>1. x \in Nat /\ y \in Nat /\ 0 \in Field
  BY Sizes
<1>2. Bit(y, i) \in {0, 1}
  BY <1>1, BitIsBit
<1>3. x * 0 = 0 /\ x * 1 = x
  BY <1>1
<1> QED BY <1>1, <1>2, <1>3

\* What gf_mul computes: a after each shift, and acc after each round.
LEMMA MulIs ==
  ASSUME NEW x \in Field, NEW y \in Field
  PROVE  \E a, acc : Shifts(a, x) /\ Rounds(acc, a, y) /\ gf_mul(x, y) = acc[Bits]
<1> DEFINE eqa(f) == f = [i \in 0 .. Bits |-> IF i = 0 THEN x ELSE Double(f[i - 1])]
           a == CHOOSE f : eqa(f)
           eqc(f) == f = [i \in 0 .. Bits |->
                            IF i = 0 THEN 0 ELSE Xor(f[i - 1], a[i - 1] * Bit(y, i - 1))]
           acc == CHOOSE f : eqc(f)
<1>1. gf_mul(x, y) = acc[Bits] % 2 ^ Bits
  BY DEF gf_mul
<1>2. Bits \in Nat /\ 0 \in Field
  BY Sizes
<1>3. Shifts(a, x)
  <2> DEFINE step == [q \in (1 .. Bits) \X Field |-> Double(q[2])]
  <2>1. \A i \in 1 .. Bits : \A v \in Field : step[<<i, v>>] = Double(v)
    OBVIOUS
  <2> HIDE DEF step
  <2>2. Steps(Field, Bits, step)
    BY <2>1, DoubleLaws, ZenonT(40) DEF Steps
  <2>3. PICK f : Takes(f, Field, x, Bits, step)
    BY <1>2, <2>2, Recursion
  <2>4. Shifts(f, x)
    <3>1. ASSUME NEW i \in 1 .. Bits PROVE f[i] = Double(f[i - 1])
      <4>1. i - 1 \in 0 .. Bits
        BY <1>2
      <4>2. f[i - 1] \in Field /\ f[i] = step[<<i, f[i - 1]>>]
        BY <2>3, <4>1 DEF Takes
      <4> QED BY <2>1, <4>2
    <3> QED BY <2>3, <3>1 DEF Shifts, Takes
  <2>5. eqa(f)
    <3>1. ASSUME NEW i \in 0 .. Bits PROVE f[i] = IF i = 0 THEN x ELSE Double(f[i - 1])
      <4>1. i # 0 => i \in 1 .. Bits
        BY <1>2
      <4> QED BY <2>4, <4>1 DEF Shifts
    <3>2. f = [i \in 0 .. Bits |-> f[i]]
      BY <2>4 DEF Shifts
    <3> QED BY <3>1, <3>2
  <2>6. eqa(a)
    BY <2>5
  <2> HIDE DEF a
  <2>7. a[0] = x /\ \A i \in 1 .. Bits : a[i] = Double(a[i - 1])
    BY <1>2, <2>6
  <2>8. \A i \in 0 .. Bits : a[i] = f[i]
    <3> DEFINE S == {i \in Nat : i <= Bits => a[i] = f[i]}
    <3>1. 0 \in S
      BY <2>4, <2>7 DEF Shifts
    <3>2. ASSUME NEW i \in Nat, i \in S PROVE i + 1 \in S
      <4>1. SUFFICES ASSUME i + 1 <= Bits PROVE a[i + 1] = f[i + 1]
        OBVIOUS
      <4>2. i + 1 \in 1 .. Bits /\ (i + 1) - 1 = i /\ a[i] = f[i]
        BY <1>2, <3>2, <4>1
      <4>3. a[i + 1] = Double(a[i]) /\ f[i + 1] = Double(f[i])
        BY <2>4, <2>7, <4>2 DEF Shifts
      <4> QED BY <4>2, <4>3
    <3> HIDE DEF S
    <3>3. \A i \in Nat : i \in S
      BY <3>1, <3>2, Induction
    <3> QED BY <3>3 DEF S
  <2>9. a = [i \in 0 .. Bits |-> a[i]]
    BY <2>6
  <2>10. a \in [0 .. Bits -> Field]
    BY <2>4, <2>8, <2>9 DEF Shifts
  <2> QED BY <2>7, <2>10 DEF Shifts
<1> HIDE DEF a
<1>4. Rounds(acc, a, y)
  <2> DEFINE step == [q \in (1 .. Bits) \X Field |-> Xor(q[2], a[q[1] - 1] * Bit(y, q[1] - 1))]
  <2>1. \A i \in 1 .. Bits : \A v \in Field : step[<<i, v>>] = Xor(v, a[i - 1] * Bit(y, i - 1))
    OBVIOUS
  <2> HIDE DEF step
  <2>2. Steps(Field, Bits, step)
    <3>1. ASSUME NEW i \in 1 .. Bits, NEW v \in Field PROVE step[<<i, v>>] \in Field
      <4>1. i - 1 \in Nat /\ i - 1 \in 0 .. Bits /\ a[i - 1] \in Field
        BY <1>2, <1>3 DEF Shifts
      <4>2. a[i - 1] * Bit(y, i - 1) \in Field
        BY <4>1, Scaled
      <4>3. Xor(v, a[i - 1] * Bit(y, i - 1)) \in Field
        BY <4>2, XorLaws
      <4> QED BY <2>1, <4>3
    <3> QED BY <3>1, ZenonT(40) DEF Steps
  <2>3. PICK f : Takes(f, Field, 0, Bits, step)
    BY <1>2, <2>2, Recursion
  <2>4. Rounds(f, a, y)
    <3>1. ASSUME NEW i \in 1 .. Bits PROVE f[i] = Xor(f[i - 1], a[i - 1] * Bit(y, i - 1))
      <4>1. i - 1 \in 0 .. Bits
        BY <1>2
      <4>2. f[i - 1] \in Field /\ f[i] = step[<<i, f[i - 1]>>]
        BY <2>3, <4>1 DEF Takes
      <4> QED BY <2>1, <4>2
    <3> QED BY <2>3, <3>1 DEF Rounds, Takes
  <2>5. eqc(f)
    <3>1. ASSUME NEW i \in 0 .. Bits
          PROVE  f[i] = IF i = 0 THEN 0 ELSE Xor(f[i - 1], a[i - 1] * Bit(y, i - 1))
      <4>1. i # 0 => i \in 1 .. Bits
        BY <1>2
      <4> QED BY <2>4, <4>1 DEF Rounds
    <3>2. f = [i \in 0 .. Bits |-> f[i]]
      BY <2>4 DEF Rounds
    <3> QED BY <3>1, <3>2
  <2>6. eqc(acc)
    BY <2>5
  <2> HIDE DEF acc
  <2>7. acc[0] = 0 /\ \A i \in 1 .. Bits : acc[i] = Xor(acc[i - 1], a[i - 1] * Bit(y, i - 1))
    BY <1>2, <2>6
  <2>8. \A i \in 0 .. Bits : acc[i] = f[i]
    <3> DEFINE S == {i \in Nat : i <= Bits => acc[i] = f[i]}
    <3>1. 0 \in S
      BY <2>4, <2>7 DEF Rounds
    <3>2. ASSUME NEW i \in Nat, i \in S PROVE i + 1 \in S
      <4>1. SUFFICES ASSUME i + 1 <= Bits PROVE acc[i + 1] = f[i + 1]
        OBVIOUS
      <4>2. i + 1 \in 1 .. Bits /\ (i + 1) - 1 = i /\ acc[i] = f[i]
        BY <1>2, <3>2, <4>1
      <4>3. /\ acc[i + 1] = Xor(acc[i], a[i] * Bit(y, i))
            /\ f[i + 1] = Xor(f[i], a[i] * Bit(y, i))
        BY <2>4, <2>7, <4>2 DEF Rounds
      <4> QED BY <4>2, <4>3
    <3> HIDE DEF S
    <3>3. \A i \in Nat : i \in S
      BY <3>1, <3>2, Induction
    <3> QED BY <3>3 DEF S
  <2>9. acc = [i \in 0 .. Bits |-> acc[i]]
    BY <2>6
  <2>10. acc \in [0 .. Bits -> Field]
    BY <2>4, <2>8, <2>9 DEF Rounds
  <2> QED BY <2>7, <2>10 DEF Rounds
<1> HIDE DEF acc
<1>5. acc[Bits] % 2 ^ Bits = acc[Bits]
  <2> DEFINE q == 2 ^ Bits
             v == acc[Bits]
  <2>1. q \in Nat /\ q > 0 /\ v \in 0 .. q - 1
    <3>1. Bits \in 0 .. Bits
      BY <1>2
    <3> QED BY <1>4, <3>1, PowerIsNat, PowerIsPositive, Sizes DEF Rounds, Field
  <2> HIDE DEF q, v
  <2>2. q * 0 = 0 /\ v = 0 + v /\ v \in Nat /\ v < q
    BY <2>1
  <2>3. v % q = v
    BY <2>1, <2>2, Quotient
  <2> QED BY <2>3 DEF q, v
<1> QED BY <1>1, <1>3, <1>4, <1>5

----------------------------------------------------------------------------
(* The field                                                               *)

\* Induction up to N.
LEMMA InductionUpTo ==
  ASSUME NEW N \in Nat, NEW S, 0 \in S, \A i \in 1 .. N : i - 1 \in S => i \in S
  PROVE  \A i \in 0 .. N : i \in S
<1> DEFINE T == {i \in Nat : i <= N => i \in S}
<1>1. 0 \in T
  OBVIOUS
<1>2. ASSUME NEW i \in Nat, i \in T PROVE i + 1 \in T
  <2>1. SUFFICES ASSUME i + 1 <= N PROVE i + 1 \in S
    OBVIOUS
  <2>2. i + 1 \in 1 .. N /\ (i + 1) - 1 = i /\ i \in S
    BY <1>2, <2>1
  <2> QED BY <2>2
<1> HIDE DEF T
<1>3. \A i \in Nat : i \in T
  BY <1>1, <1>2, Induction
<1> QED BY <1>3 DEF T

\* Exclusive or keeps the sums of the field within Bits bits.
LEMMA FieldXor ==
  /\ \A x, y \in Field : Xor(x, y) \in Field /\ Xor(x, y) = Xor(y, x)
  /\ \A x, y, z \in Field : Xor(Xor(x, y), z) = Xor(x, Xor(y, z))
  /\ \A x \in Field : Xor(x, 0) = x /\ Xor(0, x) = x /\ Xor(x, x) = 0
  /\ 0 \in Field /\ 1 \in Field
<1>1. Field \subseteq Wide /\ 0 \in Field /\ 1 \in Field
  BY Sizes
<1>2. \A x, y \in Field : Xor(x, y) \in Field /\ Xor(x, y) = Xor(y, x)
  BY <1>1, XorLaws
<1>3. \A x, y, z \in Field : Xor(Xor(x, y), z) = Xor(x, Xor(y, z))
  BY <1>1, XorLaws
<1>4. \A x \in Field : Xor(x, 0) = x /\ Xor(x, x) = 0
  BY <1>1, XorLaws
<1> QED BY <1>1, <1>2, <1>3, <1>4

LEMMA MulIn == ASSUME NEW x \in Field, NEW y \in Field PROVE gf_mul(x, y) \in Field
<1>1. PICK a, acc : Shifts(a, x) /\ Rounds(acc, a, y) /\ gf_mul(x, y) = acc[Bits]
  BY MulIs
<1>2. Bits \in 0 .. Bits
  BY Sizes
<1> QED BY <1>1, <1>2 DEF Rounds

\* A round of gf_mul, for a bit that is known.
LEMMA Round ==
  ASSUME NEW x \in Field, NEW y \in Field, NEW a, NEW acc, Shifts(a, x), Rounds(acc, a, y),
         NEW i \in 1 .. Bits
  PROVE  /\ i - 1 \in 0 .. Bits /\ i - 1 \in Nat /\ a[i - 1] \in Field /\ acc[i - 1] \in Field
         /\ a[i] = Double(a[i - 1])
         /\ Bit(y, i - 1) = 0 => acc[i] = acc[i - 1]
         /\ Bit(y, i - 1) # 0 => acc[i] = Xor(acc[i - 1], a[i - 1])
<1>1. i - 1 \in 0 .. Bits /\ i - 1 \in Nat
  BY Sizes
<1>2. a[i - 1] \in Field /\ acc[i - 1] \in Field /\ a[i] = Double(a[i - 1])
      /\ acc[i] = Xor(acc[i - 1], a[i - 1] * Bit(y, i - 1))
  BY <1>1 DEF Shifts, Rounds
<1>3. \/ Bit(y, i - 1) = 0 /\ a[i - 1] * Bit(y, i - 1) = 0
      \/ Bit(y, i - 1) = 1 /\ a[i - 1] * Bit(y, i - 1) = a[i - 1]
  BY <1>1, <1>2, Scaled
<1> QED BY <1>1, <1>2, <1>3, FieldXor

\* A product distributes over a sum on the left: every round adds.
LEMMA MulAdds ==
  ASSUME NEW x \in Field, NEW y \in Field, NEW z \in Field
  PROVE  gf_mul(Xor(x, y), z) = Xor(gf_mul(x, z), gf_mul(y, z))
<1>1. PICK a, acc : Shifts(a, x) /\ Rounds(acc, a, z) /\ gf_mul(x, z) = acc[Bits]
  BY MulIs
<1>2. PICK b, bcc : Shifts(b, y) /\ Rounds(bcc, b, z) /\ gf_mul(y, z) = bcc[Bits]
  BY MulIs
<1>3. Xor(x, y) \in Field
  BY FieldXor
<1>4. PICK c, ccc : Shifts(c, Xor(x, y)) /\ Rounds(ccc, c, z) /\ gf_mul(Xor(x, y), z) = ccc[Bits]
  BY <1>3, MulIs
<1> DEFINE S == {i \in Nat : c[i] = Xor(a[i], b[i]) /\ ccc[i] = Xor(acc[i], bcc[i])}
<1>5. 0 \in S
  BY <1>1, <1>2, <1>4, FieldXor DEF Shifts, Rounds
<1>6. ASSUME NEW i \in 1 .. Bits, i - 1 \in S PROVE i \in S
  <2>1. /\ a[i - 1] \in Field /\ acc[i - 1] \in Field /\ a[i] = Double(a[i - 1])
        /\ Bit(z, i - 1) = 0 => acc[i] = acc[i - 1]
        /\ Bit(z, i - 1) # 0 => acc[i] = Xor(acc[i - 1], a[i - 1])
    BY <1>1, Round
  <2>2. /\ b[i - 1] \in Field /\ bcc[i - 1] \in Field /\ b[i] = Double(b[i - 1])
        /\ Bit(z, i - 1) = 0 => bcc[i] = bcc[i - 1]
        /\ Bit(z, i - 1) # 0 => bcc[i] = Xor(bcc[i - 1], b[i - 1])
    BY <1>2, Round
  <2>3. /\ c[i] = Double(c[i - 1])
        /\ Bit(z, i - 1) = 0 => ccc[i] = ccc[i - 1]
        /\ Bit(z, i - 1) # 0 => ccc[i] = Xor(ccc[i - 1], c[i - 1])
    BY <1>3, <1>4, Round
  <2>4. c[i - 1] = Xor(a[i - 1], b[i - 1]) /\ ccc[i - 1] = Xor(acc[i - 1], bcc[i - 1])
    BY <1>6
  <2>5. c[i] = Xor(a[i], b[i])
    BY <2>1, <2>2, <2>3, <2>4, DoubleLaws
  <2>6. ccc[i] = Xor(acc[i], bcc[i])
    <3>1. Xor(Xor(acc[i - 1], bcc[i - 1]), Xor(a[i - 1], b[i - 1]))
            = Xor(Xor(acc[i - 1], a[i - 1]), Xor(bcc[i - 1], b[i - 1]))
      <4>1. acc[i - 1] \in Wide /\ bcc[i - 1] \in Wide /\ a[i - 1] \in Wide /\ b[i - 1] \in Wide
        BY <2>1, <2>2, Sizes
      <4> QED BY <4>1, Rearrange
    <3> QED BY <2>1, <2>2, <2>3, <2>4, <3>1
  <2> QED BY <2>5, <2>6
<1> HIDE DEF S
<1>7. Bits \in 0 .. Bits /\ Bits \in Nat
  BY Sizes
<1>8. Bits \in S
  BY <1>5, <1>6, <1>7, InductionUpTo
<1> QED BY <1>1, <1>2, <1>4, <1>8 DEF S

\* Doubling the left operand doubles the product.
LEMMA MulDoubles ==
  ASSUME NEW x \in Field, NEW z \in Field
  PROVE  gf_mul(Double(x), z) = Double(gf_mul(x, z))
<1>1. PICK a, acc : Shifts(a, x) /\ Rounds(acc, a, z) /\ gf_mul(x, z) = acc[Bits]
  BY MulIs
<1>2. Double(x) \in Field
  BY DoubleLaws
<1>3. PICK b, bcc : Shifts(b, Double(x)) /\ Rounds(bcc, b, z) /\ gf_mul(Double(x), z) = bcc[Bits]
  BY <1>2, MulIs
<1> DEFINE S == {i \in Nat : b[i] = Double(a[i]) /\ bcc[i] = Double(acc[i])}
<1>4. 0 \in S
  BY <1>1, <1>3, DoubleLaws DEF Shifts, Rounds
<1>5. ASSUME NEW i \in 1 .. Bits, i - 1 \in S PROVE i \in S
  <2>1. /\ a[i - 1] \in Field /\ acc[i - 1] \in Field /\ a[i] = Double(a[i - 1])
        /\ Bit(z, i - 1) = 0 => acc[i] = acc[i - 1]
        /\ Bit(z, i - 1) # 0 => acc[i] = Xor(acc[i - 1], a[i - 1])
    <3>1. i - 1 \in 0 .. Bits /\ i - 1 \in Nat
      BY Sizes
    <3>2. /\ a[i - 1] \in Field /\ acc[i - 1] \in Field /\ a[i] = Double(a[i - 1])
          /\ acc[i] = Xor(acc[i - 1], a[i - 1] * Bit(z, i - 1))
      BY <1>1, <3>1 DEF Shifts, Rounds
    <3>3. \/ Bit(z, i - 1) = 0 /\ a[i - 1] * Bit(z, i - 1) = 0
          \/ Bit(z, i - 1) = 1 /\ a[i - 1] * Bit(z, i - 1) = a[i - 1]
      BY <3>1, <3>2, Scaled
    <3>4. Bit(z, i - 1) = 0 => acc[i] = acc[i - 1]
      BY <3>2, <3>3, FieldXor
    <3> QED BY <3>2, <3>3, <3>4
  <2>2. /\ b[i] = Double(b[i - 1])
        /\ Bit(z, i - 1) = 0 => bcc[i] = bcc[i - 1]
        /\ Bit(z, i - 1) # 0 => bcc[i] = Xor(bcc[i - 1], b[i - 1])
    BY <1>2, <1>3, Round
  <2>3. b[i - 1] = Double(a[i - 1]) /\ bcc[i - 1] = Double(acc[i - 1]) /\ i \in Nat
    BY <1>5
  <2>4. Xor(Double(acc[i - 1]), Double(a[i - 1])) = Double(Xor(acc[i - 1], a[i - 1]))
    BY <2>1, DoubleLaws
  <2> QED BY <2>1, <2>2, <2>3, <2>4
<1> HIDE DEF S
<1>6. Bits \in 0 .. Bits /\ Bits \in Nat
  BY Sizes
<1>7. Bits \in S
  BY <1>4, <1>5, <1>6, InductionUpTo
<1> QED BY <1>1, <1>3, <1>7 DEF S

LEMMA MulZero == ASSUME NEW x \in Field PROVE gf_mul(x, 0) = 0 /\ gf_mul(0, x) = 0
<1>1. 0 \in Field
  BY FieldXor
<1>2. PICK a, acc : Shifts(a, x) /\ Rounds(acc, a, 0) /\ gf_mul(x, 0) = acc[Bits]
  BY <1>1, MulIs
<1> DEFINE S == {i \in Nat : acc[i] = 0}
<1>3. 0 \in S
  BY <1>2 DEF Rounds
<1>4. ASSUME NEW i \in 1 .. Bits, i - 1 \in S PROVE i \in S
  <2>1. i - 1 \in Nat /\ (Bit(0, i - 1) = 0 => acc[i] = acc[i - 1])
    BY <1>1, <1>2, Round
  <2>2. acc[i - 1] = 0
    BY <1>4
  <2> QED BY <2>1, <2>2, BitOfZero
<1> HIDE DEF S
<1>5. Bits \in 0 .. Bits /\ Bits \in Nat
  BY Sizes
<1>6. Bits \in S
  BY <1>3, <1>4, <1>5, InductionUpTo
<1>7. gf_mul(0, x) = 0
  <2>1. Xor(0, 0) = 0 /\ gf_mul(0, x) \in Field
    BY <1>1, FieldXor, MulIn
  <2>2. gf_mul(Xor(0, 0), x) = Xor(gf_mul(0, x), gf_mul(0, x))
    BY <1>1, MulAdds
  <2> QED BY <2>1, <2>2, FieldXor
<1> QED BY <1>2, <1>6, <1>7 DEF S

LEMMA BitOfPower ==
  ASSUME NEW k \in Nat, NEW j \in Nat
  PROVE  Bit(2 ^ k, j) = IF j = k THEN 1 ELSE 0
<1> DEFINE p == 2 ^ k
<1>1. p \in Nat /\ p >= 1 /\ 2 ^ (k + 1) = 2 * p
  BY PowerIsNat, PowerIsPositive, PowerDoubles
<1>2. CASE j = k
  <2>1. p <= p /\ p < 2 ^ (k + 1)
    <3> HIDE DEF p
    <3> QED BY <1>1
  <2> QED BY <1>1, <1>2, <2>1, HighBits
<1>3. CASE j < k
  <2>1. Bit(0 + 2 ^ k * 1, j) = Bit(0, j)
    <3>1. 0 < 2 ^ k /\ j \in 0 .. k - 1
      BY <1>1, <1>3
    <3> QED BY <3>1, BitOfSum
  <2>2. 0 + 2 ^ k * 1 = p
    <3>1. 0 + p * 1 = p
      <4> HIDE DEF p
      <4> QED BY <1>1
    <3> QED BY <3>1
  <2> QED BY <1>3, <2>1, <2>2, BitOfZero
<1>4. CASE j > k
  <2>1. 2 ^ (k + 1) <= 2 ^ j
    <3>1. j - (k + 1) \in Nat /\ (k + 1) + (j - (k + 1)) = j /\ k + 1 \in Nat
      BY <1>4
    <3>2. 2 ^ (k + 1) <= 2 ^ ((k + 1) + (j - (k + 1)))
      BY <3>1, PowersGrow
    <3> QED BY <3>1, <3>2
  <2>2. p < 2 ^ j
    <3> DEFINE q == 2 ^ j
    <3>1. q \in Nat /\ 2 * p <= q
      BY <1>1, <2>1, PowerIsNat
    <3> HIDE DEF p, q
    <3>2. p < q
      BY <1>1, <3>1
    <3> QED BY <3>2 DEF q
  <2> QED BY <1>1, <1>4, <2>2, HighBits
<1> QED BY <1>2, <1>3, <1>4

\* One is a unit: only the first round adds.
LEMMA MulOne == ASSUME NEW y \in Field PROVE gf_mul(1, y) = y
<1>1. 1 \in Field /\ y \in Nat /\ Field \subseteq Wide /\ Bits \in Nat
  BY Sizes
<1>2. PICK a, acc : Shifts(a, 1) /\ Rounds(acc, a, y) /\ gf_mul(1, y) = acc[Bits]
  BY <1>1, MulIs
<1> DEFINE Made(i) == /\ i < Bits => a[i] = 2 ^ i
                      /\ \A j \in 0 .. Bits : Bit(acc[i], j) = IF j < i THEN Bit(y, j) ELSE 0
           S == {i \in Nat : Made(i)}
<1>3. 0 \in S
  <2>1. a[0] = 1 /\ acc[0] = 0 /\ 2 ^ 0 = 1
    BY <1>2 DEF Shifts, Rounds
  <2>2. \A j \in 0 .. Bits : Bit(0, j) = 0
    BY <1>1, BitOfZero
  <2> QED BY <2>1, <2>2
<1>4. ASSUME NEW i \in 1 .. Bits, i - 1 \in S PROVE i \in S
  <2>1. /\ i - 1 \in 0 .. Bits /\ i - 1 \in Nat /\ a[i - 1] \in Field /\ acc[i - 1] \in Field
        /\ a[i] = Double(a[i - 1])
        /\ Bit(y, i - 1) = 0 => acc[i] = acc[i - 1]
        /\ Bit(y, i - 1) # 0 => acc[i] = Xor(acc[i - 1], a[i - 1])
    BY <1>1, <1>2, Round
  <2>2. Made(i - 1)
    BY <1>4
  <2>3. a[i - 1] = 2 ^ (i - 1)
    BY <1>1, <2>1, <2>2
  <2>4. i < Bits => a[i] = 2 ^ i
    <3>1. SUFFICES ASSUME i < Bits PROVE a[i] = 2 ^ i
      OBVIOUS
    <3> DEFINE p == 2 ^ (i - 1)
    <3>2. 2 ^ i = 2 * p /\ p \in Nat
      <4>1. (i - 1) + 1 = i
        BY <2>1
      <4> QED BY <2>1, <4>1, PowerDoubles, PowerIsNat
    <3>3. Bit(p, Bits - 1) = 0
      <4>1. Bits - 1 \in Nat /\ Bits - 1 # i - 1
        BY <1>1, <3>1
      <4> QED BY <2>1, <4>1, BitOfPower
    <3>4. POLY * 0 = 0
      BY Sizes
    <3>5. Double(p) = Xor(2 * p, 0)
      BY <3>3, <3>4 DEF Double
    <3>6. 2 * p \in Wide
      <4> DEFINE q == 2 ^ Bits
      <4>1. p \in 0 .. q - 1 /\ q \in Nat /\ Wide = 0 .. 2 * q - 1
        BY <2>1, <2>3, Sizes DEF Field, Wide
      <4> HIDE DEF p, q
      <4> QED BY <4>1
    <3>7. Xor(2 * p, 0) = 2 * p
      BY <3>6, XorLaws
    <3> QED BY <2>1, <2>3, <3>2, <3>5, <3>7
  <2>5. ASSUME NEW j \in 0 .. Bits PROVE Bit(acc[i], j) = IF j < i THEN Bit(y, j) ELSE 0
    <3>1. j \in Nat /\ Bit(y, j) \in {0, 1}
      BY <1>1, BitIsBit
    <3>2. Bit(acc[i - 1], j) = IF j < i - 1 THEN Bit(y, j) ELSE 0
      BY <2>2
    <3>3. CASE Bit(y, i - 1) = 0
      <4>1. j < i <=> j < i - 1 \/ j = i - 1
        BY <3>1
      <4> QED BY <2>1, <3>1, <3>2, <3>3, <4>1
    <3>4. CASE Bit(y, i - 1) # 0
      <4>1. Bit(acc[i], j) = (Bit(acc[i - 1], j) + Bit(2 ^ (i - 1), j)) % 2
        <5>1. acc[i - 1] \in Nat /\ a[i - 1] \in Nat
          BY <2>1, Sizes
        <5>2. Bit(Xor(acc[i - 1], a[i - 1]), j) = (Bit(acc[i - 1], j) + Bit(a[i - 1], j)) % 2
          BY <5>1, XorBits
        <5> QED BY <2>1, <2>3, <3>4, <5>2
      <4>2. Bit(2 ^ (i - 1), j) = IF j = i - 1 THEN 1 ELSE 0
        BY <2>1, <3>1, BitOfPower
      <4>3. CASE j = i - 1
        <5>1. Bit(acc[i - 1], j) = 0 /\ Bit(y, j) = 1 /\ j < i
          BY <2>1, <3>1, <3>2, <3>4, <4>3
        <5>2. (0 + 1) % 2 = 1
          OBVIOUS
        <5>3. Bit(acc[i], j) = (0 + 1) % 2
          BY <4>1, <4>2, <4>3, <5>1
        <5> QED BY <5>1, <5>2, <5>3
      <4>4. CASE j # i - 1
        <5>1. (0 + 0) % 2 = 0 /\ (1 + 0) % 2 = 1
          OBVIOUS
        <5>2. j < i <=> j < i - 1
          BY <2>1, <3>1, <4>4
        <5>3. Bit(2 ^ (i - 1), j) = 0
          BY <4>2, <4>4
        <5>4. CASE j < i - 1
          <6>1. Bit(acc[i - 1], j) = Bit(y, j)
            BY <3>2, <5>4
          <6>2. Bit(y, j) = 0 \/ Bit(y, j) = 1
            BY <3>1
          <6>3. Bit(acc[i], j) = Bit(y, j)
            BY <4>1, <5>1, <5>3, <6>1, <6>2
          <6> QED BY <5>2, <5>4, <6>3
        <5>5. CASE ~(j < i - 1)
          <6>1. Bit(acc[i - 1], j) = 0
            BY <3>2, <5>5
          <6>2. Bit(acc[i], j) = 0
            BY <4>1, <5>1, <5>3, <6>1
          <6> QED BY <5>2, <5>5, <6>2
        <5> QED BY <5>4, <5>5
      <4> QED BY <4>3, <4>4
    <3> QED BY <3>3, <3>4
  <2> QED BY <2>4, <2>5
<1> HIDE DEF S
<1>5. Bits \in 0 .. Bits
  BY <1>1
<1>6. Bits \in S
  BY <1>1, <1>3, <1>4, <1>5, InductionUpTo
<1>7. Made(Bits)
  BY <1>6 DEF S
<1>8. acc[Bits] \in Field
  BY <1>2, <1>5 DEF Rounds
<1>9. ASSUME NEW j \in 0 .. Bits PROVE Bit(acc[Bits], j) = Bit(y, j)
  <2>1. CASE j < Bits
    BY <1>7, <2>1
  <2>2. CASE j = Bits
    BY <1>1, <1>8, <2>2, FieldBit
  <2> QED BY <1>1, <2>1, <2>2
<1>10. acc[Bits] = y
  BY <1>1, <1>8, <1>9, WideSame
<1> QED BY <1>2, <1>10

\* The second operands of two products may be exchanged: with the unit, this makes the
\* product commutative and associative.
LEMMA MulShuffles ==
  ASSUME NEW x \in Field, NEW y \in Field, NEW z \in Field
  PROVE  gf_mul(gf_mul(x, y), z) = gf_mul(gf_mul(x, z), y)
<1>1. PICK a, acc : Shifts(a, x) /\ Rounds(acc, a, y) /\ gf_mul(x, y) = acc[Bits]
  BY MulIs
<1>2. gf_mul(x, z) \in Field
  BY MulIn
<1>3. PICK b, bcc : Shifts(b, gf_mul(x, z)) /\ Rounds(bcc, b, y)
                      /\ gf_mul(gf_mul(x, z), y) = bcc[Bits]
  BY <1>2, MulIs
<1> DEFINE S == {i \in Nat : gf_mul(a[i], z) = b[i] /\ gf_mul(acc[i], z) = bcc[i]}
<1>4. 0 \in S
  BY <1>1, <1>3, MulZero DEF Shifts, Rounds
<1>5. ASSUME NEW i \in 1 .. Bits, i - 1 \in S PROVE i \in S
  <2>1. /\ a[i - 1] \in Field /\ acc[i - 1] \in Field /\ a[i] = Double(a[i - 1])
        /\ Bit(y, i - 1) = 0 => acc[i] = acc[i - 1]
        /\ Bit(y, i - 1) # 0 => acc[i] = Xor(acc[i - 1], a[i - 1])
    BY <1>1, Round
  <2>2. /\ b[i] = Double(b[i - 1])
        /\ Bit(y, i - 1) = 0 => bcc[i] = bcc[i - 1]
        /\ Bit(y, i - 1) # 0 => bcc[i] = Xor(bcc[i - 1], b[i - 1])
    BY <1>2, <1>3, Round
  <2>3. gf_mul(a[i - 1], z) = b[i - 1] /\ gf_mul(acc[i - 1], z) = bcc[i - 1] /\ i \in Nat
    BY <1>5
  <2>4. gf_mul(Double(a[i - 1]), z) = Double(gf_mul(a[i - 1], z))
    BY <2>1, MulDoubles
  <2>5. gf_mul(Xor(acc[i - 1], a[i - 1]), z) = Xor(gf_mul(acc[i - 1], z), gf_mul(a[i - 1], z))
    BY <2>1, MulAdds
  <2>6. gf_mul(a[i], z) = b[i]
    BY <2>1, <2>2, <2>3, <2>4
  <2>7. gf_mul(acc[i], z) = bcc[i]
    BY <2>1, <2>2, <2>3, <2>5
  <2> QED BY <2>3, <2>6, <2>7
<1> HIDE DEF S
<1>6. Bits \in 0 .. Bits /\ Bits \in Nat
  BY Sizes
<1>7. Bits \in S
  BY <1>4, <1>5, <1>6, InductionUpTo
<1> QED BY <1>1, <1>3, <1>7 DEF S

\* Sum and product of field elements, from the tables.
a ++ b == Add[<<a, b>>]
a ** b == Mul[<<a, b>>]

LEMMA Tables == \A x, y \in Field : x ++ y = Xor(x, y) /\ x ** y = gf_mul(x, y)
<1>1. ASSUME NEW x \in Field, NEW y \in Field PROVE x ++ y = Xor(x, y) /\ x ** y = gf_mul(x, y)
  <2>1. <<x, y>> \in Field \X Field
    OBVIOUS
  <2>2. Mul[<<x, y>>] = gf_mul(x, y) /\ Add[<<x, y>>] = Xor(x, y)
    BY <2>1 DEF Mul, Add
  <2> QED BY <2>2 DEF ++, **
<1> QED BY <1>1

\* (Field, ++, **) is a field of characteristic 2.
LEMMA FieldLaws ==
  /\ 0 \in Field /\ 1 \in Field /\ 0 # 1
  /\ \A x, y \in Field : x ++ y \in Field /\ x ** y \in Field
  /\ \A x, y \in Field : x ++ y = y ++ x /\ x ** y = y ** x
  /\ \A x, y, z \in Field : (x ++ y) ++ z = x ++ (y ++ z)
  /\ \A x, y, z \in Field : (x ** y) ** z = x ** (y ** z)
  /\ \A x, y, z \in Field : (x ++ y) ** z = (x ** z) ++ (y ** z)
  /\ \A x, y, z \in Field : z ** (x ++ y) = (z ** x) ++ (z ** y)
  /\ \A x \in Field : x ++ 0 = x /\ 0 ++ x = x /\ x ++ x = 0
  /\ \A x \in Field : x ** 0 = 0 /\ 0 ** x = 0 /\ x ** 1 = x /\ 1 ** x = x
  /\ \A x, y \in Field : x ** y = 0 => x = 0 \/ y = 0
<1>1. 0 \in Field /\ 1 \in Field /\ 0 # 1
  BY FieldXor
<1>2. \A x, y \in Field : /\ x ++ y = Xor(x, y) /\ Xor(x, y) \in Field
                          /\ x ** y = gf_mul(x, y) /\ gf_mul(x, y) \in Field
  BY Tables, MulIn, FieldXor
<1>3. ASSUME NEW x \in Field, NEW y \in Field PROVE x ** y = y ** x
  <2>1. gf_mul(gf_mul(1, x), y) = gf_mul(gf_mul(1, y), x)
    BY <1>1, MulShuffles
  <2> QED BY <1>2, <2>1, MulOne
<1>4. ASSUME NEW x \in Field, NEW y \in Field, NEW z \in Field
      PROVE  (x ** y) ** z = x ** (y ** z)
  <2>1. (y ** x) ** z = (y ** z) ** x
    BY <1>2, MulShuffles
  <2> QED BY <1>2, <1>3, <2>1
<1>5. \A x, y, z \in Field : (x ++ y) ** z = (x ** z) ++ (y ** z)
  BY <1>2, MulAdds
<1>6. ASSUME NEW x \in Field, NEW y \in Field, NEW z \in Field
      PROVE  z ** (x ++ y) = (z ** x) ++ (z ** y)
  <2>1. x ++ y \in Field
    BY <1>2
  <2>2. z ** (x ++ y) = (x ++ y) ** z /\ z ** x = x ** z /\ z ** y = y ** z
    BY <1>3, <2>1
  <2> QED BY <1>5, <2>2
<1>7. \A x \in Field : x ** 0 = 0 /\ 0 ** x = 0 /\ x ** 1 = x /\ 1 ** x = x
  BY <1>1, <1>2, <1>3, MulZero, MulOne
<1>8. ASSUME NEW x \in Field, NEW y \in Field, x ** y = 0 PROVE x = 0 \/ y = 0
  <2>1. SUFFICES ASSUME x # 0, y # 0 PROVE FALSE
    OBVIOUS
  <2>2. \A a \in Field \ {0} : \A b \in a .. 2 ^ Bits - 1 : gf_mul(a, b) # 0
    BY FieldAssumption DEF NoZeroDivisors
  <2>3. x \in Nat /\ y \in Nat /\ 2 ^ Bits \in Nat /\ x <= 2 ^ Bits - 1 /\ y <= 2 ^ Bits - 1
    BY Sizes DEF Field
  <2>4. gf_mul(x, y) = 0 /\ gf_mul(y, x) = 0
    BY <1>2, <1>3, <1>8
  <2>5. CASE x <= y
    <3>1. y \in x .. 2 ^ Bits - 1
      BY <2>3, <2>5
    <3> QED BY <2>1, <2>2, <2>4, <3>1
  <2>6. CASE y <= x
    <3>1. x \in y .. 2 ^ Bits - 1
      BY <2>3, <2>6
    <3> QED BY <2>1, <2>2, <2>4, <3>1
  <2> QED BY <2>3, <2>5, <2>6
<1>9. \A x, y \in Field : x ++ y = y ++ x
  BY <1>2, FieldXor
<1>10. \A x, y, z \in Field : (x ++ y) ++ z = x ++ (y ++ z)
  BY <1>2, FieldXor
<1>11. \A x \in Field : x ++ 0 = x /\ 0 ++ x = x /\ x ++ x = 0
  BY <1>1, <1>2, FieldXor
<1>12. \A x, y \in Field : x ++ y \in Field /\ x ** y \in Field
  BY <1>2
<1>13. \A x, y \in Field : x ++ y = y ++ x /\ x ** y = y ** x
  BY <1>3, <1>9
<1> QED BY <1>1, <1>4, <1>5, <1>6, <1>7, <1>8, <1>10, <1>11, <1>12, <1>13

LEMMA InField ==
  0 \in Field /\ 1 \in Field /\ 0 # 1 /\ \A x, y \in Field : x ++ y \in Field /\ x ** y \in Field
BY FieldLaws
LEMMA AddCommutes == \A x, y \in Field : x ++ y = y ++ x
BY FieldLaws
LEMMA MulCommutes == \A x, y \in Field : x ** y = y ** x
BY FieldLaws
LEMMA AddGroups == \A x, y, z \in Field : (x ++ y) ++ z = x ++ (y ++ z)
BY FieldLaws
LEMMA MulGroups == \A x, y, z \in Field : (x ** y) ** z = x ** (y ** z)
BY FieldLaws
LEMMA Distributes ==
  \A x, y, z \in Field : (x ++ y) ** z = (x ** z) ++ (y ** z) /\ z ** (x ++ y) = (z ** x) ++ (z ** y)
BY FieldLaws
LEMMA Units ==
  \A x \in Field : /\ x ++ 0 = x /\ 0 ++ x = x /\ x ++ x = 0
                   /\ x ** 0 = 0 /\ 0 ** x = 0 /\ x ** 1 = x /\ 1 ** x = x
BY FieldLaws

\* This is where the polynomial has to be irreducible.
LEMMA NoDivisors == \A x, y \in Field : x ** y = 0 => x = 0 \/ y = 0
BY FieldLaws

\* Sums are regrouped, and what both sides of an equation share is cancelled.
LEMMA Regroup ==
  ASSUME NEW w \in Field, NEW x \in Field, NEW y \in Field, NEW z \in Field
  PROVE  (w ++ x) ++ (y ++ z) = (w ++ y) ++ (x ++ z)
<1>1. x ++ y = y ++ x /\ x ++ y \in Field /\ x ++ z \in Field /\ y ++ z \in Field
  BY FieldLaws
<1>2. (w ++ x) ++ (y ++ z) = w ++ (x ++ (y ++ z))
  BY <1>1, FieldLaws
<1>3. x ++ (y ++ z) = (y ++ x) ++ z
  BY <1>1, FieldLaws
<1>4. (y ++ x) ++ z = y ++ (x ++ z)
  BY <1>1, FieldLaws
<1>5. w ++ (y ++ (x ++ z)) = (w ++ y) ++ (x ++ z)
  BY <1>1, FieldLaws
<1> QED BY <1>2, <1>3, <1>4, <1>5

LEMMA Cancels ==
  /\ \A x, y \in Field : x ++ y = 0 => x = y
  /\ \A x, y \in Field : x ++ (x ++ y) = y
  /\ \A x, y \in Field : (y ++ x) ++ x = y
  /\ \A x, y, z \in Field : z ++ x = z ++ y => x = y
  /\ \A x, y, z \in Field : x ** z = y ** z /\ z # 0 => x = y
<1>1. ASSUME NEW x \in Field, NEW y \in Field PROVE x ++ (x ++ y) = y /\ (y ++ x) ++ x = y
  <2>1. x ++ (x ++ y) = (x ++ x) ++ y /\ x ++ x = 0 /\ 0 ++ y = y
    BY FieldLaws
  <2>2. (y ++ x) ++ x = y ++ (x ++ x) /\ x ++ x = 0 /\ y ++ 0 = y
    BY FieldLaws
  <2> QED BY <2>1, <2>2
<1>2. \A x, y \in Field : x ++ y = 0 => x = y
  <2>1. \A x \in Field : x ++ 0 = x
    BY FieldLaws
  <2> QED BY <1>1, <2>1
<1>3. \A x, y, z \in Field : z ++ x = z ++ y => x = y
  BY <1>1
<1>4. ASSUME NEW x \in Field, NEW y \in Field, NEW z \in Field, x ** z = y ** z, z # 0
      PROVE  x = y
  <2>1. (x ++ y) ** z = (x ** z) ++ (y ** z)
    BY FieldLaws
  <2>2. x ** z \in Field /\ x ++ y \in Field
    BY FieldLaws
  <2>3. (x ++ y) ** z = 0
    BY <1>4, <2>1, <2>2, FieldLaws
  <2>4. x ++ y = 0
    BY <1>4, <2>2, <2>3, FieldLaws
  <2> QED BY <1>2, <2>4
<1> QED BY <1>1, <1>2, <1>3, <1>4

----------------------------------------------------------------------------
(* Sums and products of elements, powers and the inverse                   *)

\* f[i] is the sum, or the product, of g[1] to g[i].
Sums(f, g, N) ==
  f \in [0 .. N -> Field] /\ f[0] = 0 /\ \A i \in 1 .. N : f[i] = f[i - 1] ++ g[i]
Prods(f, g, N) ==
  f \in [0 .. N -> Field] /\ f[0] = 1 /\ \A i \in 1 .. N : f[i] = f[i - 1] ** g[i]

LEMMA SumsExist ==
  ASSUME NEW N \in Nat, NEW g, \A i \in 1 .. N : g[i] \in Field
  PROVE  \E f : Sums(f, g, N)
<1> DEFINE step == [q \in (1 .. N) \X Field |-> q[2] ++ g[q[1]]]
<1>1. \A i \in 1 .. N : \A v \in Field : step[<<i, v>>] = v ++ g[i]
  OBVIOUS
<1> HIDE DEF step
<1>2. Steps(Field, N, step)
  <2>1. ASSUME NEW i \in 1 .. N, NEW v \in Field PROVE step[<<i, v>>] \in Field
    <3>1. v ++ g[i] \in Field
      BY InField
    <3> QED BY <1>1, <3>1
  <2> QED BY <2>1, ZenonT(40) DEF Steps
<1>3. 0 \in Field
  BY FieldLaws
<1>4. PICK f : Takes(f, Field, 0, N, step)
  BY <1>2, <1>3, Recursion
<1>5. ASSUME NEW i \in 1 .. N PROVE f[i] = f[i - 1] ++ g[i]
  <2>1. i - 1 \in 0 .. N
    OBVIOUS
  <2>2. f[i - 1] \in Field /\ f[i] = step[<<i, f[i - 1]>>]
    BY <1>4, <2>1 DEF Takes
  <2> QED BY <1>1, <2>2
<1> QED BY <1>4, <1>5 DEF Takes, Sums

LEMMA ProdsExist ==
  ASSUME NEW N \in Nat, NEW g, \A i \in 1 .. N : g[i] \in Field
  PROVE  \E f : Prods(f, g, N)
<1> DEFINE step == [q \in (1 .. N) \X Field |-> q[2] ** g[q[1]]]
<1>1. \A i \in 1 .. N : \A v \in Field : step[<<i, v>>] = v ** g[i]
  OBVIOUS
<1> HIDE DEF step
<1>2. Steps(Field, N, step)
  <2>1. ASSUME NEW i \in 1 .. N, NEW v \in Field PROVE step[<<i, v>>] \in Field
    <3>1. v ** g[i] \in Field
      BY InField
    <3> QED BY <1>1, <3>1
  <2> QED BY <2>1, ZenonT(40) DEF Steps
<1>3. 1 \in Field
  BY FieldLaws
<1>4. PICK f : Takes(f, Field, 1, N, step)
  BY <1>2, <1>3, Recursion
<1>5. ASSUME NEW i \in 1 .. N PROVE f[i] = f[i - 1] ** g[i]
  <2>1. i - 1 \in 0 .. N
    OBVIOUS
  <2>2. f[i - 1] \in Field /\ f[i] = step[<<i, f[i - 1]>>]
    BY <1>4, <2>1 DEF Takes
  <2> QED BY <1>1, <2>2
<1> QED BY <1>4, <1>5 DEF Takes, Prods

\* One set of factors has one product.
LEMMA ProdsSame ==
  ASSUME NEW N \in Nat, NEW f, NEW g, NEW h, NEW k, Prods(f, g, N), Prods(h, k, N),
         \A i \in 1 .. N : g[i] = k[i]
  PROVE  \A i \in 0 .. N : f[i] = h[i]
<1> DEFINE S == {i \in Nat : f[i] = h[i]}
<1>1. 0 \in S
  BY DEF Prods
<1>2. ASSUME NEW i \in 1 .. N, i - 1 \in S PROVE i \in S
  BY <1>2 DEF Prods
<1> HIDE DEF S
<1>3. \A i \in 0 .. N : i \in S
  BY <1>1, <1>2, InductionUpTo
<1> QED BY <1>3 DEF S

\* A product is zero when a factor is, and only then.
LEMMA ProdsZero ==
  ASSUME NEW N \in Nat, NEW f, NEW g, Prods(f, g, N), \A i \in 1 .. N : g[i] \in Field
  PROVE  f[N] = 0 <=> \E i \in 1 .. N : g[i] = 0
<1> DEFINE S == {i \in Nat : f[i] = 0 <=> \E j \in 1 .. i : g[j] = 0}
<1>1. 0 \in S
  <2>1. f[0] = 1 /\ 0 # 1
    BY DEF Prods
  <2> QED BY <2>1
<1>2. ASSUME NEW i \in 1 .. N, i - 1 \in S PROVE i \in S
  <2>1. i - 1 \in 0 .. N /\ f[i - 1] \in Field /\ g[i] \in Field /\ f[i] = f[i - 1] ** g[i]
    BY DEF Prods
  <2>2. f[i] = 0 <=> f[i - 1] = 0 \/ g[i] = 0
    <3>1. f[i - 1] = 0 => f[i] = 0
      BY <2>1, Units
    <3>2. g[i] = 0 => f[i] = 0
      BY <2>1, Units
    <3>3. f[i] = 0 => f[i - 1] = 0 \/ g[i] = 0
      BY <2>1, NoDivisors
    <3> QED BY <3>1, <3>2, <3>3
  <2>3. \A j : j \in 1 .. i <=> j \in 1 .. i - 1 \/ j = i
    OBVIOUS
  <2> QED BY <1>2, <2>2, <2>3
<1> HIDE DEF S
<1>3. N \in S
  BY <1>1, <1>2, InductionUpTo
<1> QED BY <1>3 DEF S

\* Powers of x.
LEMMA PowersAdd ==
  ASSUME NEW N \in Nat, NEW x \in Field, NEW pow, Prods(pow, [i \in 1 .. N |-> x], N),
         NEW a \in 0 .. N, NEW b \in 0 .. N, a + b <= N
  PROVE  pow[a + b] = pow[a] ** pow[b]
<1> DEFINE S == {i \in Nat : pow[a + i] = pow[a] ** pow[i]}
<1>1. \A i \in 0 .. N : pow[i] \in Field
  BY DEF Prods
<1>2. 0 \in S
  <2>1. pow[0] = 1 /\ a + 0 = a /\ pow[a] \in Field
    BY <1>1 DEF Prods
  <2>2. pow[a] ** 1 = pow[a]
    BY <2>1, FieldLaws
  <2> QED BY <2>1, <2>2
<1>3. ASSUME NEW i \in 1 .. b, i - 1 \in S PROVE i \in S
  <2>1. i \in 1 .. N /\ a + i \in 1 .. N /\ (a + i) - 1 = a + (i - 1) /\ i - 1 \in 0 .. N
    OBVIOUS
  <2>2. pow[i] = pow[i - 1] ** x /\ pow[a + i] = pow[a + (i - 1)] ** x
    BY <2>1 DEF Prods
  <2>3. pow[a + (i - 1)] = pow[a] ** pow[i - 1]
    BY <1>3
  <2>4. (pow[a] ** pow[i - 1]) ** x = pow[a] ** (pow[i - 1] ** x)
    BY <1>1, <2>1, MulGroups
  <2> QED BY <2>2, <2>3, <2>4
<1> HIDE DEF S
<1>4. b \in S
  BY <1>2, <1>3, InductionUpTo, SMTT(40)
<1> QED BY <1>4 DEF S

\* The product of the elements of a set of field elements other than zero.
Nonzero == 1 .. 2 ^ Bits - 1
Among(S) == [k \in Nonzero |-> IF k \in S THEN k ELSE 1]
Whole(S) == (CHOOSE f : Prods(f, Among(S), 2 ^ Bits - 1))[2 ^ Bits - 1]

LEMMA NonzeroIs ==
  /\ 2 ^ Bits - 1 \in Nat /\ 2 ^ Bits - 1 >= 1
  /\ Nonzero = Field \ {0} /\ IsFiniteSet(Nonzero) /\ Cardinality(Nonzero) = 2 ^ Bits - 1
<1> DEFINE q == 2 ^ Bits
<1>1. q \in Nat /\ q >= 2
  BY Sizes
<1>2. Nonzero = 1 .. q - 1 /\ Field = 0 .. q - 1
  BY DEF Nonzero, Field
<1> HIDE DEF q
<1>3. q - 1 \in Nat /\ q - 1 >= 1
  BY <1>1
<1>4. IsFiniteSet(1 .. q - 1) /\ Cardinality(1 .. q - 1) = q - 1
  BY <1>3, FS_Interval
<1>5. 1 .. q - 1 = (0 .. q - 1) \ {0}
  BY <1>1
<1> QED BY <1>2, <1>3, <1>4, <1>5 DEF q

LEMMA WholeIs ==
  ASSUME NEW S
  PROVE  \E f : Prods(f, Among(S), 2 ^ Bits - 1) /\ Whole(S) = f[2 ^ Bits - 1]
<1>1. \A k \in 1 .. 2 ^ Bits - 1 : Among(S)[k] \in Field
  BY NonzeroIs, FieldLaws DEF Among, Nonzero
<1>2. \E f : Prods(f, Among(S), 2 ^ Bits - 1)
  BY <1>1, NonzeroIs, ProdsExist
<1> QED BY <1>2 DEF Whole

\* The product of a set with one more element.
LEMMA WholeGrows ==
  ASSUME NEW S, NEW a \in Nonzero, a \notin S
  PROVE  Whole(S \cup {a}) = a ** Whole(S)
<1> DEFINE T == S \cup {a}
           N == 2 ^ Bits - 1
<1>1. N \in Nat /\ Nonzero = 1 .. N /\ Nonzero \subseteq Field
  BY NonzeroIs DEF Nonzero
<1>2. PICK f : Prods(f, Among(S), N) /\ Whole(S) = f[N]
  BY WholeIs
<1>3. PICK h : Prods(h, Among(T), N) /\ Whole(T) = h[N]
  BY WholeIs
<1> HIDE DEF N
<1>4. \A k \in 1 .. N : /\ Among(S)[k] \in Field
                        /\ k # a => Among(T)[k] = Among(S)[k]
                        /\ k = a => Among(T)[k] = a /\ Among(S)[k] = 1
  BY <1>1, FieldLaws DEF Among
<1> HIDE DEF T
<1> DEFINE M == {k \in Nat : h[k] = IF k < a THEN f[k] ELSE a ** f[k]}
<1>5. 0 \in M
  <2>1. h[0] = 1 /\ f[0] = 1 /\ 0 < a
    BY <1>1, <1>2, <1>3 DEF Prods
  <2> QED BY <2>1
<1>6. ASSUME NEW k \in 1 .. N, k - 1 \in M PROVE k \in M
  <2>1. /\ k - 1 \in 0 .. N /\ f[k - 1] \in Field /\ h[k - 1] \in Field /\ k \in Nat /\ a \in Nat
        /\ f[k] = f[k - 1] ** Among(S)[k] /\ h[k] = h[k - 1] ** Among(T)[k]
    BY <1>1, <1>2, <1>3 DEF Prods
  <2>2. h[k - 1] = IF k - 1 < a THEN f[k - 1] ELSE a ** f[k - 1]
    BY <1>6
  <2>3. CASE k < a
    <3>1. k # a /\ k - 1 < a
      BY <2>1, <2>3
    <3> QED BY <1>4, <2>1, <2>2, <2>3, <3>1
  <2>4. CASE k = a
    <3>1. k - 1 < a /\ ~(k < a)
      BY <2>1, <2>4
    <3>2. h[k] = f[k - 1] ** a /\ f[k] = f[k - 1] ** 1
      BY <1>4, <2>1, <2>2, <2>4, <3>1
    <3>3. f[k - 1] ** 1 = f[k - 1] /\ f[k - 1] ** a = a ** f[k - 1]
      BY <1>1, <2>1, FieldLaws
    <3>4. h[k] = a ** f[k]
      BY <3>2, <3>3
    <3> QED BY <2>1, <3>1, <3>4
  <2>5. CASE k > a
    <3>1. k # a /\ ~(k - 1 < a) /\ ~(k < a)
      BY <2>1, <2>5
    <3>2. h[k] = (a ** f[k - 1]) ** Among(S)[k]
      BY <1>4, <2>1, <2>2, <3>1
    <3>3. (a ** f[k - 1]) ** Among(S)[k] = a ** (f[k - 1] ** Among(S)[k])
      BY <1>1, <1>4, <2>1, MulGroups, ZenonT(40)
    <3>4. h[k] = a ** f[k]
      BY <2>1, <3>2, <3>3
    <3> QED BY <2>1, <3>1, <3>4
  <2> QED BY <2>1, <2>3, <2>4, <2>5
<1> HIDE DEF M
<1>7. N \in M
  BY <1>1, <1>5, <1>6, InductionUpTo, SMTT(40)
<1>8. ~(N < a)
  BY <1>1
<1> QED BY <1>2, <1>3, <1>7, <1>8 DEF M, T

LEMMA WholeNonzero == ASSUME NEW S PROVE Whole(S) \in Field /\ Whole(S) # 0
<1> DEFINE N == 2 ^ Bits - 1
<1>1. N \in Nat /\ Nonzero = 1 .. N /\ Nonzero = Field \ {0} /\ N \in 0 .. N
  BY NonzeroIs DEF Nonzero
<1>2. PICK f : Prods(f, Among(S), N) /\ Whole(S) = f[N]
  BY WholeIs
<1> HIDE DEF N
<1>3. \A k \in 1 .. N : Among(S)[k] \in Field /\ Among(S)[k] # 0
  BY <1>1, FieldLaws DEF Among
<1>4. f[N] # 0
  BY <1>1, <1>2, <1>3, ProdsZero
<1> QED BY <1>1, <1>2, <1>4 DEF Prods

LEMMA MulRegroup ==
  ASSUME NEW a \in Field, NEW b \in Field, NEW c \in Field, NEW d \in Field
  PROVE  (a ** b) ** (c ** d) = (c ** a) ** (b ** d)
<1>1. b ** d \in Field /\ c ** d \in Field /\ c ** (b ** d) \in Field /\ b ** c \in Field
  BY InField
<1>2. (a ** b) ** (c ** d) = a ** (b ** (c ** d))
  BY <1>1, MulGroups
<1>3. b ** (c ** d) = (b ** c) ** d
  BY MulGroups
<1>4. (b ** c) ** d = (c ** b) ** d
  BY MulCommutes
<1>5. (c ** b) ** d = c ** (b ** d)
  BY MulGroups
<1>6. a ** (c ** (b ** d)) = (a ** c) ** (b ** d)
  BY <1>1, MulGroups
<1>7. a ** c = c ** a
  BY MulCommutes
<1> QED BY <1>2, <1>3, <1>4, <1>5, <1>6, <1>7

\* Fermat's little theorem: the multiples of x are a permutation of the elements
\* other than zero.
LEMMA Fermat ==
  ASSUME NEW x \in Field, x # 0, NEW pow, Prods(pow, [i \in 1 .. 2 ^ Bits |-> x], 2 ^ Bits)
  PROVE  pow[2 ^ Bits - 1] = 1
<1> DEFINE N == 2 ^ Bits - 1
           Multiples(k) == {x ** i : i \in 1 .. k}
<1>1. N \in Nat /\ Nonzero = 1 .. N /\ Nonzero = Field \ {0}
  BY NonzeroIs DEF Nonzero
<1>2. /\ \A i \in 0 .. N : pow[i] \in Field
      /\ pow[0] = 1 /\ \A i \in 1 .. N : pow[i] = pow[i - 1] ** x
  <2>1. 2 ^ Bits \in Nat
    BY Sizes
  <2> DEFINE q == 2 ^ Bits
  <2>2. pow \in [0 .. q -> Field] /\ pow[0] = 1 /\ \A i \in 1 .. q : pow[i] = pow[i - 1] ** x
    BY DEF Prods
  <2>3. N = q - 1 /\ q \in Nat
    BY <2>1
  <2> HIDE DEF q, N
  <2> QED BY <2>2, <2>3
<1> HIDE DEF N
<1>3. \A i \in 1 .. N : i \in Nonzero /\ i \in Field /\ i # 0 /\ x ** i \in Field /\ x ** i # 0
  BY <1>1, InField, NoDivisors
<1>4. \A i, j \in 1 .. N : x ** i = x ** j => i = j
  <2>1. \A i \in 1 .. N : x ** i = i ** x
    BY <1>3, MulCommutes
  <2> QED BY <1>3, <2>1, Cancels
<1> DEFINE S == {k \in Nat : Whole(Multiples(k)) = pow[k] ** Whole(1 .. k)}
<1>5. 0 \in S
  <2>1. 1 .. 0 = {} /\ Multiples(0) = {}
    OBVIOUS
  <2>2. 1 ** Whole({}) = Whole({})
    BY WholeNonzero, Units
  <2> HIDE DEF Multiples
  <2> QED BY <1>2, <2>1, <2>2
<1>6. ASSUME NEW k \in 1 .. N, k - 1 \in S PROVE k \in S
  <2>1. Multiples(k) = Multiples(k - 1) \cup {x ** k} /\ 1 .. k = (1 .. k - 1) \cup {k}
    <3>1. \A i : i \in 1 .. k <=> i \in 1 .. k - 1 \/ i = k
      OBVIOUS
    <3>2. 1 .. k = (1 .. k - 1) \cup {k}
      BY <3>1
    <3> QED BY <3>1, <3>2
  <2>2. x ** k \notin Multiples(k - 1)
    <3>1. ASSUME NEW i \in 1 .. k - 1 PROVE x ** k # x ** i
      <4>1. i \in 1 .. N /\ i # k
        BY <1>1
      <4> QED BY <1>4, <4>1
    <3> QED BY <3>1
  <2> HIDE DEF Multiples
  <2>3. x ** k \in Nonzero /\ k \in Nonzero /\ k \notin 1 .. k - 1 /\ k \in Field
    BY <1>1, <1>3
  <2>4. Whole(Multiples(k)) = (x ** k) ** Whole(Multiples(k - 1))
    BY <2>1, <2>2, <2>3, WholeGrows
  <2>5. Whole(1 .. k) = k ** Whole(1 .. k - 1)
    BY <2>1, <2>3, WholeGrows
  <2>6. Whole(Multiples(k - 1)) = pow[k - 1] ** Whole(1 .. k - 1)
    BY <1>6
  <2>7. k - 1 \in 0 .. N /\ pow[k - 1] \in Field /\ Whole(1 .. k - 1) \in Field
    BY <1>1, <1>2, WholeNonzero
  <2>8. (x ** k) ** (pow[k - 1] ** Whole(1 .. k - 1)) = (pow[k - 1] ** x) ** (k ** Whole(1 .. k - 1))
    <3> DEFINE c == pow[k - 1]
               d == Whole(1 .. k - 1)
    <3>1. c \in Field /\ d \in Field
      BY <2>7
    <3> HIDE DEF c, d
    <3>2. (x ** k) ** (c ** d) = (c ** x) ** (k ** d)
      BY <2>3, <3>1, MulRegroup
    <3> QED BY <3>2 DEF c, d
  <2>9. pow[k] = pow[k - 1] ** x
    BY <1>2
  <2> QED BY <2>4, <2>5, <2>6, <2>8, <2>9
<1> HIDE DEF S
<1>7. N \in S
  BY <1>1, <1>5, <1>6, InductionUpTo
<1>8. Multiples(N) = Nonzero
  <2> DEFINE f == [i \in Nonzero |-> x ** i]
  <2>1. f \in [Nonzero -> Nonzero]
    BY <1>1, <1>3
  <2>2. \A i, j \in Nonzero : f[i] = f[j] => i = j
    BY <1>1, <1>4
  <2>3. \A i \in Nonzero : f[i] = x ** i
    OBVIOUS
  <2> HIDE DEF f
  <2>4. f \in Injection(Nonzero, Nonzero)
    BY <2>1, <2>2 DEF Injection, IsInjective
  <2>5. f \in Surjection(Nonzero, Nonzero)
    BY <2>4, NonzeroIs, FS_Injection
  <2>6. \A y \in Nonzero : \E i \in Nonzero : f[i] = y
    BY <2>5 DEF Surjection
  <2> QED BY <1>1, <2>1, <2>3, <2>6
<1> HIDE DEF Multiples
<1>9. Whole(Nonzero) = pow[N] ** Whole(Nonzero)
  BY <1>1, <1>7, <1>8 DEF S
<1>10. pow[N] \in Field /\ Whole(Nonzero) \in Field /\ Whole(Nonzero) # 0 /\ 1 \in Field
  BY <1>1, <1>2, WholeNonzero, InField
<1>11. 1 ** Whole(Nonzero) = Whole(Nonzero)
  BY <1>10, Units
<1>12. pow[N] = 1
  BY <1>9, <1>10, <1>11, Cancels
<1> QED BY <1>12 DEF N

\* What Power computes.
Squares(base, x) ==
  /\ base \in [0 .. Bits -> Field] /\ base[0] = x
  /\ \A i \in 1 .. Bits : base[i] = base[i - 1] ** base[i - 1]
Chosen(acc, base, e) ==
  /\ acc \in [0 .. Bits -> Field] /\ acc[0] = 1
  /\ \A i \in 1 .. Bits :
       acc[i] = IF Bit(e, i - 1) = 1 THEN acc[i - 1] ** base[i - 1] ELSE acc[i - 1]

\* What Power computes: the squares of x, and those that the bits of e choose.
LEMMA PowerIs ==
  ASSUME NEW x \in Field, NEW e
  PROVE  \E base, acc : Squares(base, x) /\ Chosen(acc, base, e) /\ Power(x, e) = acc[Bits]
<1> DEFINE eqb(f) == f = [i \in 0 .. Bits |-> IF i = 0 THEN x ELSE Mul[<<f[i - 1], f[i - 1]>>]]
           base == CHOOSE f : eqb(f)
           eqc(f) == f = [i \in 0 .. Bits |->
                            IF i = 0 THEN 1
                            ELSE IF Bit(e, i - 1) = 1 THEN Mul[<<f[i - 1], base[i - 1]>>] ELSE f[i - 1]]
           acc == CHOOSE f : eqc(f)
<1>1. Power(x, e) = acc[Bits]
  BY DEF Power
<1>2. Bits \in Nat /\ \A i \in 1 .. Bits : i \in 0 .. Bits /\ i # 0 /\ i - 1 \in 0 .. Bits
  BY Sizes
<1>3. \A i \in 0 .. Bits : i = 0 \/ i \in 1 .. Bits
  BY <1>2
<1>4. Squares(base, x)
  <2> DEFINE step == [q \in (1 .. Bits) \X Field |-> q[2] ** q[2]]
  <2>1. \A i \in 1 .. Bits : \A v \in Field : step[<<i, v>>] = v ** v
    OBVIOUS
  <2> HIDE DEF step
  <2>2. Steps(Field, Bits, step)
    BY <2>1, InField, ZenonT(40) DEF Steps
  <2>3. PICK f : Takes(f, Field, x, Bits, step)
    BY <1>2, <2>2, Recursion
  <2>4. \A i \in 1 .. Bits : f[i] = f[i - 1] ** f[i - 1]
    BY <1>2, <2>1, <2>3 DEF Takes
  <2>5. eqb(f)
    <3>1. \A i \in 0 .. Bits : f[i] = IF i = 0 THEN x ELSE Mul[<<f[i - 1], f[i - 1]>>]
      BY <1>3, <2>3, <2>4 DEF Takes, **
    <3>2. f = [i \in 0 .. Bits |-> f[i]]
      BY <2>3 DEF Takes
    <3> QED BY <3>1, <3>2
  <2>6. eqb(base)
    BY <2>5, ZenonT(40)
  <2> HIDE DEF base
  <2>7. base[0] = x /\ \A i \in 1 .. Bits : base[i] = base[i - 1] ** base[i - 1]
    BY <1>2, <2>6 DEF **
  <2> HIDE DEF eqb
  <2> DEFINE S == {i \in Nat : base[i] \in Field}
  <2>8. \A i \in 1 .. Bits : i - 1 \in S => i \in S
    BY <2>7, InField
  <2>9. 0 \in S
    BY <2>7
  <2> HIDE DEF S
  <2>10. \A i \in 0 .. Bits : i \in S
    BY <1>2, <2>8, <2>9, InductionUpTo
  <2>11. base = [i \in 0 .. Bits |-> base[i]]
    BY <2>6 DEF eqb
  <2>12. base \in [0 .. Bits -> Field]
    BY <2>10, <2>11 DEF S
  <2> QED BY <2>7, <2>12 DEF Squares
<1> HIDE DEF base, eqb
<1>5. Chosen(acc, base, e)
  <2>1. \A i \in 1 .. Bits : base[i - 1] \in Field
    BY <1>2, <1>4 DEF Squares
  <2> DEFINE step == [q \in (1 .. Bits) \X Field |->
                        IF Bit(e, q[1] - 1) = 1 THEN q[2] ** base[q[1] - 1] ELSE q[2]]
  <2>2. \A i \in 1 .. Bits : \A v \in Field :
          step[<<i, v>>] = IF Bit(e, i - 1) = 1 THEN v ** base[i - 1] ELSE v
    OBVIOUS
  <2> HIDE DEF step
  <2>3. Steps(Field, Bits, step)
    <3>1. ASSUME NEW i \in 1 .. Bits, NEW v \in Field PROVE step[<<i, v>>] \in Field
      <4>1. v ** base[i - 1] \in Field
        BY <2>1, InField
      <4> QED BY <2>2, <4>1
    <3> QED BY <3>1, ZenonT(40) DEF Steps
  <2>4. PICK f : Takes(f, Field, 1, Bits, step)
    BY <1>2, <2>3, Recursion, InField
  <2>5. \A i \in 1 .. Bits : f[i] = IF Bit(e, i - 1) = 1 THEN f[i - 1] ** base[i - 1] ELSE f[i - 1]
    BY <1>2, <2>2, <2>4 DEF Takes
  <2>6. eqc(f)
    <3>1. \A i \in 0 .. Bits :
            f[i] = IF i = 0 THEN 1
                   ELSE IF Bit(e, i - 1) = 1 THEN Mul[<<f[i - 1], base[i - 1]>>] ELSE f[i - 1]
      BY <1>3, <2>4, <2>5 DEF Takes, **
    <3>2. f = [i \in 0 .. Bits |-> f[i]]
      BY <2>4 DEF Takes
    <3> QED BY <3>1, <3>2
  <2>7. eqc(acc)
    BY <2>6, ZenonT(40)
  <2> HIDE DEF acc
  <2>8. /\ acc[0] = 1
        /\ \A i \in 1 .. Bits :
             acc[i] = IF Bit(e, i - 1) = 1 THEN acc[i - 1] ** base[i - 1] ELSE acc[i - 1]
    <3>1. acc[0] = 1
      BY <1>2, <2>7
    <3>2. ASSUME NEW i \in 1 .. Bits
          PROVE  acc[i] = IF Bit(e, i - 1) = 1 THEN acc[i - 1] ** base[i - 1] ELSE acc[i - 1]
      <4>1. i \in 0 .. Bits /\ i # 0
        BY <1>2
      <4>2. acc[i] = IF Bit(e, i - 1) = 1 THEN Mul[<<acc[i - 1], base[i - 1]>>] ELSE acc[i - 1]
        BY <2>7, <4>1
      <4> QED BY <4>2 DEF **
    <3> QED BY <3>1, <3>2
  <2>9. acc = [i \in 0 .. Bits |-> acc[i]]
    BY <2>7
  <2> HIDE DEF eqc
  <2> DEFINE S == {i \in Nat : acc[i] \in Field}
  <2>10. ASSUME NEW i \in 1 .. Bits, i - 1 \in S PROVE i \in S
    <3>1. acc[i - 1] ** base[i - 1] \in Field /\ acc[i - 1] \in Field
      BY <2>1, <2>10, InField
    <3> QED BY <2>8, <3>1
  <2>11. 0 \in S
    BY <2>8, InField
  <2> HIDE DEF S
  <2>12. \A i \in 0 .. Bits : i \in S
    BY <1>2, <2>10, <2>11, InductionUpTo
  <2>13. acc \in [0 .. Bits -> Field]
    BY <2>9, <2>12 DEF S
  <2> QED BY <2>8, <2>13 DEF Chosen
<1> QED BY <1>1, <1>4, <1>5

\* The numbers whose lowest k bits are all set.
LEMMA AllOnes == ASSUME NEW k \in Nat, NEW j \in 0 .. k - 1 PROVE Bit(2 ^ k - 1, j) = 1
<1> DEFINE f == [i \in 0 .. k |-> 2 ^ i - 1]
           g == [i \in 0 .. k - 1 |-> 1]
<1>1. f[0] = 0 /\ \A i \in 0 .. k - 1 : g[i] = 1
  OBVIOUS
<1>2. ASSUME NEW i \in 1 .. k PROVE f[i] = f[i - 1] + 2 ^ (i - 1) * g[i - 1]
  <2> DEFINE p == 2 ^ (i - 1)
  <2>1. i - 1 \in Nat /\ (i - 1) + 1 = i /\ i - 1 \in 0 .. k - 1
    OBVIOUS
  <2>2. 2 ^ ((i - 1) + 1) = 2 * p /\ p \in Nat
    BY <2>1, PowerDoubles, PowerIsNat
  <2>3. f[i] = 2 * p - 1 /\ f[i - 1] = p - 1 /\ g[i - 1] = 1
    BY <2>1, <2>2
  <2> HIDE DEF p, f, g
  <2>4. f[i] = f[i - 1] + p * g[i - 1]
    BY <2>2, <2>3
  <2> QED BY <2>4 DEF p
<1> HIDE DEF f, g
<1>3. AddsBits(f, k, g)
  BY <1>1, <1>2 DEF AddsBits
<1>4. Bit(f[k], j) = 1
  BY <1>1, <1>3, BitsMake
<1> QED BY <1>4 DEF f

\* The exponent of gf_inv has all bits but the lowest.
LEMMA ExponentIs ==
  Bit(2 ^ Bits - 2, 0) = 0 /\ \A i \in 1 .. Bits - 1 : Bit(2 ^ Bits - 2, i) = 1
<1> DEFINE h == 2 ^ (Bits - 1)
<1>1. Bits \in Nat /\ Bits - 1 \in Nat /\ h \in Nat /\ h >= 1 /\ 2 ^ Bits = 2 * h
  BY Sizes, PowerIsPositive
<1> DEFINE x == h - 1
<1>2. 2 * h - 2 = 2 * x /\ x \in Nat
  <2> HIDE DEF h
  <2> QED BY <1>1
<1>3. \A i \in 0 .. (Bits - 1) - 1 : Bit(x, i) = 1
  BY <1>1, AllOnes
<1> HIDE DEF x, h
<1>4. Bit(2 * x, 0) = 0
  BY <1>2, BitsOfDouble
<1>5. ASSUME NEW i \in 1 .. Bits - 1 PROVE Bit(2 * x, i) = 1
  <2>1. i - 1 \in Nat /\ (i - 1) + 1 = i /\ i - 1 \in 0 .. (Bits - 1) - 1
    BY <1>1
  <2>2. Bit(2 * x, (i - 1) + 1) = Bit(x, i - 1)
    BY <1>2, <2>1, BitsOfDouble
  <2> QED BY <1>3, <2>1, <2>2
<1> QED BY <1>1, <1>2, <1>4, <1>5

\* gf_inv gives the inverse.
LEMMA InverseIs ==
  ASSUME NEW x \in Field, x # 0
  PROVE  gf_inv(x) \in Field /\ x ** gf_inv(x) = 1 /\ gf_inv(x) # 0
<1> DEFINE e == 2 ^ Bits - 2
           N == 2 ^ Bits
<1>1. PICK base, acc : Squares(base, x) /\ Chosen(acc, base, e) /\ Power(x, e) = acc[Bits]
  BY PowerIs
<1>2. gf_inv(x) = acc[Bits]
  BY <1>1 DEF gf_inv
<1>3. Bit(e, 0) = 0 /\ \A i \in 1 .. Bits - 1 : Bit(e, i) = 1
  BY ExponentIs
<1> HIDE DEF e
<1>4. Bits \in Nat /\ Bits >= 1 /\ Bits \in 0 .. Bits /\ N \in Nat /\ N >= 2
  BY Sizes
<1>5. PICK pow : Prods(pow, [i \in 1 .. N |-> x], N)
  <2>1. \A i \in 1 .. N : [j \in 1 .. N |-> x][i] \in Field
    OBVIOUS
  <2> HIDE DEF N
  <2> QED BY <1>4, <2>1, ProdsExist
<1>6. pow[N - 1] = 1
  BY <1>5, Fermat
<1>7. base[Bits] = pow[N]
  <2> DEFINE S == {i \in Nat : base[i] = pow[2 ^ i]}
  <2>1. 0 \in S
    <3>1. 2 ^ 0 = 1 /\ 1 \in 1 .. N /\ 1 - 1 = 0
      BY <1>4
    <3>2. pow[0] = 1 /\ pow[1] = pow[0] ** x
      <4> HIDE DEF N
      <4> QED BY <1>5, <3>1 DEF Prods
    <3>3. 1 ** x = x
      BY Units
    <3>4. base[0] = pow[1]
      BY <1>1, <3>2, <3>3 DEF Squares
    <3> QED BY <3>1, <3>4
  <2>2. ASSUME NEW i \in 1 .. Bits, i - 1 \in S PROVE i \in S
    <3> DEFINE p == 2 ^ (i - 1)
    <3>1. i - 1 \in Nat /\ (i - 1) + 1 = i /\ Bits - i \in Nat /\ i + (Bits - i) = Bits
      BY <1>4
    <3>2. 2 ^ ((i - 1) + 1) = 2 * p /\ p \in Nat
      BY <3>1, PowerDoubles, PowerIsNat
    <3>3. 2 ^ i <= 2 ^ (i + (Bits - i))
      BY <3>1, PowersGrow
    <3>4. 2 ^ i = 2 * p /\ 2 * p <= N
      BY <3>1, <3>2, <3>3
    <3>5. base[i] = base[i - 1] ** base[i - 1] /\ base[i - 1] = pow[p]
      BY <1>1, <2>2 DEF Squares
    <3> HIDE DEF p, N
    <3>6. p \in 0 .. N /\ p + p <= N /\ p + p = 2 * p
      BY <1>4, <3>2, <3>4
    <3>7. pow[p + p] = pow[p] ** pow[p]
      BY <1>4, <1>5, <3>6, PowersAdd
    <3>8. base[i] = pow[2 * p]
      BY <3>5, <3>6, <3>7
    <3> QED BY <3>4, <3>8
  <2> HIDE DEF S
  <2>3. Bits \in S
    BY <1>4, <2>1, <2>2, InductionUpTo
  <2> QED BY <2>3 DEF S
<1> HIDE DEF N
<1>8. pow[N] = x
  <2>1. N \in 1 .. N
    BY <1>4
  <2>2. pow[N] = pow[N - 1] ** x
    BY <1>5, <2>1 DEF Prods
  <2> QED BY <1>6, <2>2, Units
<1>9. \A i \in 0 .. Bits : acc[i] \in Field /\ base[i] \in Field
  BY <1>1 DEF Squares, Chosen
<1>10. x ** (x ** acc[Bits]) = base[Bits]
  <2> DEFINE S == {i \in Nat : i >= 1 => x ** (x ** acc[i]) = base[i]}
  <2>1. 0 \in S
    OBVIOUS
  <2>2. ASSUME NEW i \in 1 .. Bits, i - 1 \in S PROVE i \in S
    <3>1. /\ i - 1 \in 0 .. Bits /\ base[i] = base[i - 1] ** base[i - 1]
          /\ acc[i] = IF Bit(e, i - 1) = 1 THEN acc[i - 1] ** base[i - 1] ELSE acc[i - 1]
      BY <1>1, <1>4 DEF Squares, Chosen
    <3>2. CASE i = 1
      <4>1. acc[1] = 1 /\ base[1] = x ** x
        <5>1. i - 1 = 0
          BY <3>2
        <5> QED BY <1>1, <1>3, <3>1, <3>2, <5>1 DEF Squares, Chosen
      <4>2. x ** 1 = x
        BY Units
      <4> QED BY <3>2, <4>1, <4>2
    <3>3. CASE i # 1
      <4>1. i - 1 >= 1 /\ i - 1 \in 1 .. Bits - 1
        BY <1>4, <3>3
      <4>2. acc[i] = acc[i - 1] ** base[i - 1]
        BY <1>3, <3>1, <4>1
      <4>3. x ** (x ** acc[i - 1]) = base[i - 1]
        BY <2>2, <4>1
      <4> DEFINE a == acc[i - 1]
                 b == base[i - 1]
      <4>4. a \in Field /\ b \in Field
        BY <1>9, <3>1
      <4> HIDE DEF a, b
      <4>5. x ** (a ** b) = (x ** a) ** b /\ x ** a \in Field
        BY <4>4, MulGroups, InField
      <4>6. x ** ((x ** a) ** b) = (x ** (x ** a)) ** b
        BY <4>4, <4>5, MulGroups
      <4>7. x ** (x ** (a ** b)) = (x ** (x ** a)) ** b
        BY <4>5, <4>6
      <4> QED BY <3>1, <4>2, <4>3, <4>7 DEF a, b
    <3> QED BY <3>2, <3>3
  <2> HIDE DEF S
  <2>3. Bits \in S
    BY <1>4, <2>1, <2>2, InductionUpTo
  <2> QED BY <1>4, <2>3 DEF S
<1> DEFINE v == acc[Bits]
<1>11. v \in Field
  BY <1>4, <1>9
<1>12. x ** (x ** v) = x
  BY <1>7, <1>8, <1>10
<1> HIDE DEF v
<1>13. x ** v \in Field /\ (x ** v) ** x = x ** (x ** v) /\ 1 ** x = x /\ 1 \in Field
  BY <1>11, InField, MulCommutes, Units
<1>14. x ** v = 1
  BY <1>12, <1>13, Cancels
<1>15. v # 0
  BY <1>14, InField, Units
<1> QED BY <1>2, <1>11, <1>14, <1>15 DEF v

\* What Product and gf_eval compute.
LEMMA ProductIs ==
  ASSUME NEW L \in Nat, NEW s \in [1 .. L -> Field]
  PROVE  \E p : Prods(p, s, L) /\ Product(s) = p[L]
<1> DEFINE eq(f) == f = [i \in 0 .. Len(s) |-> IF i = 0 THEN 1 ELSE Mul[<<f[i - 1], s[i]>>]]
           p == CHOOSE f : eq(f)
<1>1. Product(s) = p[Len(s)] /\ Len(s) = L
  BY DEF Product
<1>2. \A i \in 1 .. L : i \in 0 .. L /\ i # 0 /\ i - 1 \in 0 .. L
  OBVIOUS
<1>3. \A i \in 0 .. L : i = 0 \/ i \in 1 .. L
  OBVIOUS
<1>4. PICK f : Prods(f, s, L)
  BY ProdsExist
<1>5. eq(f)
  <2>1. \A i \in 0 .. L : f[i] = IF i = 0 THEN 1 ELSE Mul[<<f[i - 1], s[i]>>]
    BY <1>3, <1>4 DEF Prods, **
  <2>2. f = [i \in 0 .. L |-> f[i]]
    BY <1>4 DEF Prods
  <2> QED BY <1>1, <2>1, <2>2
<1>6. eq(p)
  BY <1>5, ZenonT(40)
<1> HIDE DEF p
<1>7. p[0] = 1 /\ \A i \in 1 .. L : p[i] = p[i - 1] ** s[i]
  BY <1>1, <1>2, <1>6 DEF **
<1>8. p = [i \in 0 .. L |-> p[i]]
  BY <1>1, <1>6
<1> HIDE DEF eq
<1> DEFINE S == {i \in Nat : p[i] \in Field}
<1>9. \A i \in 1 .. L : i - 1 \in S => i \in S
  BY <1>7, InField
<1>10. 0 \in S
  BY <1>7, InField
<1> HIDE DEF S
<1>11. \A i \in 0 .. L : i \in S
  BY <1>9, <1>10, InductionUpTo
<1>12. p \in [0 .. L -> Field]
  BY <1>8, <1>11 DEF S
<1>13. Prods(p, s, L)
  BY <1>7, <1>12 DEF Prods
<1> QED BY <1>1, <1>13

\* What gf_eval computes: the powers of x, and the terms added up.
LEMMA EvalIs ==
  ASSUME NEW L \in Nat, NEW c \in [1 .. L -> Field], NEW x \in Field
  PROVE  \E pow, acc : /\ Prods(pow, [i \in 1 .. L |-> x], L)
                       /\ Sums(acc, [i \in 1 .. L |-> c[i] ** pow[i - 1]], L)
                       /\ gf_eval(c, x) = acc[L]
<1> DEFINE eqp(f) == f = [i \in 0 .. Len(c) |-> IF i = 0 THEN 1 ELSE Mul[<<f[i - 1], x>>]]
           pow == CHOOSE f : eqp(f)
           eqa(f) == f = [i \in 0 .. Len(c) |->
                            IF i = 0 THEN 0 ELSE Add[<<f[i - 1], Mul[<<c[i], pow[i - 1]>>]>>]]
           acc == CHOOSE f : eqa(f)
           X == [i \in 1 .. L |-> x]
           G == [i \in 1 .. L |-> c[i] ** pow[i - 1]]
<1>1. gf_eval(c, x) = acc[Len(c)] /\ Len(c) = L
  BY DEF gf_eval
<1>2. \A i \in 1 .. L : i \in 0 .. L /\ i # 0 /\ i - 1 \in 0 .. L
  OBVIOUS
<1>3. \A i \in 0 .. L : i = 0 \/ i \in 1 .. L
  OBVIOUS
<1>4. \A i \in 1 .. L : X[i] = x
  OBVIOUS
<1> HIDE DEF X
<1>5. Prods(pow, X, L)
  <2>1. PICK f : Prods(f, X, L)
    BY <1>4, ProdsExist
  <2>2. eqp(f)
    <3>1. \A i \in 0 .. L : f[i] = IF i = 0 THEN 1 ELSE Mul[<<f[i - 1], x>>]
      BY <1>3, <1>4, <2>1 DEF Prods, **
    <3>2. f = [i \in 0 .. L |-> f[i]]
      BY <2>1 DEF Prods
    <3> QED BY <1>1, <3>1, <3>2, ZenonT(40)
  <2>3. eqp(pow)
    BY <2>2
  <2> HIDE DEF pow
  <2>4. pow[0] = 1 /\ \A i \in 1 .. L : pow[i] = pow[i - 1] ** x
    <3>1. pow[0] = 1
      BY <1>1, <2>3
    <3>2. ASSUME NEW i \in 1 .. L PROVE pow[i] = pow[i - 1] ** x
      <4>1. pow[i] = Mul[<<pow[i - 1], x>>]
        BY <1>1, <1>2, <2>3, ZenonT(40)
      <4> QED BY <4>1 DEF **
    <3> QED BY <3>1, <3>2
  <2>5. pow = [i \in 0 .. L |-> pow[i]]
    BY <1>1, <2>3, SMTT(40)
  <2> HIDE DEF eqp
  <2> DEFINE S == {i \in Nat : pow[i] \in Field}
  <2>6. \A i \in 1 .. L : i - 1 \in S => i \in S
    BY <2>4, InField
  <2>7. 0 \in S
    BY <2>4, InField
  <2> HIDE DEF S
  <2>8. \A i \in 0 .. L : i \in S
    BY <2>6, <2>7, InductionUpTo
  <2>9. pow \in [0 .. L -> Field]
    BY <2>5, <2>8 DEF S
  <2> QED BY <1>4, <2>4, <2>9 DEF Prods
<1> HIDE DEF pow, eqp
<1>6. \A i \in 1 .. L : G[i] = c[i] ** pow[i - 1]
  OBVIOUS
<1>7. \A i \in 1 .. L : G[i] \in Field
  <2>1. \A i \in 1 .. L : c[i] \in Field /\ pow[i - 1] \in Field
    BY <1>2, <1>5 DEF Prods
  <2> QED BY <1>6, <2>1, InField
<1> HIDE DEF G
<1>8. Sums(acc, G, L)
  <2>1. PICK f : Sums(f, G, L)
    BY <1>7, SumsExist
  <2>2. eqa(f)
    <3>1. \A i \in 0 .. L :
            f[i] = IF i = 0 THEN 0 ELSE Add[<<f[i - 1], Mul[<<c[i], pow[i - 1]>>]>>]
      BY <1>3, <1>6, <2>1 DEF Sums, **, ++
    <3>2. f = [i \in 0 .. L |-> f[i]]
      BY <2>1 DEF Sums
    <3> QED BY <1>1, <3>1, <3>2
  <2>3. eqa(acc)
    BY <2>2, ZenonT(40)
  <2> HIDE DEF acc
  <2>4. acc[0] = 0 /\ \A i \in 1 .. L : acc[i] = acc[i - 1] ++ G[i]
    <3>1. acc[0] = 0
      BY <1>1, <2>3
    <3>2. ASSUME NEW i \in 1 .. L PROVE acc[i] = acc[i - 1] ++ G[i]
      <4>1. acc[i] = Add[<<acc[i - 1], Mul[<<c[i], pow[i - 1]>>]>>]
        BY <1>1, <1>2, <2>3
      <4> QED BY <1>6, <4>1 DEF **, ++
    <3> QED BY <3>1, <3>2
  <2>5. acc = [i \in 0 .. L |-> acc[i]]
    BY <1>1, <2>3
  <2> HIDE DEF eqa
  <2> DEFINE S == {i \in Nat : acc[i] \in Field}
  <2>6. \A i \in 1 .. L : i - 1 \in S => i \in S
    BY <1>7, <2>4, InField
  <2>7. 0 \in S
    BY <2>4, InField
  <2> HIDE DEF S
  <2>8. \A i \in 0 .. L : i \in S
    BY <2>6, <2>7, InductionUpTo
  <2>9. acc \in [0 .. L -> Field]
    BY <2>5, <2>8 DEF S
  <2> QED BY <2>4, <2>9 DEF Sums
<1> HIDE DEF acc
<1> QED BY <1>1, <1>5, <1>8 DEF X, G

----------------------------------------------------------------------------
(* Polynomials                                                             *)

\* The coefficients but the first.
Higher(c, L) == [i \in 1 .. L |-> c[i + 1]]

\* A value of a polynomial from that of its higher coefficients.
LEMMA Horner ==
  ASSUME NEW L \in Nat, NEW c \in [1 .. L + 1 -> Field], NEW x \in Field
  PROVE  /\ Higher(c, L) \in [1 .. L -> Field] /\ c[1] \in Field
         /\ gf_eval(c, x) = c[1] ++ (x ** gf_eval(Higher(c, L), x))
<1> DEFINE d == Higher(c, L)
<1>1. d \in [1 .. L -> Field] /\ c[1] \in Field /\ \A i \in 1 .. L : d[i] = c[i + 1]
  BY DEF Higher
<1> HIDE DEF d
<1>2. L + 1 \in Nat
  OBVIOUS
<1>3. PICK pc, ac : /\ Prods(pc, [i \in 1 .. L + 1 |-> x], L + 1)
                    /\ Sums(ac, [i \in 1 .. L + 1 |-> c[i] ** pc[i - 1]], L + 1)
                    /\ gf_eval(c, x) = ac[L + 1]
  BY <1>2, EvalIs
<1>4. PICK pd, ad : /\ Prods(pd, [i \in 1 .. L |-> x], L)
                    /\ Sums(ad, [i \in 1 .. L |-> d[i] ** pd[i - 1]], L)
                    /\ gf_eval(d, x) = ad[L]
  BY <1>1, EvalIs
<1>5. /\ pc[0] = 1 /\ \A i \in 1 .. L + 1 : pc[i] = pc[i - 1] ** x
      /\ \A i \in 0 .. L + 1 : pc[i] \in Field
      /\ ac[0] = 0 /\ \A i \in 1 .. L + 1 : ac[i] = ac[i - 1] ++ (c[i] ** pc[i - 1])
      /\ \A i \in 0 .. L + 1 : ac[i] \in Field
  BY <1>3 DEF Prods, Sums
<1>6. /\ pd[0] = 1 /\ \A i \in 1 .. L : pd[i] = pd[i - 1] ** x
      /\ \A i \in 0 .. L : pd[i] \in Field
      /\ ad[0] = 0 /\ \A i \in 1 .. L : ad[i] = ad[i - 1] ++ (d[i] ** pd[i - 1])
      /\ \A i \in 0 .. L : ad[i] \in Field
  BY <1>4 DEF Prods, Sums
<1> DEFINE S == {i \in Nat : pc[i] = pd[i] /\ ac[i + 1] = c[1] ++ (x ** ad[i])}
<1>7. 0 \in S
  <2>1. 1 \in 1 .. L + 1 /\ 1 - 1 = 0
    OBVIOUS
  <2>2. ac[1] = 0 ++ (c[1] ** 1)
    BY <1>5, <2>1
  <2>3. c[1] ** 1 = c[1] /\ 0 ++ c[1] = c[1] /\ x ** 0 = 0 /\ c[1] ++ 0 = c[1]
    BY <1>1, Units
  <2> QED BY <1>5, <1>6, <2>2, <2>3
<1>8. ASSUME NEW i \in 1 .. L, i - 1 \in S PROVE i \in S
  <2>1. i \in 1 .. L + 1 /\ i + 1 \in 1 .. L + 1 /\ (i + 1) - 1 = i /\ i - 1 \in 0 .. L /\ i \in Nat
    OBVIOUS
  <2>2. pc[i - 1] = pd[i - 1] /\ ac[i] = c[1] ++ (x ** ad[i - 1])
    <3>1. (i - 1) + 1 = i
      OBVIOUS
    <3> QED BY <1>8, <3>1
  <2>3. pc[i] = pc[i - 1] ** x /\ pd[i] = pd[i - 1] ** x
    BY <1>5, <1>6, <2>1
  <2> DEFINE a == ad[i - 1]
             p == pd[i - 1]
             k == c[i + 1]
  <2>4. ac[i + 1] = (c[1] ++ (x ** a)) ++ (k ** (p ** x))
    BY <1>5, <2>1, <2>2, <2>3
  <2>5. ad[i] = a ++ (k ** p)
    BY <1>1, <1>6
  <2>6. a \in Field /\ p \in Field /\ k \in Field
    BY <1>6, <2>1
  <2> HIDE DEF a, p, k
  <2>7. k ** (p ** x) = x ** (k ** p)
    <3>1. (k ** p) ** x = k ** (p ** x) /\ k ** p \in Field
      BY <2>6, MulGroups, InField
    <3> QED BY <3>1, MulCommutes
  <2>8. x ** (a ++ (k ** p)) = (x ** a) ++ (x ** (k ** p))
    BY <2>6, InField, Distributes
  <2>9. x ** a \in Field /\ k ** p \in Field /\ x ** (k ** p) \in Field
    BY <2>6, InField
  <2>10. (c[1] ++ (x ** a)) ++ (x ** (k ** p)) = c[1] ++ ((x ** a) ++ (x ** (k ** p)))
    BY <1>1, <2>9, AddGroups
  <2> QED BY <2>1, <2>2, <2>3, <2>4, <2>5, <2>7, <2>8, <2>10
<1> HIDE DEF S
<1>9. L \in S
  BY <1>7, <1>8, InductionUpTo, SMTT(40)
<1> QED BY <1>1, <1>3, <1>4, <1>9 DEF S, d

LEMMA EvalOfNone == ASSUME NEW c \in [1 .. 0 -> Field], NEW x \in Field PROVE gf_eval(c, x) = 0
<1>1. PICK pow, acc : Sums(acc, [i \in 1 .. 0 |-> c[i] ** pow[i - 1]], 0) /\ gf_eval(c, x) = acc[0]
  BY EvalIs
<1> QED BY <1>1 DEF Sums

\* The functions of the polynomials with m coefficients.
Poly(m) == {[z \in Field |-> gf_eval(d, z)] : d \in [1 .. m -> Field]}

LEMMA PolyIn ==
  ASSUME NEW m \in Nat, NEW p \in Poly(m)
  PROVE  p \in [Field -> Field]
<1>1. PICK d \in [1 .. m -> Field] : p = [z \in Field |-> gf_eval(d, z)]
  BY DEF Poly
<1>2. ASSUME NEW z \in Field PROVE gf_eval(d, z) \in Field
  <2>1. PICK pow, acc : Sums(acc, [i \in 1 .. m |-> d[i] ** pow[i - 1]], m) /\ gf_eval(d, z) = acc[m]
    BY EvalIs
  <2> QED BY <2>1 DEF Sums
<1> QED BY <1>1, <1>2

\* A polynomial is its constant term plus z times another one.
LEMMA PolyNone ==
  ASSUME NEW p \in [Field -> Field]
  PROVE  p \in Poly(0) <=> \A z \in Field : p[z] = 0
<1>1. ASSUME p \in Poly(0), NEW z \in Field PROVE p[z] = 0
  BY <1>1, EvalOfNone DEF Poly
<1>2. ASSUME \A z \in Field : p[z] = 0 PROVE p \in Poly(0)
  <2> DEFINE c == [i \in 1 .. 0 |-> 0]
  <2>1. c \in [1 .. 0 -> Field]
    OBVIOUS
  <2> HIDE DEF c
  <2>2. \A z \in Field : gf_eval(c, z) = 0
    BY <2>1, EvalOfNone
  <2>3. p = [z \in Field |-> gf_eval(c, z)]
    BY <1>2, <2>2
  <2> QED BY <2>1, <2>3 DEF Poly
<1> QED BY <1>1, <1>2

\* A polynomial is its constant term and z times a shorter one.
LEMMA PolyDown ==
  ASSUME NEW m \in Nat, NEW p \in Poly(m + 1)
  PROVE  \E c \in Field, q \in Poly(m) : \A z \in Field : p[z] = c ++ (z ** q[z])
<1>1. PICK d \in [1 .. m + 1 -> Field] : p = [z \in Field |-> gf_eval(d, z)]
  BY DEF Poly
<1> DEFINE e == Higher(d, m)
           q == [z \in Field |-> gf_eval(e, z)]
<1>2. 0 \in Field
  BY InField
<1>3. e \in [1 .. m -> Field] /\ d[1] \in Field
      /\ \A z \in Field : gf_eval(d, z) = d[1] ++ (z ** gf_eval(e, z))
  BY <1>2, Horner
<1> HIDE DEF e
<1>4. q \in Poly(m)
  BY <1>3 DEF Poly
<1>5. \A z \in Field : p[z] = d[1] ++ (z ** q[z])
  BY <1>1, <1>3
<1> QED BY <1>3, <1>4, <1>5

\* The converse: such a function is a polynomial.
LEMMA PolyUp ==
  ASSUME NEW m \in Nat, NEW p \in [Field -> Field], NEW c \in Field, NEW q \in Poly(m),
         \A z \in Field : p[z] = c ++ (z ** q[z])
  PROVE  p \in Poly(m + 1)
<1>1. PICK e \in [1 .. m -> Field] : q = [z \in Field |-> gf_eval(e, z)]
  BY DEF Poly
<1> DEFINE d == [i \in 1 .. m + 1 |-> IF i = 1 THEN c ELSE e[i - 1]]
<1>2. d \in [1 .. m + 1 -> Field] /\ d[1] = c
  OBVIOUS
<1>3. Higher(d, m) = e
  <2>1. \A i \in 1 .. m : d[i + 1] = e[i]
    OBVIOUS
  <2> HIDE DEF d
  <2> QED BY <1>2, <2>1 DEF Higher
<1> HIDE DEF d
<1>4. \A z \in Field : gf_eval(d, z) = c ++ (z ** gf_eval(e, z))
  BY <1>2, <1>3, Horner
<1>5. p = [z \in Field |-> gf_eval(d, z)]
  BY <1>1, <1>4
<1> QED BY <1>2, <1>5 DEF Poly

\* Polynomials are closed under sums, constant factors and more coefficients.
LEMMA PolyAdds ==
  ASSUME NEW m \in Nat, NEW p \in Poly(m), NEW q \in Poly(m)
  PROVE  [z \in Field |-> p[z] ++ q[z]] \in Poly(m)
<1> DEFINE Sum(f, g) == [z \in Field |-> f[z] ++ g[z]]
           S == {k \in Nat : \A f, g \in Poly(k) : Sum(f, g) \in Poly(k)}
<1>1. 0 \in S
  <2>1. ASSUME NEW f \in Poly(0), NEW g \in Poly(0) PROVE Sum(f, g) \in Poly(0)
    <3>1. f \in [Field -> Field] /\ g \in [Field -> Field]
      BY PolyIn
    <3>2. \A z \in Field : f[z] = 0 /\ g[z] = 0
      BY <3>1, PolyNone
    <3>3. 0 ++ 0 = 0 /\ 0 \in Field
      BY InField, Units
    <3>4. Sum(f, g) \in [Field -> Field] /\ \A z \in Field : Sum(f, g)[z] = 0
      BY <3>2, <3>3
    <3> QED BY <3>4, PolyNone
  <2> QED BY <2>1
<1>2. ASSUME NEW k \in Nat, k \in S PROVE k + 1 \in S
  <2>1. SUFFICES ASSUME NEW f \in Poly(k + 1), NEW g \in Poly(k + 1)
                 PROVE  Sum(f, g) \in Poly(k + 1)
    OBVIOUS
  <2>2. PICK a \in Field, f1 \in Poly(k) : \A z \in Field : f[z] = a ++ (z ** f1[z])
    BY PolyDown
  <2>3. PICK b \in Field, g1 \in Poly(k) : \A z \in Field : g[z] = b ++ (z ** g1[z])
    BY PolyDown
  <2>4. Sum(f1, g1) \in Poly(k)
    BY <1>2
  <2>5. f1 \in [Field -> Field] /\ g1 \in [Field -> Field]
    BY PolyIn
  <2>6. f \in [Field -> Field] /\ g \in [Field -> Field]
    BY PolyIn
  <2>7. a ++ b \in Field /\ Sum(f, g) \in [Field -> Field]
    BY <2>6, InField
  <2>8. ASSUME NEW z \in Field PROVE Sum(f, g)[z] = (a ++ b) ++ (z ** Sum(f1, g1)[z])
    <3>1. f1[z] \in Field /\ g1[z] \in Field
      BY <2>5
    <3>2. z ** f1[z] \in Field /\ z ** g1[z] \in Field
      BY <3>1, InField
    <3>3. z ** (f1[z] ++ g1[z]) = (z ** f1[z]) ++ (z ** g1[z])
      BY <3>1, Distributes
    <3>4. (a ++ (z ** f1[z])) ++ (b ++ (z ** g1[z])) = (a ++ b) ++ ((z ** f1[z]) ++ (z ** g1[z]))
      BY <3>2, Regroup
    <3> QED BY <2>2, <2>3, <3>3, <3>4
  <2> HIDE DEF Sum
  <2> QED BY <2>4, <2>7, <2>8, PolyUp
<1> HIDE DEF S
<1>3. m \in S
  BY <1>1, <1>2, Induction
<1> QED BY <1>3 DEF S

LEMMA PolyScales ==
  ASSUME NEW m \in Nat, NEW p \in Poly(m), NEW r \in Field
  PROVE  [z \in Field |-> r ** p[z]] \in Poly(m)
<1> DEFINE Scale(f) == [z \in Field |-> r ** f[z]]
           S == {k \in Nat : \A f \in Poly(k) : Scale(f) \in Poly(k)}
<1>1. 0 \in S
  <2>1. ASSUME NEW f \in Poly(0) PROVE Scale(f) \in Poly(0)
    <3>1. f \in [Field -> Field]
      BY PolyIn
    <3>2. \A z \in Field : f[z] = 0
      BY <3>1, PolyNone
    <3>3. r ** 0 = 0 /\ 0 \in Field
      BY InField, Units
    <3>4. Scale(f) \in [Field -> Field] /\ \A z \in Field : Scale(f)[z] = 0
      BY <3>2, <3>3
    <3> QED BY <3>4, PolyNone
  <2> QED BY <2>1
<1>2. ASSUME NEW k \in Nat, k \in S PROVE k + 1 \in S
  <2>1. SUFFICES ASSUME NEW f \in Poly(k + 1) PROVE Scale(f) \in Poly(k + 1)
    OBVIOUS
  <2>2. PICK a \in Field, f1 \in Poly(k) : \A z \in Field : f[z] = a ++ (z ** f1[z])
    BY PolyDown
  <2>3. Scale(f1) \in Poly(k)
    BY <1>2
  <2>4. f1 \in [Field -> Field] /\ f \in [Field -> Field]
    BY PolyIn
  <2>5. r ** a \in Field /\ Scale(f) \in [Field -> Field]
    BY <2>4, InField
  <2>6. ASSUME NEW z \in Field PROVE Scale(f)[z] = (r ** a) ++ (z ** Scale(f1)[z])
    <3>1. f1[z] \in Field /\ z ** f1[z] \in Field
      BY <2>4, InField
    <3>2. r ** (a ++ (z ** f1[z])) = (r ** a) ++ (r ** (z ** f1[z]))
      BY <3>1, Distributes
    <3>3. r ** (z ** f1[z]) = z ** (r ** f1[z])
      <4>1. (r ** z) ** f1[z] = r ** (z ** f1[z]) /\ (z ** r) ** f1[z] = z ** (r ** f1[z])
        BY <3>1, MulGroups
      <4> QED BY <4>1, MulCommutes
    <3> QED BY <2>2, <3>2, <3>3
  <2> HIDE DEF Scale
  <2> QED BY <2>3, <2>5, <2>6, PolyUp
<1> HIDE DEF S
<1>3. m \in S
  BY <1>1, <1>2, Induction
<1> QED BY <1>3 DEF S

LEMMA PolyWidens ==
  ASSUME NEW m \in Nat, NEW p \in Poly(m)
  PROVE  p \in Poly(m + 1)
<1> DEFINE S == {k \in Nat : \A f \in Poly(k) : f \in Poly(k + 1)}
<1>1. 0 \in S
  <2>1. ASSUME NEW f \in Poly(0) PROVE f \in Poly(0 + 1)
    <3>1. f \in [Field -> Field]
      BY PolyIn
    <3>2. \A z \in Field : f[z] = 0
      BY <3>1, PolyNone
    <3>3. 0 \in Field /\ \A z \in Field : z ** 0 = 0 /\ 0 ++ 0 = 0
      BY InField, Units
    <3>4. \A z \in Field : f[z] = 0 ++ (z ** f[z])
      BY <3>2, <3>3
    <3> QED BY <3>1, <3>3, <3>4, PolyUp
  <2> QED BY <2>1
<1>2. ASSUME NEW k \in Nat, k \in S PROVE k + 1 \in S
  <2>1. SUFFICES ASSUME NEW f \in Poly(k + 1) PROVE f \in Poly((k + 1) + 1)
    OBVIOUS
  <2>2. PICK a \in Field, f1 \in Poly(k) : \A z \in Field : f[z] = a ++ (z ** f1[z])
    BY PolyDown
  <2>3. f1 \in Poly(k + 1) /\ k + 1 \in Nat
    BY <1>2
  <2>4. f \in [Field -> Field]
    BY PolyIn
  <2> QED BY <2>2, <2>3, <2>4, PolyUp
<1> HIDE DEF S
<1>3. m \in S
  BY <1>1, <1>2, Induction
<1> QED BY <1>3 DEF S

LEMMA PolyGrows ==
  ASSUME NEW m \in Nat, NEW L \in Nat, m <= L, NEW p \in Poly(m)
  PROVE  p \in Poly(L)
<1> DEFINE S == {k \in Nat : p \in Poly(m + k)}
<1>1. 0 \in S
  OBVIOUS
<1>2. ASSUME NEW k \in Nat, k \in S PROVE k + 1 \in S
  <2>1. p \in Poly(m + k) /\ m + k \in Nat /\ (m + k) + 1 = m + (k + 1)
    BY <1>2
  <2>2. p \in Poly((m + k) + 1)
    BY <2>1, PolyWidens
  <2> QED BY <2>1, <2>2
<1> HIDE DEF S
<1>3. L - m \in S
  BY <1>1, <1>2, Induction
<1>4. m + (L - m) = L
  OBVIOUS
<1> QED BY <1>3, <1>4 DEF S

\* A polynomial times a linear one.
LEMMA PolyTimes ==
  ASSUME NEW m \in Nat, NEW p \in Poly(m), NEW r \in Field
  PROVE  [z \in Field |-> (z ++ r) ** p[z]] \in Poly(m + 1)
<1> DEFINE a == [z \in Field |-> z ** p[z]]
           b == [z \in Field |-> r ** p[z]]
<1>1. p \in [Field -> Field] /\ 0 \in Field /\ m + 1 \in Nat
  BY PolyIn, InField
<1>2. a \in [Field -> Field]
  BY <1>1, InField
<1>3. \A z \in Field : a[z] = 0 ++ (z ** p[z])
  <2>1. \A z \in Field : z ** p[z] \in Field
    BY <1>1, InField
  <2> QED BY <2>1, Units
<1>4. a \in Poly(m + 1)
  BY <1>1, <1>2, <1>3, PolyUp
<1>5. b \in Poly(m + 1)
  BY PolyScales, PolyWidens
<1>6. [z \in Field |-> a[z] ++ b[z]] \in Poly(m + 1)
  BY <1>1, <1>4, <1>5, PolyAdds
<1>7. \A z \in Field : (z ++ r) ** p[z] = a[z] ++ b[z]
  BY <1>1, Distributes
<1>8. [z \in Field |-> (z ++ r) ** p[z]] = [z \in Field |-> a[z] ++ b[z]]
  BY <1>7
<1> QED BY <1>6, <1>8

\* A linear factor for every root.
LEMMA PolyFactors ==
  ASSUME NEW m \in Nat, NEW p \in Poly(m + 1), NEW r \in Field
  PROVE  \E s \in Poly(m) : \A z \in Field : p[z] = p[r] ++ ((z ++ r) ** s[z])
<1> DEFINE Splits(k) == \A f \in Poly(k + 1) : \E s \in Poly(k) :
                          \A z \in Field : f[z] = f[r] ++ ((z ++ r) ** s[z])
           S == {k \in Nat : Splits(k)}
<1>1. 0 \in S
  <2>1. ASSUME NEW f \in Poly(0 + 1)
        PROVE  \E s \in Poly(0) : \A z \in Field : f[z] = f[r] ++ ((z ++ r) ** s[z])
    <3>1. PICK a \in Field, s \in Poly(0) : \A z \in Field : f[z] = a ++ (z ** s[z])
      BY PolyDown
    <3>2. s \in [Field -> Field]
      BY PolyIn
    <3>3. \A z \in Field : s[z] = 0
      BY <3>2, PolyNone
    <3>4. \A z \in Field : z ** 0 = 0 /\ a ++ 0 = a /\ z ++ r \in Field
      BY Units, InField
    <3>5. \A z \in Field : f[z] = a
      BY <3>1, <3>3, <3>4
    <3>6. \A z \in Field : f[z] = f[r] ++ ((z ++ r) ** s[z])
      BY <3>3, <3>4, <3>5
    <3> QED BY <3>6
  <2> QED BY <2>1
<1>2. ASSUME NEW k \in Nat, k \in S PROVE k + 1 \in S
  <2>1. SUFFICES ASSUME NEW f \in Poly((k + 1) + 1)
                 PROVE  \E s \in Poly(k + 1) : \A z \in Field : f[z] = f[r] ++ ((z ++ r) ** s[z])
    OBVIOUS
  <2>2. PICK a \in Field, q \in Poly(k + 1) : \A z \in Field : f[z] = a ++ (z ** q[z])
    BY PolyDown
  <2>3. PICK s \in Poly(k) : \A z \in Field : q[z] = q[r] ++ ((z ++ r) ** s[z])
    BY <1>2
  <2>4. s \in [Field -> Field] /\ q \in [Field -> Field]
    BY PolyIn
  <2> DEFINE c == q[r]
             u == [z \in Field |-> c ++ (z ** s[z])]
  <2>5. c \in Field
    BY <2>4
  <2> HIDE DEF c
  <2>6. u \in [Field -> Field] /\ \A z \in Field : u[z] = c ++ (z ** s[z])
    BY <2>4, <2>5, InField
  <2> HIDE DEF u
  <2>7. u \in Poly(k + 1)
    BY <2>5, <2>6, PolyUp
  <2>8. ASSUME NEW z \in Field PROVE f[z] = f[r] ++ ((z ++ r) ** u[z])
    <3> DEFINE w == s[z]
               v == z ++ r
    <3>1. w \in Field /\ v \in Field /\ q[z] = c ++ (v ** w) /\ f[r] = a ++ (r ** c)
      BY <2>2, <2>3, <2>4, InField DEF c
    <3>2. f[z] = a ++ (z ** (c ++ (v ** w))) /\ u[z] = c ++ (z ** w)
      BY <2>2, <2>6, <3>1
    <3>3. z = r ++ v
      <4>1. (z ++ r) ++ r = z /\ (z ++ r) ++ r = r ++ (z ++ r)
        BY Cancels, AddCommutes, InField
      <4> QED BY <4>1, ZenonT(40)
    <3> HIDE DEF w, v
    <3> DEFINE rc == r ** c
               vc == v ** c
               vzw == v ** (z ** w)
    <3>4. z ** (c ++ (v ** w)) = (z ** c) ++ (z ** (v ** w))
      BY <2>5, <3>1, InField, Distributes
    <3>5. z ** c = rc ++ vc
      BY <2>5, <3>1, <3>3, Distributes
    <3>6. z ** (v ** w) = vzw
      <4>1. (z ** v) ** w = z ** (v ** w) /\ (v ** z) ** w = v ** (z ** w)
        BY <3>1, MulGroups
      <4> QED BY <3>1, <4>1, MulCommutes
    <3>7. v ** (c ++ (z ** w)) = vc ++ vzw
      BY <2>5, <3>1, InField, Distributes
    <3>8. rc \in Field /\ vc \in Field /\ vzw \in Field
      BY <2>5, <3>1, InField
    <3>9. f[r] = a ++ rc /\ (z ++ r) ** u[z] = v ** (c ++ (z ** w))
      BY <3>1, <3>2 DEF v
    <3> HIDE DEF rc, vc, vzw
    <3>10. a ++ ((rc ++ vc) ++ vzw) = (a ++ rc) ++ (vc ++ vzw)
      <4>1. (rc ++ vc) ++ vzw = rc ++ (vc ++ vzw) /\ vc ++ vzw \in Field
        BY <3>8, AddGroups, InField
      <4> QED BY <3>8, <4>1, AddGroups
    <3> QED BY <3>2, <3>4, <3>5, <3>6, <3>7, <3>9, <3>10
  <2> QED BY <2>7, <2>8
<1> HIDE DEF S
<1>3. m \in S
  BY <1>1, <1>2, Induction
<1> QED BY <1>3 DEF S

\* A polynomial with m coefficients and m roots is zero.
LEMMA PolyRoots ==
  ASSUME NEW m \in Nat, NEW p \in Poly(m), NEW R \in SUBSET Field, IsFiniteSet(R),
         Cardinality(R) = m, \A r \in R : p[r] = 0
  PROVE  \A z \in Field : p[z] = 0
<1> DEFINE Vanishes(k) ==
             \A f \in Poly(k) : \A T \in SUBSET Field :
               IsFiniteSet(T) /\ Cardinality(T) = k /\ (\A r \in T : f[r] = 0)
                 => \A z \in Field : f[z] = 0
           S == {k \in Nat : Vanishes(k)}
<1>1. 0 \in S
  <2>1. \A f \in Poly(0) : f \in [Field -> Field]
    BY PolyIn
  <2> QED BY <2>1, PolyNone
<1>2. ASSUME NEW k \in Nat, k \in S PROVE k + 1 \in S
  <2>1. SUFFICES ASSUME NEW f \in Poly(k + 1), NEW T \in SUBSET Field, IsFiniteSet(T),
                        Cardinality(T) = k + 1, \A r \in T : f[r] = 0, NEW z \in Field
                 PROVE  f[z] = 0
    OBVIOUS
  <2>2. T # {}
    BY <2>1, FS_EmptySet
  <2>3. PICK r \in T : TRUE
    BY <2>2
  <2>4. PICK s \in Poly(k) : \A y \in Field : f[y] = f[r] ++ ((y ++ r) ** s[y])
    BY PolyFactors
  <2>5. s \in [Field -> Field] /\ f[r] = 0
    BY <2>1, PolyIn
  <2>6. \A y \in Field : f[y] = (y ++ r) ** s[y] /\ y ++ r \in Field /\ s[y] \in Field
    BY <2>4, <2>5, InField, Units
  <2>7. IsFiniteSet(T \ {r}) /\ Cardinality(T \ {r}) = k /\ T \ {r} \in SUBSET Field
    <3>1. IsFiniteSet(T \ {r}) /\ Cardinality(T \ {r}) = Cardinality(T) - 1
      BY <2>1, FS_RemoveElement
    <3> QED BY <2>1, <3>1
  <2>8. ASSUME NEW y \in T \ {r} PROVE s[y] = 0
    <3>1. f[y] = 0 /\ y \in Field /\ y # r
      BY <2>1
    <3>2. y ++ r # 0
      BY <3>1, Cancels
    <3> QED BY <2>6, <3>1, <3>2, NoDivisors
  <2>9. \A y \in Field : s[y] = 0
    BY <1>2, <2>7, <2>8
  <2> QED BY <2>6, <2>9, Units
<1> HIDE DEF S
<1>3. m \in S
  BY <1>1, <1>2, Induction
<1> QED BY <1>3 DEF S

\* Two polynomials with m coefficients that agree at m points are one function.
LEMMA PolySame ==
  ASSUME NEW m \in Nat, NEW p \in Poly(m), NEW q \in Poly(m), NEW R \in SUBSET Field,
         IsFiniteSet(R), Cardinality(R) = m, \A r \in R : p[r] = q[r]
  PROVE  \A z \in Field : p[z] = q[z]
<1> DEFINE u == [z \in Field |-> p[z] ++ q[z]]
<1>1. p \in [Field -> Field] /\ q \in [Field -> Field]
  BY PolyIn
<1>2. u \in Poly(m)
  BY PolyAdds
<1>3. \A z \in Field : u[z] = p[z] ++ q[z]
  OBVIOUS
<1> HIDE DEF u
<1>4. \A r \in R : u[r] = 0
  BY <1>1, <1>3, Units
<1>5. \A z \in Field : u[z] = 0
  BY <1>2, <1>4, PolyRoots
<1> QED BY <1>1, <1>3, <1>5, Cancels

\* A function is the polynomial of one list of coefficients only.
LEMMA OneList ==
  ASSUME NEW L \in Nat, L <= 2 ^ Bits, NEW c \in [1 .. L -> Field], NEW d \in [1 .. L -> Field],
         \A z \in Field : gf_eval(c, z) = gf_eval(d, z)
  PROVE  c = d
<1> DEFINE Q == 2 ^ Bits
           One(k) == \A e, f \in [1 .. k -> Field] :
                       (\A z \in Field : gf_eval(e, z) = gf_eval(f, z))
                         => \A i \in 1 .. k : e[i] = f[i]
           S == {k \in Nat : k <= Q => One(k)}
<1>1. Q \in Nat /\ Nonzero = 1 .. Q - 1 /\ Nonzero = Field \ {0} /\ 0 \in Field
  BY NonzeroIs, Sizes DEF Nonzero
<1> HIDE DEF Q
<1>2. 0 \in S
  OBVIOUS
<1>3. ASSUME NEW k \in Nat, k \in S PROVE k + 1 \in S
  <2>1. SUFFICES ASSUME k + 1 <= Q, NEW e \in [1 .. k + 1 -> Field], NEW f \in [1 .. k + 1 -> Field],
                        \A z \in Field : gf_eval(e, z) = gf_eval(f, z), NEW i \in 1 .. k + 1
                 PROVE  e[i] = f[i]
    BY SMTT(40)
  <2> DEFINE r == Higher(e, k)
             s == Higher(f, k)
             p == [z \in Field |-> gf_eval(r, z)]
             q == [z \in Field |-> gf_eval(s, z)]
  <2>2. /\ r \in [1 .. k -> Field] /\ e[1] \in Field
        /\ \A z \in Field : gf_eval(e, z) = e[1] ++ (z ** gf_eval(r, z))
    BY <1>1, Horner
  <2>3. /\ s \in [1 .. k -> Field] /\ f[1] \in Field
        /\ \A z \in Field : gf_eval(f, z) = f[1] ++ (z ** gf_eval(s, z))
    BY <1>1, Horner
  <2>4. \A j \in 1 .. k : r[j] = e[j + 1] /\ s[j] = f[j + 1]
    BY DEF Higher
  <2> HIDE DEF r, s
  <2>5. /\ p \in Poly(k) /\ \A z \in Field : p[z] = gf_eval(r, z)
        /\ q \in Poly(k) /\ \A z \in Field : q[z] = gf_eval(s, z)
    BY <2>2, <2>3 DEF Poly
  <2> HIDE DEF p, q
  <2>6. p \in [Field -> Field] /\ q \in [Field -> Field]
    BY <2>5, PolyIn
  <2>7. \A z \in Field : e[1] ++ (z ** p[z]) = f[1] ++ (z ** q[z])
    BY <2>1, <2>2, <2>3, <2>5
  <2>8. e[1] = f[1]
    <3>1. 0 ** p[0] = 0 /\ 0 ** q[0] = 0 /\ e[1] ++ 0 = e[1] /\ f[1] ++ 0 = f[1]
      BY <1>1, <2>2, <2>3, <2>6, Units
    <3>2. e[1] ++ (0 ** p[0]) = f[1] ++ (0 ** q[0])
      BY <1>1, <2>7
    <3> QED BY <3>1, <3>2
  <2>9. ASSUME NEW z \in Field, z # 0 PROVE p[z] = q[z]
    <3>1. p[z] \in Field /\ q[z] \in Field /\ z ** p[z] \in Field /\ z ** q[z] \in Field
      BY <2>6, InField
    <3>2. e[1] ++ (z ** p[z]) = e[1] ++ (z ** q[z])
      BY <2>7, <2>8
    <3>3. z ** p[z] = z ** q[z]
      BY <2>2, <3>1, <3>2, Cancels
    <3>4. p[z] ** z = q[z] ** z
      BY <3>1, <3>3, MulCommutes
    <3> QED BY <2>9, <3>1, <3>4, Cancels
  <2>10. 1 .. k \subseteq Field \ {0}
    <3>1. \A j \in 1 .. k : j \in 1 .. Q - 1
      BY <1>1, <2>1
    <3> QED BY <1>1, <3>1
  <2>11. IsFiniteSet(1 .. k) /\ Cardinality(1 .. k) = k
    <3>1. IsFiniteSet(1 .. k) /\ Cardinality(1 .. k) = IF 1 > k THEN 0 ELSE k - 1 + 1
      BY FS_Interval, 1 \in Int, k \in Int
    <3> QED BY <3>1
  <2>12. 1 .. k \in SUBSET Field /\ \A j \in 1 .. k : p[j] = q[j]
    BY <2>9, <2>10
  <2>13. \A z \in Field : p[z] = q[z]
    BY <2>5, <2>11, <2>12, PolySame
  <2>14. One(k)
    <3>1. k <= Q
      BY <1>1, <2>1
    <3> QED BY <1>3, <3>1
  <2>15. \A j \in 1 .. k : r[j] = s[j]
    <3>1. \A z \in Field : gf_eval(r, z) = gf_eval(s, z)
      BY <2>5, <2>13
    <3>2. r \in [1 .. k -> Field] /\ s \in [1 .. k -> Field]
      BY <2>2, <2>3
    <3> QED BY <2>14, <3>1, <3>2
  <2>16. i = 1 \/ (i - 1 \in 1 .. k /\ (i - 1) + 1 = i)
    OBVIOUS
  <2> QED BY <2>4, <2>8, <2>15, <2>16, SMTT(40)
<1> HIDE DEF S
<1>4. L \in S
  BY <1>2, <1>3, Induction
<1>5. \A i \in 1 .. L : c[i] = d[i]
  BY <1>4 DEF S, Q
<1> QED BY <1>5

\* The product of linear factors.
LEMMA PolyProduct ==
  ASSUME NEW L \in Nat, NEW s \in [1 .. L -> Field]
  PROVE  [z \in Field |-> Product([j \in 1 .. L |-> z ++ s[j]])] \in Poly(L + 1)
<1> DEFINE Factors(z) == [j \in 1 .. L |-> z ++ s[j]]
           P == [z \in Field |-> CHOOSE f : Prods(f, Factors(z), L)]
           F(k) == [z \in Field |-> P[z][k]]
<1>1. ASSUME NEW z \in Field
      PROVE  /\ Factors(z) \in [1 .. L -> Field] /\ \A j \in 1 .. L : Factors(z)[j] = z ++ s[j]
             /\ Prods(P[z], Factors(z), L) /\ Product(Factors(z)) = P[z][L]
  <2>1. Factors(z) \in [1 .. L -> Field] /\ \A j \in 1 .. L : Factors(z)[j] = z ++ s[j]
    BY InField
  <2> HIDE DEF Factors
  <2>2. PICK f : Prods(f, Factors(z), L) /\ Product(Factors(z)) = f[L]
    BY <2>1, ProductIs
  <2>3. Prods(P[z], Factors(z), L)
    BY <2>2
  <2> HIDE DEF P
  <2>4. \A i \in 0 .. L : f[i] = P[z][i]
    BY <2>2, <2>3, ProdsSame
  <2> QED BY <2>1, <2>2, <2>3, <2>4
<1> HIDE DEF P, Factors
<1>2. \A z \in Field : /\ P[z] \in [0 .. L -> Field] /\ P[z][0] = 1
                       /\ \A k \in 1 .. L : P[z][k] = P[z][k - 1] ** (z ++ s[k])
  BY <1>1 DEF Prods
<1> DEFINE S == {k \in Nat : F(k) \in Poly(k + 1)}
<1>3. 0 \in S
  <2> DEFINE o == [z \in Field |-> 0]
  <2>1. 0 \in Field /\ 1 \in Field
    BY InField
  <2>2. o \in Poly(0)
    BY <2>1, PolyNone
  <2>3. \A z \in Field : z ** 0 = 0 /\ 1 ++ 0 = 1
    BY <2>1, Units
  <2>4. F(0) \in [Field -> Field] /\ \A z \in Field : F(0)[z] = 1 ++ (z ** o[z])
    BY <1>2, <2>1, <2>3
  <2> HIDE DEF o, F
  <2>5. F(0) \in Poly(0 + 1)
    BY <2>1, <2>2, <2>4, PolyUp
  <2> QED BY <2>5
<1>4. ASSUME NEW k \in 1 .. L, k - 1 \in S PROVE k \in S
  <2>1. F(k - 1) \in Poly(k) /\ s[k] \in Field /\ k - 1 \in 0 .. L /\ k \in Nat /\ (k - 1) + 1 = k
    BY <1>4
  <2>2. [z \in Field |-> (z ++ s[k]) ** F(k - 1)[z]] \in Poly(k + 1)
    BY <2>1, PolyTimes
  <2>3. ASSUME NEW z \in Field PROVE P[z][k] = (z ++ s[k]) ** F(k - 1)[z]
    <3>1. P[z][k] = P[z][k - 1] ** (z ++ s[k]) /\ P[z][k - 1] \in Field /\ z ++ s[k] \in Field
      BY <1>2, <2>1, InField
    <3>2. F(k - 1)[z] = P[z][k - 1]
      OBVIOUS
    <3> QED BY <3>1, <3>2, MulCommutes
  <2>4. F(k) = [z \in Field |-> (z ++ s[k]) ** F(k - 1)[z]]
    BY <2>3
  <2> QED BY <2>1, <2>2, <2>4
<1> HIDE DEF S
<1>5. L \in S
  BY <1>3, <1>4, InductionUpTo
<1>6. F(L) = [z \in Field |-> Product(Factors(z))]
  BY <1>1
<1>7. F(L) \in Poly(L + 1)
  BY <1>5 DEF S
<1> QED BY <1>6, <1>7 DEF Factors

\* RemoveAt leaves the other elements in their order.
LEMMA RemovedAre ==
  ASSUME NEW L \in Nat, NEW s \in [1 .. L -> Field], NEW i \in 1 .. L
  PROVE  /\ RemoveAt(s, i) \in [1 .. L - 1 -> Field]
         /\ \A j \in 1 .. L - 1 : RemoveAt(s, i)[j] = IF j < i THEN s[j] ELSE s[j + 1]
<1>1. Len(s) = L /\ s \in Seq(Field)
  OBVIOUS
<1> DEFINE a == SubSeq(s, 1, i - 1)
           b == SubSeq(s, i + 1, L)
<1>2. a \in Seq(Field) /\ Len(a) = i - 1 /\ \A j \in 1 .. i - 1 : a[j] = s[j]
  BY <1>1, SubSeqProperties
<1>3. b \in Seq(Field) /\ Len(b) = L - i /\ \A j \in 1 .. L - i : b[j] = s[i + j]
  BY <1>1, SubSeqProperties
<1>4. RemoveAt(s, i) = a \o b
  BY <1>1 DEF RemoveAt
<1> HIDE DEF a, b
<1>5. a \o b \in Seq(Field) /\ Len(a \o b) = L - 1
  <2>1. a \o b \in Seq(Field)
    BY <1>2, <1>3
  <2>2. Len(a \o b) = Len(a) + Len(b)
    BY <1>2, <1>3, ConcatProperties
  <2> QED BY <1>2, <1>3, <2>1, <2>2
<1>6. ASSUME NEW j \in 1 .. L - 1 PROVE (a \o b)[j] = IF j < i THEN s[j] ELSE s[j + 1]
  <2>1. (a \o b)[j] = IF j <= Len(a) THEN a[j] ELSE b[j - Len(a)]
    BY <1>2, <1>3
  <2>2. CASE j < i
    BY <1>2, <2>1, <2>2
  <2>3. CASE ~(j < i)
    <3>1. j - (i - 1) \in 1 .. L - i /\ i + (j - (i - 1)) = j + 1 /\ ~(j <= i - 1)
      BY <2>3
    <3> QED BY <1>2, <1>3, <2>1, <2>3, <3>1
  <2> QED BY <2>2, <2>3
<1>7. a \o b \in [1 .. L - 1 -> Field]
  BY <1>5, LenProperties
<1> QED BY <1>4, <1>6, <1>7

\* Different points.
Points(s, m) ==
  /\ m \in Nat /\ s \in [1 .. m -> Field]
  /\ \A j, k \in 1 .. m : s[j] = s[k] => j = k

\* b is the Lagrange basis polynomial of the i-th point.
IsBasis(b, s, m, i) ==
  /\ b \in Poly(m) /\ b[s[i]] = 1 /\ \A k \in 1 .. m : k # i => b[s[k]] = 0
  /\ b[0] = Basis(s, i) /\ b[0] \in Field

\* The basis polynomial of each point exists: the factors of the others over their value.
LEMMA BasisIs ==
  ASSUME NEW m, NEW s, Points(s, m), NEW i \in 1 .. m
  PROVE  \E b : IsBasis(b, s, m, i)
<1> DEFINE L == m - 1
           o == RemoveAt(s, i)
           A == [z \in Field |-> Product([j \in 1 .. L |-> z ++ o[j]])]
<1>1. m \in Nat /\ L \in Nat /\ L + 1 = m /\ s \in [1 .. m -> Field] /\ s[i] \in Field
      /\ \A j, k \in 1 .. m : s[j] = s[k] => j = k
  BY DEF Points
<1>2. /\ o \in [1 .. L -> Field] /\ \A j \in 1 .. L : o[j] = IF j < i THEN s[j] ELSE s[j + 1]
  <2>1. m \in Nat /\ s \in [1 .. m -> Field]
    BY <1>1
  <2> HIDE DEF L
  <2>2. /\ RemoveAt(s, i) \in [1 .. m - 1 -> Field]
        /\ \A j \in 1 .. m - 1 : RemoveAt(s, i)[j] = IF j < i THEN s[j] ELSE s[j + 1]
    BY <2>1, RemovedAre
  <2> QED BY <2>2 DEF L
<1> HIDE DEF o
<1>3. \A z \in Field : A[z] = Product([j \in 1 .. L |-> z ++ o[j]])
  OBVIOUS
<1>4. A \in Poly(m)
  BY <1>1, <1>2, PolyProduct
<1> HIDE DEF A, L
<1>5. A \in [Field -> Field]
  BY <1>1, <1>4, PolyIn
<1>6. ASSUME NEW z \in Field PROVE A[z] = 0 <=> \E j \in 1 .. L : z = o[j]
  <2> DEFINE f == [j \in 1 .. L |-> z ++ o[j]]
  <2>1. f \in [1 .. L -> Field] /\ \A j \in 1 .. L : f[j] = z ++ o[j] /\ f[j] \in Field
    BY <1>2, InField
  <2>2. A[z] = Product(f)
    BY <1>3
  <2> HIDE DEF f
  <2>3. PICK p : Prods(p, f, L) /\ Product(f) = p[L]
    BY <1>1, <2>1, ProductIs
  <2>4. A[z] = 0 <=> \E j \in 1 .. L : f[j] = 0
    BY <1>1, <2>1, <2>2, <2>3, ProdsZero
  <2>5. \A j \in 1 .. L : o[j] \in Field /\ (z ++ o[j] = 0 <=> z = o[j])
    BY <1>2, Cancels, Units
  <2> QED BY <2>1, <2>4, <2>5
<1> DEFINE D == A[s[i]]
           g == gf_inv(D)
<1>7. D \in Field /\ D # 0
  <2>1. ASSUME NEW j \in 1 .. L PROVE o[j] # s[i]
    <3>1. /\ j \in 1 .. m /\ j + 1 \in 1 .. m
          /\ j < i => j # i
          /\ ~(j < i) => j + 1 # i
      BY <1>1
    <3> QED BY <1>1, <1>2, <3>1
  <2> QED BY <1>1, <1>5, <1>6, <2>1
<1>8. ASSUME NEW k \in 1 .. m, k # i PROVE A[s[k]] = 0
  <2>1. \E j \in 1 .. L : s[k] = o[j]
    <3>1. CASE k < i
      <4>1. k \in 1 .. L
        BY <1>1, <3>1
      <4> QED BY <1>2, <3>1, <4>1
    <3>2. CASE ~(k < i)
      <4>1. k - 1 \in 1 .. L /\ ~(k - 1 < i) /\ (k - 1) + 1 = k
        BY <1>1, <1>8, <3>2
      <4> QED BY <1>2, <4>1
    <3> QED BY <3>1, <3>2
  <2> QED BY <1>1, <1>6, <2>1
<1>9. D = Product([j \in DOMAIN o |-> Add[<<s[i], o[j]>>]])
  <2>1. A[s[i]] = Product([j \in 1 .. L |-> s[i] ++ o[j]])
    BY <1>1, <1>3
  <2>2. DOMAIN o = 1 .. L
    BY <1>2
  <2> QED BY <2>1, <2>2 DEF ++
<1>10. A[0] = Product(o) /\ A[0] \in Field /\ 0 \in Field
  <2>1. 0 \in Field
    BY InField
  <2>2. \A j \in 1 .. L : 0 ++ o[j] = o[j]
    BY <1>2, Units
  <2>3. [j \in 1 .. L |-> 0 ++ o[j]] = [j \in 1 .. L |-> o[j]]
    BY <2>2
  <2>4. [j \in 1 .. L |-> o[j]] = o
    BY <1>2
  <2> QED BY <1>3, <1>5, <2>1, <2>3, <2>4
<1> HIDE DEF D
<1>11. g \in Field /\ D ** g = 1 /\ g # 0
  BY <1>7, InverseIs
<1>12. Basis(s, i) = A[0] ** g
  BY <1>9, <1>10, <1>11 DEF Basis, **, o
<1> HIDE DEF g
<1> DEFINE b == [z \in Field |-> g ** A[z]]
<1>13. b \in Poly(m)
  BY <1>1, <1>4, <1>11, PolyScales
<1>14. b[s[i]] = 1
  BY <1>1, <1>7, <1>11, MulCommutes DEF D
<1>15. \A k \in 1 .. m : k # i => b[s[k]] = 0
  BY <1>1, <1>8, <1>11, Units
<1>16. b[0] = Basis(s, i) /\ b[0] \in Field
  BY <1>10, <1>11, <1>12, MulCommutes, InField
<1> HIDE DEF b
<1> QED BY <1>13, <1>14, <1>15, <1>16 DEF IsBasis

LEMMA SumsSame ==
  ASSUME NEW N \in Nat, NEW f, NEW g, NEW h, NEW k, Sums(f, g, N), Sums(h, k, N),
         \A i \in 1 .. N : g[i] = k[i]
  PROVE  \A i \in 0 .. N : f[i] = h[i]
<1> DEFINE S == {i \in Nat : f[i] = h[i]}
<1>1. 0 \in S
  BY DEF Sums
<1>2. ASSUME NEW i \in 1 .. N, i - 1 \in S PROVE i \in S
  BY <1>2 DEF Sums
<1> HIDE DEF S
<1>3. \A i \in 0 .. N : i \in S
  BY <1>1, <1>2, InductionUpTo
<1> QED BY <1>3 DEF S

\* A sum of which one element alone is not zero.
LEMMA SumsOne ==
  ASSUME NEW N \in Nat, NEW f, NEW g, Sums(f, g, N), NEW k \in 1 .. N, g[k] \in Field,
         \A i \in 1 .. N : i # k => g[i] = 0
  PROVE  f[N] = g[k]
<1> DEFINE S == {i \in Nat : f[i] = IF i < k THEN 0 ELSE g[k]}
<1>1. 0 \in S
  BY DEF Sums
<1>2. ASSUME NEW i \in 1 .. N, i - 1 \in S PROVE i \in S
  <2>1. f[i] = f[i - 1] ++ g[i] /\ f[i - 1] = IF i - 1 < k THEN 0 ELSE g[k]
    BY <1>2 DEF Sums
  <2>2. 0 ++ 0 = 0 /\ 0 ++ g[k] = g[k] /\ g[k] ++ 0 = g[k]
    BY InField, Units
  <2>3. CASE i < k
    <3>1. i # k /\ i - 1 < k
      BY <2>3
    <3> QED BY <2>1, <2>2, <2>3, <3>1
  <2>4. CASE i = k
    <3>1. i - 1 < k /\ ~(i < k)
      BY <2>4
    <3> QED BY <2>1, <2>2, <2>4, <3>1
  <2>5. CASE i > k
    <3>1. i # k /\ ~(i - 1 < k) /\ ~(i < k)
      BY <2>5
    <3> QED BY <2>1, <2>2, <3>1
  <2> QED BY <2>3, <2>4, <2>5
<1> HIDE DEF S
<1>3. N \in S
  BY <1>1, <1>2, InductionUpTo
<1> QED BY <1>3 DEF S

\* What reconstruct adds up for the shares v with the indices s.
Weighted(v, s, m) == [i \in 1 .. m |-> v[i] ** Basis(s, i)]

\* p goes through the points, and its constant term is what reconstruct adds up.
Interpolant(p, sum, v, s, m) ==
  /\ p \in Poly(m) /\ \A k \in 1 .. m : p[s[k]] = v[k]
  /\ Sums(sum, Weighted(v, s, m), m) /\ p[0] = sum[m]

\* Lagrange interpolation.
LEMMA Interpolates ==
  ASSUME NEW m, NEW s, Points(s, m), NEW v \in [1 .. m -> Field]
  PROVE  \E p, sum : Interpolant(p, sum, v, s, m)
<1> DEFINE b == [i \in 1 .. m |-> CHOOSE c : IsBasis(c, s, m, i)]
           Terms(z) == [i \in 1 .. m |-> v[i] ** b[i][z]]
           P == [z \in Field |-> CHOOSE f : Sums(f, Terms(z), m)]
           F(k) == [z \in Field |-> P[z][k]]
<1>1. m \in Nat /\ s \in [1 .. m -> Field] /\ \A j, k \in 1 .. m : s[j] = s[k] => j = k
  BY DEF Points
<1>2. \A i \in 1 .. m : IsBasis(b[i], s, m, i)
  BY BasisIs
<1> HIDE DEF b
<1>3. \A i \in 1 .. m : b[i] \in Poly(m)
  BY <1>2 DEF IsBasis
<1>4. \A i \in 1 .. m : b[i] \in [Field -> Field] /\ v[i] \in Field
  BY <1>1, <1>3, PolyIn
<1>5. ASSUME NEW z \in Field
      PROVE  /\ \A i \in 1 .. m : Terms(z)[i] = v[i] ** b[i][z] /\ Terms(z)[i] \in Field
             /\ Sums(P[z], Terms(z), m)
  <2>1. \A i \in 1 .. m : Terms(z)[i] = v[i] ** b[i][z] /\ Terms(z)[i] \in Field
    BY <1>4, InField
  <2> HIDE DEF Terms
  <2>2. \E f : Sums(f, Terms(z), m)
    BY <1>1, <2>1, SumsExist
  <2> QED BY <2>1, <2>2
<1> HIDE DEF P, Terms
<1>6. \A z \in Field : /\ P[z] \in [0 .. m -> Field] /\ P[z][0] = 0
                       /\ \A k \in 1 .. m : P[z][k] = P[z][k - 1] ++ (v[k] ** b[k][z])
  BY <1>5 DEF Sums
<1> DEFINE S == {k \in Nat : F(k) \in Poly(m)}
<1>7. 0 \in S
  <2>1. 0 \in Field
    BY InField
  <2>2. F(0) \in [Field -> Field] /\ \A z \in Field : F(0)[z] = 0
    BY <1>6, <2>1
  <2> HIDE DEF F
  <2>3. F(0) \in Poly(0)
    BY <2>2, PolyNone
  <2>4. F(0) \in Poly(m)
    BY <1>1, <2>3, PolyGrows
  <2> QED BY <2>4
<1>8. ASSUME NEW k \in 1 .. m, k - 1 \in S PROVE k \in S
  <2> DEFINE u == F(k - 1)
             w == [z \in Field |-> v[k] ** b[k][z]]
  <2>1. w \in Poly(m)
    <3>1. m \in Nat /\ b[k] \in Poly(m) /\ v[k] \in Field
      BY <1>1, <1>3, <1>4
    <3> QED BY <3>1, PolyScales
  <2>2. u \in Poly(m)
    BY <1>8
  <2>3. \A z \in Field : P[z][k] = u[z] ++ w[z]
    BY <1>6
  <2>4. F(k) = [z \in Field |-> u[z] ++ w[z]]
    BY <2>3
  <2> HIDE DEF u, w, F
  <2>5. F(k) \in Poly(m)
    BY <1>1, <2>1, <2>2, <2>4, PolyAdds
  <2> QED BY <2>5
<1> HIDE DEF S
<1>9. F(m) \in Poly(m)
  <2>1. m \in S
    <3>1. m \in Nat /\ m \in 0 .. m
      BY <1>1
    <3> HIDE DEF F
    <3>2. \A i \in 0 .. m : i \in S
      BY <1>7, <1>8, <3>1, InductionUpTo
    <3> QED BY <3>1, <3>2
  <2> QED BY <2>1 DEF S
<1>10. ASSUME NEW k \in 1 .. m PROVE F(m)[s[k]] = v[k]
  <2> DEFINE z == s[k]
             g == Terms(z)
  <2>1. z \in Field
    BY <1>1
  <2>2. \A i \in 1 .. m : g[i] = v[i] ** b[i][z]
    BY <1>5, <2>1
  <2>3. Sums(P[z], g, m)
    BY <1>5, <2>1
  <2> HIDE DEF g
  <2>4. g[k] = v[k]
    <3>1. b[k][z] = 1
      BY <1>2 DEF IsBasis
    <3> QED BY <1>4, <2>2, <3>1, Units
  <2>5. ASSUME NEW i \in 1 .. m, i # k PROVE g[i] = 0
    <3>1. b[i][z] = 0
      BY <1>2, <2>5 DEF IsBasis
    <3> QED BY <1>4, <2>2, <3>1, Units
  <2>6. P[z][m] = v[k]
    <3>1. g[k] \in Field
      BY <1>4, <2>4
    <3>2. P[z][m] = g[k]
      BY <1>1, <2>3, <2>5, <3>1, SumsOne
    <3> QED BY <2>4, <3>2
  <2> QED BY <2>1, <2>6
<1>11. /\ Sums(P[0], Weighted(v, s, m), m) /\ F(m)[0] = P[0][m]
  <2>1. 0 \in Field
    BY InField
  <2>2. \A i \in 1 .. m : b[i][0] = Basis(s, i)
    BY <1>2 DEF IsBasis
  <2>3. Terms(0) = Weighted(v, s, m)
    BY <2>2 DEF Terms, Weighted
  <2> QED BY <1>5, <2>1, <2>3
<1> HIDE DEF F
<1> QED BY <1>9, <1>10, <1>11 DEF Interpolant

----------------------------------------------------------------------------
(* split and reconstruct                                                   *)

LEMMA PointsCount ==
  ASSUME NEW m, NEW s, Points(s, m)
  PROVE  /\ {s[i] : i \in 1 .. m} \in SUBSET Field /\ IsFiniteSet({s[i] : i \in 1 .. m})
         /\ Cardinality({s[i] : i \in 1 .. m}) = m
<1> DEFINE R == {s[i] : i \in 1 .. m}
<1>1. m \in Nat /\ s \in [1 .. m -> Field] /\ \A j, k \in 1 .. m : s[j] = s[k] => j = k
  BY DEF Points
<1>2. R \in SUBSET Field /\ s \in [1 .. m -> R] /\ \A y \in R : \E i \in 1 .. m : s[i] = y
  BY <1>1
<1> HIDE DEF R
<1>3. IsFiniteSet(1 .. m) /\ Cardinality(1 .. m) = m
  <2>1. IsFiniteSet(1 .. m) /\ Cardinality(1 .. m) = IF 1 > m THEN 0 ELSE m - 1 + 1
    BY <1>1, FS_Interval, 1 \in Int, m \in Int
  <2> QED BY <1>1, <2>1
<1>4. s \in Injection(1 .. m, R) /\ s \in Surjection(1 .. m, R)
  BY <1>1, <1>2 DEF Injection, IsInjective, Surjection
<1>5. IsFiniteSet(R) /\ Cardinality(R) = Cardinality(1 .. m)
  BY <1>3, <1>4, FS_Surjection
<1> QED BY <1>2, <1>3, <1>5 DEF R

\* What reconstruct adds up.
LEMMA RebuiltIs ==
  ASSUME NEW m, NEW g, Points(g, m), m >= 1,
         \A i \in 1 .. m : shares[g[i]] \in Field
  PROVE  \E sum : /\ Sums(sum, [i \in 1 .. m |-> shares[g[i]] ** Basis(g, i)], m)
                  /\ Rebuilt(g) = sum[m]
<1> DEFINE T == [i \in 1 .. m |-> shares[g[i]] ** Basis(g, i)]
           eq(f) == f = [i \in 0 .. Len(g) |->
                           IF i = 0 THEN 0
                           ELSE Add[<<f[i - 1], Mul[<<shares[g[i]], Basis(g, i)>>]>>]]
           V == CHOOSE f : eq(f)
<1>1. m \in Nat /\ g \in [1 .. m -> Field] /\ Len(g) = m /\ DOMAIN g = 1 .. m
      /\ \A j, k \in 1 .. m : g[j] = g[k] => j = k
  BY DEF Points
<1>2. \A i \in 1 .. m : Basis(g, i) \in Field /\ Basis(g, i) # None
  <2>1. None \notin Field
    BY Sizes DEF None
  <2>2. ASSUME NEW i \in 1 .. m PROVE Basis(g, i) \in Field
    <3>1. PICK b : IsBasis(b, g, m, i)
      BY BasisIs
    <3> QED BY <3>1 DEF IsBasis
  <2> QED BY <2>1, <2>2
<1>3. Rebuilt(g) = V[m]
  <2>1. g # << >>
    BY <1>1
  <2>2. ~Duplicates(g)
    BY <1>1 DEF Duplicates
  <2>3. ~(\E i \in DOMAIN g : Basis(g, i) = None)
    BY <1>1, <1>2
  <2> QED BY <1>1, <2>1, <2>2, <2>3 DEF Rebuilt
<1>4. \A i \in 1 .. m : T[i] = shares[g[i]] ** Basis(g, i) /\ T[i] \in Field
  BY <1>2, InField
<1> HIDE DEF T
<1>5. PICK f : Sums(f, T, m)
  BY <1>1, <1>4, SumsExist
<1>6. eq(f)
  <2>1. ASSUME NEW i \in 0 .. m
        PROVE  f[i] = IF i = 0 THEN 0
                      ELSE Add[<<f[i - 1], Mul[<<shares[g[i]], Basis(g, i)>>]>>]
    <3>1. i = 0 \/ i \in 1 .. m
      BY <1>1
    <3> QED BY <1>4, <1>5, <3>1 DEF Sums, **, ++
  <2>2. f = [i \in 0 .. m |-> f[i]]
    BY <1>5 DEF Sums
  <2> QED BY <1>1, <2>1, <2>2
<1>7. eq(V)
  BY <1>6, ZenonT(40)
<1> HIDE DEF V
<1>8. V[0] = 0 /\ \A i \in 1 .. m : V[i] = V[i - 1] ++ T[i]
  <2>1. V[0] = 0
    BY <1>1, <1>7
  <2>2. ASSUME NEW i \in 1 .. m PROVE V[i] = V[i - 1] ++ T[i]
    <3>1. i \in 0 .. m /\ i # 0
      BY <1>1
    <3>2. V[i] = Add[<<V[i - 1], Mul[<<shares[g[i]], Basis(g, i)>>]>>]
      BY <1>1, <1>7, <3>1
    <3> QED BY <1>4, <3>2 DEF **, ++
  <2> QED BY <2>1, <2>2
<1>9. V = [i \in 0 .. m |-> V[i]]
  BY <1>1, <1>7
<1> HIDE DEF eq
<1> DEFINE S == {i \in Nat : V[i] \in Field}
<1>10. \A i \in 1 .. m : i - 1 \in S => i \in S
  BY <1>1, <1>4, <1>8, InField
<1>11. 0 \in S
  BY <1>8, InField
<1> HIDE DEF S
<1>12. \A i \in 0 .. m : i \in S
  BY <1>1, <1>10, <1>11, InductionUpTo
<1>13. V \in [0 .. m -> Field]
  BY <1>9, <1>12 DEF S
<1>14. Sums(V, T, m)
  BY <1>8, <1>13 DEF Sums
<1> QED BY <1>3, <1>14 DEF T

\* Points of a polynomial with no more coefficients than there are points give back
\* its constant term.
LEMMA Reconstructs ==
  ASSUME NEW m, NEW g, Points(g, m), m >= 1, NEW k \in Nat, k >= 1, k <= m,
         NEW c \in [1 .. k -> Field], \A i \in 1 .. m : shares[g[i]] = gf_eval(c, g[i])
  PROVE  Rebuilt(g) = c[1]
<1> DEFINE f == [z \in Field |-> gf_eval(c, z)]
           v == [i \in 1 .. m |-> f[g[i]]]
           R == {g[i] : i \in 1 .. m}
<1>1. m \in Nat /\ g \in [1 .. m -> Field] /\ 0 \in Field
  BY InField DEF Points
<1>2. f \in Poly(k) /\ \A z \in Field : f[z] = gf_eval(c, z)
  BY DEF Poly
<1> HIDE DEF f
<1>3. f \in [Field -> Field] /\ f \in Poly(m)
  BY <1>1, <1>2, PolyIn, PolyGrows
<1>4. v \in [1 .. m -> Field] /\ \A i \in 1 .. m : v[i] = shares[g[i]] /\ v[i] = f[g[i]]
  BY <1>1, <1>2, <1>3
<1> HIDE DEF v
<1>5. PICK p, sum : Interpolant(p, sum, v, g, m)
  BY <1>4, Interpolates
<1>6. /\ p \in Poly(m) /\ \A i \in 1 .. m : p[g[i]] = v[i]
      /\ Sums(sum, Weighted(v, g, m), m) /\ p[0] = sum[m]
  BY <1>5 DEF Interpolant
<1>7. PICK all : /\ Sums(all, [i \in 1 .. m |-> shares[g[i]] ** Basis(g, i)], m)
                 /\ Rebuilt(g) = all[m]
  BY <1>4, RebuiltIs
<1>8. all[m] = sum[m]
  <2> DEFINE T == Weighted(v, g, m)
  <2>1. [i \in 1 .. m |-> shares[g[i]] ** Basis(g, i)] = T
    BY <1>4 DEF Weighted
  <2>2. Sums(all, T, m) /\ Sums(sum, T, m) /\ m \in 0 .. m
    BY <1>1, <1>6, <1>7, <2>1
  <2> HIDE DEF T
  <2>3. \A i \in 0 .. m : all[i] = sum[i]
    BY <1>1, <2>2, SumsSame
  <2> QED BY <2>2, <2>3
<1>9. R \in SUBSET Field /\ IsFiniteSet(R) /\ Cardinality(R) = m
  BY PointsCount
<1>10. \A r \in R : p[r] = f[r]
  BY <1>4, <1>6
<1> HIDE DEF R
<1>11. p[0] = f[0]
  <2>1. m \in Nat /\ p \in Poly(m) /\ f \in Poly(m)
    BY <1>1, <1>3, <1>6
  <2>2. \A z \in Field : p[z] = f[z]
    BY <1>9, <1>10, <2>1, PolySame
  <2> QED BY <1>1, <2>2
<1>12. f[0] = c[1]
  <2> DEFINE L == k - 1
  <2>1. L \in Nat /\ L + 1 = k
    OBVIOUS
  <2> HIDE DEF L
  <2>2. /\ Higher(c, L) \in [1 .. L -> Field] /\ c[1] \in Field
        /\ gf_eval(c, 0) = c[1] ++ (0 ** gf_eval(Higher(c, L), 0))
    BY <1>1, <2>1, Horner
  <2> DEFINE h == [z \in Field |-> gf_eval(Higher(c, L), z)]
  <2>3. h \in Poly(L) /\ h[0] = gf_eval(Higher(c, L), 0)
    BY <1>1, <2>2 DEF Poly
  <2> HIDE DEF h
  <2>4. h[0] \in Field
    BY <1>1, <2>1, <2>3, PolyIn
  <2>5. 0 ** h[0] = 0 /\ c[1] ++ 0 = c[1]
    BY <2>2, <2>4, Units
  <2> QED BY <1>1, <1>2, <2>2, <2>3, <2>5
<1> QED BY <1>6, <1>7, <1>8, <1>11, <1>12

\* The coefficients of the polynomial that split draws for the byte s.
LEMMA Drawn ==
  ASSUME NEW L \in Nat, NEW s \in Field, NEW a \in [1 .. L -> Field]
  PROVE  /\ <<s>> \o a \in [1 .. L + 1 -> Field] /\ (<<s>> \o a)[1] = s
         /\ \A x \in Field : /\ gf_eval(a, x) \in Field
                             /\ gf_eval(<<s>> \o a, x) = s ++ (x ** gf_eval(a, x))
                             /\ gf_eval(<<s>> \o a, x) \in Field
<1> DEFINE c == <<s>> \o a
<1>1. a \in Seq(Field) /\ Len(a) = L /\ <<s>> \in Seq(Field) /\ Len(<<s>>) = 1
  OBVIOUS
<1>2. c \in Seq(Field) /\ Len(c) = L + 1 /\ c[1] = s /\ \A i \in 1 .. L : c[i + 1] = a[i]
  <2>1. Len(c) = L + 1 /\ c \in Seq(Field)
    BY <1>1
  <2>2. \A i \in 1 .. L + 1 : c[i] = IF i <= 1 THEN <<s>>[i] ELSE a[i - 1]
    BY <1>1
  <2>3. c[1] = s
    BY <2>2
  <2>4. ASSUME NEW i \in 1 .. L PROVE c[i + 1] = a[i]
    <3>1. i + 1 \in 1 .. L + 1 /\ ~(i + 1 <= 1) /\ (i + 1) - 1 = i
      OBVIOUS
    <3> QED BY <2>2, <3>1
  <2> QED BY <2>1, <2>3, <2>4
<1> HIDE DEF c
<1>3. c \in [1 .. L + 1 -> Field]
  BY <1>2, LenProperties
<1>4. Higher(c, L) = a
  BY <1>2 DEF Higher
<1>5. ASSUME NEW x \in Field
      PROVE  /\ gf_eval(a, x) \in Field /\ gf_eval(c, x) = s ++ (x ** gf_eval(a, x))
             /\ gf_eval(c, x) \in Field
  <2> DEFINE p == [z \in Field |-> gf_eval(a, z)]
  <2>1. p \in Poly(L)
    BY DEF Poly
  <2>2. p[x] = gf_eval(a, x)
    OBVIOUS
  <2> HIDE DEF p
  <2>3. p \in [Field -> Field]
    BY <2>1, PolyIn
  <2>4. gf_eval(c, x) = s ++ (x ** gf_eval(a, x))
    BY <1>2, <1>3, <1>4, Horner
  <2> QED BY <2>2, <2>3, <2>4, InField
<1> QED BY <1>2, <1>3, <1>5 DEF c

\* The lists of coefficients that explain the values v at the points I with the byte s.
Explain(L, s, I, v) == {a \in [1 .. L -> Field] : \A i \in I : gf_eval(<<s>> \o a, i) = v[i]}

\* At as many points as there are coefficients, every list of values is that of exactly
\* one list of coefficients: one exists by interpolation, and no other has those values.
LEMMA OneExplanation ==
  ASSUME NEW I \in SUBSET Nonzero, IsFiniteSet(I), NEW L \in Nat, Cardinality(I) = L,
         NEW s \in Field, NEW v \in [I -> Field]
  PROVE  Cardinality(Explain(L, s, I, v)) = 1
<1>1. Nonzero = Field \ {0} /\ L <= 2 ^ Bits /\ I \in SUBSET Field
  <2> DEFINE Q == 2 ^ Bits - 1
  <2>1. IsFiniteSet(Nonzero) /\ Cardinality(Nonzero) = Q /\ Nonzero = Field \ {0} /\ Q \in Nat
    BY NonzeroIs
  <2>2. Cardinality(I) <= Cardinality(Nonzero)
    BY <2>1, FS_Subset
  <2>3. L <= Q /\ 2 ^ Bits = Q + 1
    BY <2>1, <2>2, Sizes
  <2> HIDE DEF Q
  <2> QED BY <2>1, <2>3
<1>2. PICK e : e \in Bijection(1 .. L, I)
  BY FS_CardinalityType DEF ExistsBijection
<1>3. /\ e \in [1 .. L -> I] /\ \A j, k \in 1 .. L : e[j] = e[k] => j = k
      /\ \A i \in I : \E k \in 1 .. L : e[k] = i
  BY <1>2 DEF Bijection, Injection, Surjection, IsInjective
<1>4. Points(e, L)
  BY <1>1, <1>3 DEF Points
<1> DEFINE w == [k \in 1 .. L |-> gf_inv(e[k]) ** (v[e[k]] ++ s)]
<1>5. \A i \in I : /\ i \in Field /\ i # 0 /\ v[i] \in Field /\ v[i] ++ s \in Field
                   /\ gf_inv(i) \in Field /\ i ** gf_inv(i) = 1
  BY <1>1, InverseIs, InField
<1>6. w \in [1 .. L -> Field] /\ \A k \in 1 .. L : w[k] = gf_inv(e[k]) ** (v[e[k]] ++ s)
  BY <1>3, <1>5, InField
<1> HIDE DEF w
<1>7. PICK p, sum : Interpolant(p, sum, w, e, L)
  BY <1>4, <1>6, Interpolates
<1>8. p \in Poly(L) /\ \A k \in 1 .. L : p[e[k]] = w[k]
  BY <1>7 DEF Interpolant
<1>9. PICK a \in [1 .. L -> Field] : p = [z \in Field |-> gf_eval(a, z)]
  BY <1>8 DEF Poly
<1>10. ASSUME NEW i \in I PROVE gf_eval(<<s>> \o a, i) = v[i]
  <2>1. PICK k \in 1 .. L : e[k] = i
    BY <1>3
  <2> DEFINE u == v[i] ++ s
             g == gf_inv(i)
  <2>2. i \in Field /\ v[i] \in Field /\ u \in Field /\ g \in Field /\ i ** g = 1
    BY <1>5
  <2>3. p[i] = g ** u
    BY <1>6, <1>8, <2>1
  <2>4. gf_eval(a, i) = g ** u
    BY <1>9, <2>2, <2>3
  <2> HIDE DEF g
  <2>5. i ** (g ** u) = u
    <3> HIDE DEF u
    <3>1. (i ** g) ** u = i ** (g ** u) /\ 1 ** u = u
      BY <2>2, MulGroups, Units
    <3> QED BY <2>2, <3>1
  <2>6. s ++ u = v[i]
    <3>1. v[i] ++ s = s ++ v[i] /\ s ++ (s ++ v[i]) = v[i]
      BY <2>2, AddCommutes, Cancels
    <3> QED BY <3>1
  <2>7. gf_eval(<<s>> \o a, i) = s ++ (i ** gf_eval(a, i))
    BY <2>2, Drawn
  <2> QED BY <2>4, <2>5, <2>6, <2>7
<1>11. a \in Explain(L, s, I, v)
  BY <1>10 DEF Explain
<1>12. ASSUME NEW b \in Explain(L, s, I, v) PROVE b = a
  <2>1. b \in [1 .. L -> Field] /\ \A i \in I : gf_eval(<<s>> \o b, i) = v[i]
    BY DEF Explain
  <2> DEFINE q == [z \in Field |-> gf_eval(b, z)]
  <2>2. q \in Poly(L) /\ \A z \in Field : q[z] = gf_eval(b, z)
    BY <2>1 DEF Poly
  <2> HIDE DEF q
  <2>3. ASSUME NEW i \in I PROVE p[i] = q[i]
    <3> DEFINE x == gf_eval(a, i)
               y == gf_eval(b, i)
    <3>1. i \in Field /\ i # 0
      BY <1>5
    <3>2. x \in Field /\ gf_eval(<<s>> \o a, i) = s ++ (i ** x)
      BY <3>1, Drawn
    <3>3. y \in Field /\ gf_eval(<<s>> \o b, i) = s ++ (i ** y)
      BY <2>1, <3>1, Drawn
    <3>4. p[i] = x /\ q[i] = y
      BY <1>9, <2>2, <3>1
    <3>5. s ++ (i ** x) = s ++ (i ** y)
      BY <1>10, <2>1, <3>2, <3>3
    <3> HIDE DEF x, y
    <3>6. i ** x \in Field /\ i ** y \in Field /\ i ** x = x ** i /\ i ** y = y ** i
      BY <3>1, <3>2, <3>3, InField, MulCommutes
    <3>7. x ** i = y ** i
      BY <3>5, <3>6, Cancels
    <3>8. x = y
      BY <3>1, <3>2, <3>3, <3>7, Cancels
    <3> QED BY <3>4, <3>8
  <2>4. \A z \in Field : p[z] = q[z]
    BY <1>1, <1>8, <2>2, <2>3, PolySame
  <2>5. \A z \in Field : gf_eval(a, z) = gf_eval(b, z)
    BY <1>9, <2>2, <2>4
  <2> QED BY <1>1, <2>1, <2>5, OneList
<1>13. Explain(L, s, I, v) = {a}
  BY <1>11, <1>12
<1> QED BY <1>13, FS_Singleton

\* A split that has succeeded: the shares are points of a polynomial with t coefficients
\* whose constant term is the secret.
SharesOf(a) ==
  /\ secret \in Field /\ parties \in 1 .. MaxN /\ t \in 2 .. parties
  /\ a \in [1 .. t - 1 -> Field]
  /\ shares = [i \in 1 .. parties |-> gf_eval(<<secret>> \o a, i)]

LEMMA SharesAre ==
  ASSUME NEW a, SharesOf(a)
  PROVE  /\ 1 .. parties \in SUBSET Nonzero /\ Nonzero \subseteq Field
         /\ t \in Nat /\ t >= 1 /\ t - 1 \in Nat /\ parties \in Nat
         /\ <<secret>> \o a \in [1 .. t -> Field] /\ (<<secret>> \o a)[1] = secret
         /\ DOMAIN shares = 1 .. parties
         /\ \A i \in 1 .. parties : shares[i] = gf_eval(<<secret>> \o a, i) /\ shares[i] \in Field
<1>1. parties \in Nat /\ t \in Nat /\ t >= 1 /\ t - 1 \in Nat /\ (t - 1) + 1 = t
      /\ 1 .. parties \in SUBSET Nonzero /\ Nonzero \subseteq Field
  <2> DEFINE Q == 2 ^ Bits - 1
  <2>1. Q \in Nat /\ MaxN \in 1 .. Q /\ Nonzero = 1 .. Q /\ Nonzero \subseteq Field
    BY NonzeroIs, ShamirAssumption DEF Nonzero
  <2> HIDE DEF Q
  <2>2. parties \in 1 .. MaxN /\ t \in 2 .. parties
    BY DEF SharesOf
  <2> QED BY <2>1, <2>2
<1>2. <<secret>> \o a \in [1 .. (t - 1) + 1 -> Field] /\ (<<secret>> \o a)[1] = secret
      /\ \A x \in Field : gf_eval(<<secret>> \o a, x) \in Field
  BY <1>1, Drawn DEF SharesOf
<1>3. DOMAIN shares = 1 .. parties
      /\ \A i \in 1 .. parties : shares[i] = gf_eval(<<secret>> \o a, i)
  BY DEF SharesOf
<1> QED BY <1>1, <1>2, <1>3

\* reconstruct takes the value at zero of the one polynomial through the shares.
LEMMA RebuildsSecret ==
  ASSUME NEW a, SharesOf(a), NEW g \in BoundedSeq(1 .. parties, parties)
  PROVE  IF Cardinality(Range(g)) < Len(g) THEN Rebuilt(g) = None
         ELSE Len(g) >= t => Rebuilt(g) = secret
<1> DEFINE m == Len(g)
<1>1. PICK L \in 0 .. parties : g \in [1 .. L -> 1 .. parties]
  BY DEF BoundedSeq, SeqOf
<1>2. m \in Nat /\ m = L /\ g \in [1 .. m -> 1 .. parties] /\ DOMAIN g = 1 .. m
  BY <1>1, SharesAre
<1> HIDE DEF m
<1>3. /\ g \in [1 .. m -> Field] /\ 1 .. parties \subseteq Field
      /\ \A i \in 1 .. m : g[i] \in 1 .. parties
  BY <1>2, SharesAre
<1> DEFINE R == Range(g)
<1>4. g \in [1 .. m -> R] /\ \A y \in R : \E i \in 1 .. m : g[i] = y
  BY <1>2 DEF Range
<1> HIDE DEF R
<1>5. g \in Surjection(1 .. m, R)
  BY <1>4 DEF Surjection
<1>6. IsFiniteSet(1 .. m) /\ Cardinality(1 .. m) = m
  <2>1. IsFiniteSet(1 .. m) /\ Cardinality(1 .. m) = IF 1 > m THEN 0 ELSE m - 1 + 1
    BY <1>2, FS_Interval, 1 \in Int, m \in Int
  <2> QED BY <1>2, <2>1
<1>7. IsFiniteSet(R) /\ Cardinality(R) <= m /\ (Cardinality(R) = m <=> g \in Injection(1 .. m, R))
  BY <1>5, <1>6, FS_Surjection
<1>8. Cardinality(R) \in Nat
  BY <1>7, FS_CardinalityType
<1>9. g \in Injection(1 .. m, R) <=> \A i, j \in 1 .. m : g[i] = g[j] => i = j
  BY <1>4 DEF Injection, IsInjective
<1>10. CASE Cardinality(R) < m
  <2>1. Duplicates(g)
    BY <1>2, <1>7, <1>8, <1>9, <1>10 DEF Duplicates
  <2>2. Rebuilt(g) = None
    BY <2>1 DEF Rebuilt
  <2> QED BY <1>10, <2>2 DEF m, R
<1>11. CASE ~(Cardinality(R) < m)
  <2>1. Cardinality(R) = m
    BY <1>2, <1>7, <1>8, <1>11
  <2>2. Points(g, m)
    BY <1>2, <1>3, <1>7, <1>9, <2>1 DEF Points
  <2>3. ASSUME m >= t PROVE Rebuilt(g) = secret
    <3> DEFINE c == <<secret>> \o a
    <3>1. t \in Nat /\ t >= 1 /\ c \in [1 .. t -> Field] /\ c[1] = secret
      BY SharesAre
    <3>2. \A i \in 1 .. m : shares[g[i]] = gf_eval(c, g[i])
      BY <1>3, SharesAre
    <3> HIDE DEF c
    <3>3. m >= 1 /\ t <= m
      BY <1>2, <2>3, <3>1
    <3>4. Rebuilt(g) = c[1]
      BY <2>2, <3>1, <3>2, <3>3, Reconstructs
    <3> QED BY <3>1, <3>4
  <2> QED BY <1>11, <2>3 DEF m, R
<1> QED BY <1>10, <1>11

\* The shares of t - 1 holders and any secret leave one draw of the coefficients.
LEMMA SharesTellNothing ==
  ASSUME NEW a, SharesOf(a), NEW I \in kSubset(t - 1, DOMAIN shares), NEW s \in Field
  PROVE  Cardinality({b \in Coefficients(t) : \A i \in I : gf_eval(<<s>> \o b, i) = shares[i]}) = 1
<1>1. /\ I \in SUBSET (1 .. parties) /\ Cardinality(I) = t - 1 /\ parties \in Nat /\ t - 1 \in Nat
      /\ 1 .. parties \in SUBSET Nonzero /\ \A i \in 1 .. parties : shares[i] \in Field
  BY SharesAre DEF kSubset
<1>2. IsFiniteSet(I)
  BY <1>1, FS_Interval, FS_Subset, 1 \in Int, parties \in Int
<1> DEFINE v == [i \in I |-> shares[i]]
<1>3. v \in [I -> Field] /\ \A i \in I : v[i] = shares[i]
  BY <1>1
<1> HIDE DEF v
<1>4. I \in SUBSET Nonzero
  BY <1>1
<1>5. Cardinality(Explain(t - 1, s, I, v)) = 1
  BY <1>1, <1>2, <1>3, <1>4, OneExplanation
<1>6. Explain(t - 1, s, I, v)
        = {b \in Coefficients(t) : \A i \in I : gf_eval(<<s>> \o b, i) = shares[i]}
  BY <1>3 DEF Explain, Coefficients
<1> QED BY <1>5, <1>6

\* What a split leaves is what some draw of the coefficients gives; a rebuilt value is
\* what the given shares promise.
Shared == sharing \in {"shared", "rebuilt"} => \E a \in Coefficients(t) : SharesOf(a)
SharingInv == Shared /\ RoundTrip

LEMMA SplitLeavesShares ==
  ASSUME NEW s \in Field, NEW m \in 0 .. MaxN, NEW k \in 0 .. MaxN + 1, SplitOk(s, m, k)
  PROVE  SharingInv'
<1>1. m \in 1 .. MaxN /\ k \in 2 .. m
  <2>1. MaxN \in Nat
    BY ShamirAssumption, Sizes
  <2>2. m \in Int /\ k \in Int /\ m >= 1 /\ k >= 2 /\ k <= m
    BY <2>1 DEF SplitOk, Invalid
  <2> QED BY <2>1, <2>2
<1>2. PICK a \in Coefficients(k) : shares' = [i \in Indices(m) |-> gf_eval(<<s>> \o a, i)]
  BY DEF SplitOk
<1>3. secret' = s /\ parties' = m /\ t' = k /\ sharing' = "shared"
  BY DEF SplitOk
<1>4. (SharesOf(a))'
  BY <1>1, <1>2, <1>3 DEF SharesOf, Coefficients, Indices
<1>5. a \in Coefficients(t')
  BY <1>2, <1>3
<1>6. Shared'
  BY <1>4, <1>5 DEF Shared, Coefficients
<1> QED BY <1>3, <1>6 DEF SharingInv, RoundTrip

LEMMA ReconstructKeeps ==
  ASSUME SharingInv, NEW g \in BoundedSeq(1 .. parties, parties), Reconstruct(g)
  PROVE  SharingInv'
<1>1. PICK a \in Coefficients(t) : SharesOf(a)
  BY DEF SharingInv, Shared, Reconstruct
<1>2. /\ UNCHANGED <<secret, parties, t, shares>>
      /\ given' = g /\ value' = Rebuilt(g)
  BY DEF Reconstruct
<1>3. (SharesOf(a))'
  BY <1>1, <1>2 DEF SharesOf
<1>4. Shared'
  BY <1>1, <1>2, <1>3 DEF Shared, Coefficients
<1>5. IF Cardinality(Range(g)) < Len(g) THEN Rebuilt(g) = None
      ELSE Len(g) >= t => Rebuilt(g) = secret
  BY <1>1, RebuildsSecret
<1>6. RoundTrip'
  BY <1>2, <1>5 DEF RoundTrip
<1> QED BY <1>4, <1>6 DEF SharingInv

\* The invariant of Shamir is inductive.
LEMMA SharingStep == SharingInv /\ [ShamirNext]_shamirVars => SharingInv'
<1> SUFFICES ASSUME SharingInv, [ShamirNext]_shamirVars PROVE SharingInv'
  OBVIOUS
<1>1. ASSUME NEW s \in Field, NEW m \in 0 .. MaxN, NEW k \in 0 .. MaxN + 1,
             \/ SplitRefused(s, m, k) \/ SplitFails(s, m, k) \/ SplitAborts(s, m, k)
      PROVE  SharingInv'
  BY <1>1 DEF SplitRefused, SplitFails, SplitAborts, NoShares, SharingInv, Shared, RoundTrip
<1>2. ASSUME NEW s \in Field, NEW m \in 0 .. MaxN, NEW k \in 0 .. MaxN + 1, SplitOk(s, m, k)
      PROVE  SharingInv'
  BY <1>2, SplitLeavesShares
<1>3. ASSUME NEW g \in BoundedSeq(1 .. parties, parties), Reconstruct(g) PROVE SharingInv'
  BY <1>3, ReconstructKeeps
<1>4. CASE DropShares
  BY <1>4 DEF DropShares, SharingInv, Shared, RoundTrip
<1>5. CASE UNCHANGED shamirVars
  BY <1>5 DEF shamirVars, SharingInv, Shared, SharesOf, RoundTrip, Coefficients
<1> QED BY <1>1, <1>2, <1>3, <1>4, <1>5 DEF ShamirNext

LEMMA SharingHolds == ShamirSpec => []SharingInv
<1>1. ShamirInit => SharingInv
  BY DEF ShamirInit, SharingInv, Shared, RoundTrip
<1> QED BY <1>1, SharingStep, PTL DEF ShamirSpec

\* For every field, secret, threshold and draw of the coefficients: reconstruct returns the
\* secret from any shares that are distinct and as many as the threshold, in any order, and
\* refuses a list with an index twice (shamir.rs:120-214).
THEOREM SharesRoundTrip == ShamirSpec => []RoundTrip
<1>1. SharingInv => RoundTrip
  BY DEF SharingInv
<1> QED BY <1>1, SharingHolds, PTL

\* For every field, threshold and set of one share less: every secret is explained by
\* exactly one draw of the coefficients (shamir.rs:120-154).
THEOREM SharesHide == ShamirSpec => []Secrecy
<1>1. SharingInv => Secrecy
  <2> SUFFICES ASSUME SharingInv, sharing = "shared",
                      NEW I \in kSubset(t - 1, DOMAIN shares), NEW s \in Field
               PROVE  Cardinality({a \in Coefficients(t) :
                                     \A i \in I : gf_eval(<<s>> \o a, i) = shares[i]}) = 1
    BY DEF Secrecy
  <2>1. PICK a \in Coefficients(t) : SharesOf(a)
    BY DEF SharingInv, Shared
  <2> QED BY <2>1, SharesTellNothing
<1> QED BY <1>1, SharingHolds, PTL
=============================================================================
