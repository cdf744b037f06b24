--------------------------- MODULE TaskQueueProofs ---------------------------
(***************************************************************************)
(* For any tasks and any number of workers: the types of TaskQueue, that   *)
(* the tasks of a lane run one after the other in the order they were      *)
(* pushed, and that a sync call returns only when its task has run or was  *)
(* thrown away.                                                            *)
(***************************************************************************)
EXTENDS TaskQueue, FiniteSetTheorems, TLAPS

\* The sequence q lists the set S, each element once.
Lists(q, S) ==
    /\ q \in Seq(S)
    /\ \A t \in S : \E i \in DOMAIN q : q[i] = t
    /\ \A i, j \in DOMAIN q : q[i] = q[j] => i = j

(* An empty sequence lists the empty set, and nothing else does.           *)
LEMMA ListsNothing == Lists(<<>>, {})
BY DEF Lists

\* Only the empty set has an empty list.
LEMMA ListsEmpty ==
    ASSUME NEW q, NEW S, Lists(q, S)
    PROVE  q = <<>> <=> S = {}
BY DEF Lists

(* One more task at the back.                                              *)
LEMMA ListsAppend ==
    ASSUME NEW q, NEW S, NEW t, Lists(q, S), t \notin S
    PROVE  Lists(Append(q, t), S \cup {t})
<1> DEFINE a == Append(q, t)
<1>1. /\ q \in Seq(S) /\ Len(q) \in Nat /\ DOMAIN q = 1 .. Len(q)
      /\ \A i \in 1 .. Len(q) : q[i] \in S
  BY DEF Lists
<1>2. /\ DOMAIN a = 1 .. Len(q) + 1 /\ Len(a) = Len(q) + 1
      /\ \A i \in 1 .. Len(q) : a[i] = q[i]
      /\ a[Len(q) + 1] = t
  BY <1>1
<1>3. a \in Seq(S \cup {t})
  <2>1. q \in Seq(S \cup {t})
    BY <1>1
  <2> QED BY <2>1
<1> HIDE DEF a
<1>4. \A u \in S \cup {t} : \E i \in DOMAIN a : a[i] = u
  <2>1. ASSUME NEW u \in S PROVE \E i \in DOMAIN a : a[i] = u
    <3>1. PICK i \in 1 .. Len(q) : q[i] = u
      BY <1>1 DEF Lists
    <3> QED BY <1>1, <1>2, <3>1
  <2>2. Len(q) + 1 \in DOMAIN a
    BY <1>1, <1>2
  <2> QED BY <1>2, <2>1, <2>2
<1>5. \A i, j \in DOMAIN a : a[i] = a[j] => i = j
  <2>1. \A i \in DOMAIN a : i \in 1 .. Len(q) \/ i = Len(q) + 1
    BY <1>1, <1>2
  <2>2. \A i, j \in 1 .. Len(q) : a[i] = a[j] => i = j
    BY <1>1, <1>2 DEF Lists
  <2>3. \A i \in 1 .. Len(q) : a[i] # t
    BY <1>1, <1>2
  <2> QED BY <1>2, <2>1, <2>2, <2>3
<1> QED BY <1>3, <1>4, <1>5 DEF Lists, a

(* One list behind another.                                                *)
LEMMA ListsConcat ==
    ASSUME NEW q, NEW S, NEW r, NEW T, Lists(q, S), Lists(r, T), S \cap T = {}
    PROVE  Lists(q \o r, S \cup T)
<1> DEFINE c == q \o r
<1>1. /\ q \in Seq(S) /\ Len(q) \in Nat /\ DOMAIN q = 1 .. Len(q)
      /\ \A i \in 1 .. Len(q) : q[i] \in S
  BY DEF Lists
<1>2. /\ r \in Seq(T) /\ Len(r) \in Nat /\ DOMAIN r = 1 .. Len(r)
      /\ \A i \in 1 .. Len(r) : r[i] \in T
  BY DEF Lists
<1>3. c \in Seq(S \cup T)
  <2> DEFINE U == S \cup T
  <2>1. q \in Seq(U) /\ r \in Seq(U)
    BY <1>1, <1>2
  <2> HIDE DEF U
  <2>2. c \in Seq(U)
    BY <2>1
  <2> QED BY <2>2 DEF U
<1>4. /\ DOMAIN c = 1 .. Len(q) + Len(r)
      /\ \A i \in 1 .. Len(q) : c[i] = q[i]
      /\ \A i \in 1 .. Len(r) : c[Len(q) + i] = r[i]
  <2> DEFINE U == S \cup T
  <2>1. q \in Seq(U) /\ r \in Seq(U)
    BY <1>1, <1>2
  <2> HIDE DEF U
  <2>2. Len(c) = Len(q) + Len(r) /\ c \in Seq(U)
    BY <2>1
  <2>3. DOMAIN c = 1 .. Len(q) + Len(r)
    BY <2>2
  <2>4. \A i \in 1 .. Len(q) : c[i] = q[i]
    BY <2>1
  <2>5. \A i \in 1 .. Len(r) : c[Len(q) + i] = r[i]
    BY <2>1
  <2> QED BY <2>3, <2>4, <2>5
<1> HIDE DEF c
<1>5. \A i \in DOMAIN c : i \in 1 .. Len(q) \/ \E k \in 1 .. Len(r) : i = Len(q) + k
  <2>1. ASSUME NEW i \in 1 .. Len(q) + Len(r), i \notin 1 .. Len(q)
        PROVE  i - Len(q) \in 1 .. Len(r) /\ i = Len(q) + (i - Len(q))
    BY <1>1, <1>2, <2>1
  <2> QED BY <1>4, <2>1
<1>6. /\ \A i \in 1 .. Len(q) : i \in DOMAIN c
      /\ \A k \in 1 .. Len(r) : Len(q) + k \in DOMAIN c
  BY <1>1, <1>2, <1>4
<1>7. \A u \in S \cup T : \E i \in DOMAIN c : c[i] = u
  <2>1. ASSUME NEW u \in S PROVE \E i \in DOMAIN c : c[i] = u
    <3>1. PICK i \in 1 .. Len(q) : q[i] = u
      BY <1>1 DEF Lists
    <3> QED BY <1>4, <1>6, <3>1
  <2>2. ASSUME NEW u \in T PROVE \E i \in DOMAIN c : c[i] = u
    <3>1. PICK i \in 1 .. Len(r) : r[i] = u
      BY <1>2 DEF Lists
    <3> QED BY <1>4, <1>6, <3>1
  <2> QED BY <2>1, <2>2
<1>8. ASSUME NEW i \in DOMAIN c, NEW j \in DOMAIN c, c[i] = c[j] PROVE i = j
  <2>1. CASE i \in 1 .. Len(q) /\ j \in 1 .. Len(q)
    BY <1>1, <1>4, <1>8, <2>1 DEF Lists
  <2>2. ASSUME NEW k \in 1 .. Len(r), i = Len(q) + k, j \in 1 .. Len(q) PROVE FALSE
    BY <1>1, <1>2, <1>4, <1>8, <2>2
  <2>3. ASSUME NEW k \in 1 .. Len(r), j = Len(q) + k, i \in 1 .. Len(q) PROVE FALSE
    BY <1>1, <1>2, <1>4, <1>8, <2>3
  <2>4. ASSUME NEW k \in 1 .. Len(r), i = Len(q) + k, NEW l \in 1 .. Len(r), j = Len(q) + l
        PROVE  i = j
    <3>1. r[k] = r[l]
      BY <1>4, <1>8, <2>4
    <3> QED BY <1>2, <2>4, <3>1 DEF Lists
  <2> QED BY <1>5, <2>1, <2>2, <2>3, <2>4
<1> QED BY <1>3, <1>7, <1>8 DEF Lists, c

(* The first task leaves.                                                  *)
LEMMA ListsTail ==
    ASSUME NEW q, NEW S, Lists(q, S), q # <<>>
    PROVE  Lists(Tail(q), S \ {Head(q)}) /\ Head(q) \in S
<1> DEFINE b == Tail(q)
<1>1. /\ q \in Seq(S) /\ Len(q) \in Nat /\ DOMAIN q = 1 .. Len(q) /\ Len(q) >= 1
      /\ \A i \in 1 .. Len(q) : q[i] \in S
      /\ Head(q) = q[1] /\ 1 \in 1 .. Len(q)
  BY DEF Lists
<1>2. /\ b \in Seq(S) /\ DOMAIN b = 1 .. Len(q) - 1 /\ Len(b) = Len(q) - 1
      /\ \A i \in 1 .. Len(q) - 1 : b[i] = q[i + 1]
  BY <1>1
<1> HIDE DEF b
<1>3. \A i \in 1 .. Len(q) - 1 : i + 1 \in 1 .. Len(q) /\ i + 1 # 1
  BY <1>1
<1>a. \A i, j \in 1 .. Len(q) : q[i] = q[j] => i = j
  BY <1>1 DEF Lists
<1>4. \A i \in DOMAIN b : b[i] \in S \ {Head(q)}
  <2>1. ASSUME NEW i \in 1 .. Len(q) - 1 PROVE b[i] = q[i + 1] /\ q[i + 1] \in S /\ q[i + 1] # q[1]
    BY <1>1, <1>2, <1>3, <1>a
  <2> QED BY <1>1, <1>2, <2>1
<1>5. b \in Seq(S \ {Head(q)})
  <2> DEFINE U == S \ {Head(q)}
  <2>1. \A i \in DOMAIN b : b[i] \in U
    BY <1>4
  <2> HIDE DEF U
  <2>2. b \in Seq(U)
    BY <1>2, <2>1
  <2> QED BY <2>2 DEF U
<1>6. ASSUME NEW u \in S \ {Head(q)} PROVE \E i \in DOMAIN b : b[i] = u
  <2>1. PICK i \in 1 .. Len(q) : q[i] = u
    BY <1>1 DEF Lists
  <2>2. i - 1 \in 1 .. Len(q) - 1 /\ (i - 1) + 1 = i
    BY <1>1, <2>1
  <2> QED BY <1>2, <2>1, <2>2
<1>7. ASSUME NEW i \in DOMAIN b, NEW j \in DOMAIN b, b[i] = b[j] PROVE i = j
  <2>1. q[i + 1] = q[j + 1] /\ i + 1 \in 1 .. Len(q) /\ j + 1 \in 1 .. Len(q)
    BY <1>2, <1>3, <1>7
  <2>2. i + 1 = j + 1
    BY <1>a, <2>1
  <2> QED BY <1>1, <1>2, <2>2
<1> QED BY <1>1, <1>5, <1>6, <1>7 DEF Lists, b

(* The first k tasks go to the back.                                       *)
LEMMA ListsTurn ==
    ASSUME NEW q, NEW S, Lists(q, S), NEW k \in 0 .. Len(q)
    PROVE  Lists(SubSeq(q, k + 1, Len(q)) \o SubSeq(q, 1, k), S)
<1> DEFINE x == SubSeq(q, k + 1, Len(q))
           y == SubSeq(q, 1, k)
           X == {q[i] : i \in k + 1 .. Len(q)}
           Y == {q[i] : i \in 1 .. k}
<1>1. /\ q \in Seq(S) /\ Len(q) \in Nat /\ DOMAIN q = 1 .. Len(q) /\ k \in Nat /\ k <= Len(q)
      /\ \A i \in 1 .. Len(q) : q[i] \in S
  BY DEF Lists
<1>2. /\ DOMAIN x = 1 .. Len(q) - k /\ x \in Seq(S) /\ \A i \in 1 .. Len(q) - k : x[i] = q[i + k]
      /\ DOMAIN y = 1 .. k /\ y \in Seq(S) /\ \A i \in 1 .. k : y[i] = q[i]
  BY <1>1
<1> HIDE DEF x, y
<1>a. \A i, j \in 1 .. Len(q) : q[i] = q[j] => i = j
  BY <1>1 DEF Lists
<1>3. Lists(x, X)
  <2>1. \A i \in 1 .. Len(q) - k : i + k \in k + 1 .. Len(q) /\ i + k \in 1 .. Len(q)
    BY <1>1
  <2>2. \A i \in DOMAIN x : x[i] \in X
    BY <1>2, <2>1
  <2>3. x \in Seq(X)
    <3> HIDE DEF X
    <3> QED BY <1>2, <2>2
  <2>4. ASSUME NEW u \in X PROVE \E i \in DOMAIN x : x[i] = u
    <3>1. PICK i \in k + 1 .. Len(q) : u = q[i]
      OBVIOUS
    <3>2. i - k \in 1 .. Len(q) - k /\ (i - k) + k = i
      BY <1>1, <3>1
    <3> QED BY <1>2, <3>1, <3>2
  <2>5. ASSUME NEW i \in DOMAIN x, NEW j \in DOMAIN x, x[i] = x[j] PROVE i = j
    <3>1. q[i + k] = q[j + k] /\ i + k \in 1 .. Len(q) /\ j + k \in 1 .. Len(q)
      BY <1>2, <2>1, <2>5
    <3>2. i + k = j + k
      BY <1>a, <3>1
    <3> QED BY <1>1, <1>2, <3>2
  <2> QED BY <2>3, <2>4, <2>5 DEF Lists
<1>4. Lists(y, Y)
  <2>1. \A i \in 1 .. k : i \in 1 .. Len(q)
    BY <1>1
  <2>2. \A i \in DOMAIN y : y[i] \in Y
    BY <1>2, <2>1
  <2>3. y \in Seq(Y)
    <3> HIDE DEF Y
    <3>1. y \in Seq(S) /\ Len(y) \in Nat /\ DOMAIN y = 1 .. Len(y)
      BY <1>2
    <3>2. \A i \in 1 .. Len(y) : y[i] \in Y
      BY <2>2, <3>1
    <3> QED BY <3>1, <3>2
  <2>4. \A u \in Y : \E i \in DOMAIN y : y[i] = u
    BY <1>2
  <2>5. \A i, j \in DOMAIN y : y[i] = y[j] => i = j
    BY <1>2, <1>a, <2>1
  <2> QED BY <2>3, <2>4, <2>5 DEF Lists
<1>5. X \cap Y = {}
  <2>1. \A i \in k + 1 .. Len(q), j \in 1 .. k : i \in 1 .. Len(q) /\ j \in 1 .. Len(q) /\ i # j
    BY <1>1
  <2> QED BY <1>1, <2>1 DEF Lists
<1>6. X \cup Y = S
  <2>1. \A i \in 1 .. Len(q) : i \in k + 1 .. Len(q) \/ i \in 1 .. k
    BY <1>1
  <2>2. (\A i \in k + 1 .. Len(q) : i \in 1 .. Len(q)) /\ \A i \in 1 .. k : i \in 1 .. Len(q)
    BY <1>1
  <2>3. \A u \in S : \E i \in 1 .. Len(q) : q[i] = u
    BY <1>1 DEF Lists
  <2> QED BY <1>1, <2>1, <2>2, <2>3
<1> HIDE DEF X, Y
<1> QED BY <1>3, <1>4, <1>5, <1>6, ListsConcat DEF x, y

\* A rotation lists the same tasks.
LEMMA ListsRotate ==
    ASSUME NEW q, NEW S, Lists(q, S), NEW n \in Nat
    PROVE  Lists(Rotate(q, n), S)
<1> DEFINE k == IF q = <<>> THEN 0 ELSE n % Len(q)
<1>1. Len(q) \in Nat /\ (q # <<>> => Len(q) > 0)
  BY DEF Lists
<1>2. k \in 0 .. Len(q)
  BY <1>1
<1>3. Rotate(q, n) = SubSeq(q, k + 1, Len(q)) \o SubSeq(q, 1, k)
  BY DEF Rotate
<1> HIDE DEF k
<1> QED BY <1>2, <1>3, ListsTurn

(* The elements of q that are in D, in their order.                        *)
LEMMA ListsPick ==
    ASSUME NEW q, NEW S, NEW D, Lists(q, S)
    PROVE  Lists(Pick(q, D), S \cap D)
<1> DEFINE at == {i \in DOMAIN q : q[i] \in D}
           n == Cardinality(at)
           UpTo(i) == {j \in at : j <= i}
           rank == [i \in at |-> Cardinality(UpTo(i))]
           kth(k) == CHOOSE i \in at : Cardinality(UpTo(i)) = k
           p == [k \in 1 .. n |-> q[kth(k)]]
<1>1. /\ q \in Seq(S) /\ Len(q) \in Nat /\ DOMAIN q = 1 .. Len(q)
      /\ \A i \in 1 .. Len(q) : q[i] \in S
  BY DEF Lists
<1>a. \A i, j \in 1 .. Len(q) : q[i] = q[j] => i = j
  BY <1>1 DEF Lists
<1>2. IsFiniteSet(at) /\ n \in Nat /\ \A i \in at : i \in Nat /\ i \in 1 .. Len(q) /\ q[i] \in D
  <2>1. at \in SUBSET (1 .. Len(q))
    BY <1>1
  <2>2. IsFiniteSet(1 .. Len(q))
    BY <1>1, FS_Interval
  <2>3. IsFiniteSet(at)
    BY <2>1, <2>2, FS_Subset
  <2>4. n \in Nat
    BY <2>3, FS_CardinalityType
  <2>5. \A i \in at : i \in 1 .. Len(q) /\ q[i] \in D
    BY <1>1
  <2> QED BY <1>1, <2>3, <2>4, <2>5
<1>3. p = Pick(q, D)
  BY DEF Pick
<1>4. \A i \in 1 .. Len(q) : q[i] \in D => i \in at
  BY <1>1
<1> HIDE DEF at
<1>5. ASSUME NEW i \in at
      PROVE  UpTo(i) \in SUBSET at /\ IsFiniteSet(UpTo(i)) /\ Cardinality(UpTo(i)) \in 1 .. n
  <2>1. UpTo(i) \in SUBSET at /\ i \in UpTo(i)
    BY <1>2
  <2>2. IsFiniteSet(UpTo(i)) /\ Cardinality(UpTo(i)) <= n
    BY <1>2, <2>1, FS_Subset
  <2>3. Cardinality(UpTo(i)) \in Nat /\ Cardinality(UpTo(i)) # 0
    <3>1. UpTo(i) # {}
      BY <2>1
    <3> HIDE DEF UpTo
    <3> QED BY <2>2, <3>1, FS_CardinalityType, FS_EmptySet
  <2> HIDE DEF UpTo
  <2> QED BY <1>2, <2>1, <2>2, <2>3
<1>6. ASSUME NEW i \in at, NEW j \in at, i < j PROVE Cardinality(UpTo(i)) # Cardinality(UpTo(j))
  <2>1. UpTo(i) \in SUBSET UpTo(j) /\ j \in UpTo(j) /\ j \notin UpTo(i)
    BY <1>2, <1>6
  <2>2. IsFiniteSet(UpTo(j))
    BY <1>5
  <2> HIDE DEF UpTo
  <2> QED BY <2>1, <2>2, FS_Subset
<1>7. rank \in Injection(at, 1 .. n)
  <2>1. rank \in [at -> 1 .. n]
    BY <1>5
  <2>2. ASSUME NEW i \in at, NEW j \in at, rank[i] = rank[j] PROVE i = j
    <3>1. Cardinality(UpTo(i)) = Cardinality(UpTo(j))
      BY <2>2
    <3> HIDE DEF UpTo
    <3> QED BY <1>2, <1>6, <3>1
  <2> HIDE DEF rank
  <2> QED BY <2>1, <2>2 DEF Injection, IsInjective
<1>8. \A k \in 1 .. n : \E i \in at : Cardinality(UpTo(i)) = k
  <2>1. IsFiniteSet(1 .. n) /\ Cardinality(1 .. n) = n
    BY <1>2, FS_Interval
  <2>2. rank \in Surjection(at, 1 .. n)
    <3> HIDE DEF rank
    <3> QED BY <1>7, <2>1, FS_Injection
  <2>3. \A k \in 1 .. n : \E i \in at : rank[i] = k
    <3> HIDE DEF rank
    <3> QED BY <2>2 DEF Surjection
  <2> QED BY <2>3
<1>9. \A k \in 1 .. n : kth(k) \in at /\ Cardinality(UpTo(kth(k))) = k
  <2> HIDE DEF UpTo
  <2> QED BY <1>8, Zenon
<1>10. \A i \in at : Cardinality(UpTo(i)) \in 1 .. n /\ kth(Cardinality(UpTo(i))) = i
  <2>1. ASSUME NEW i \in at PROVE kth(Cardinality(UpTo(i))) = i
    <3> DEFINE k == Cardinality(UpTo(i))
               j == kth(k)
    <3>1. k \in 1 .. n
      BY <1>5
    <3>2. j \in at /\ Cardinality(UpTo(j)) = k
      <4> HIDE DEF k, kth
      <4> QED BY <1>9, <3>1
    <3>3. Cardinality(UpTo(j)) = Cardinality(UpTo(i))
      BY <3>2
    <3> HIDE DEF j, k
    <3>4. j = i
      <4> HIDE DEF UpTo
      <4> QED BY <1>2, <1>6, <3>2, <3>3
    <3> QED BY <3>4 DEF j, k
  <2> QED BY <1>5, <2>1
<1> HIDE DEF kth, UpTo
<1>11. p \in Seq(S \cap D) /\ DOMAIN p = 1 .. n /\ \A k \in 1 .. n : p[k] = q[kth(k)]
  <2> DEFINE U == S \cap D
  <2>1. \A k \in 1 .. n : q[kth(k)] \in U
    BY <1>1, <1>2, <1>9
  <2> HIDE DEF U
  <2>2. p \in [1 .. n -> U]
    BY <2>1
  <2>3. p \in Seq(U)
    <3> HIDE DEF p
    <3> QED BY <1>2, <2>2
  <2>4. p \in Seq(S \cap D)
    BY <2>3 DEF U
  <2> QED BY <2>4
<1> HIDE DEF p
<1>12. ASSUME NEW u \in S \cap D PROVE \E k \in DOMAIN p : p[k] = u
  <2>1. PICK i \in 1 .. Len(q) : q[i] = u
    BY <1>1 DEF Lists
  <2>2. i \in at
    BY <1>4, <2>1
  <2> QED BY <1>10, <1>11, <2>1, <2>2
<1>13. ASSUME NEW k \in DOMAIN p, NEW l \in DOMAIN p, p[k] = p[l] PROVE k = l
  <2>1. q[kth(k)] = q[kth(l)] /\ kth(k) \in 1 .. Len(q) /\ kth(l) \in 1 .. Len(q)
    BY <1>2, <1>9, <1>11, <1>13
  <2>2. kth(k) = kth(l)
    BY <1>a, <2>1
  <2> QED BY <1>9, <1>11, <2>2
<1> QED BY <1>3, <1>11, <1>12, <1>13 DEF Lists

-----------------------------------------------------------------------------
\* A lane l and the history h of its tasks, with the status s of each: the lane
\* is the end of the history, everything before it has left it in its turn.
Gone(l, h) == Len(h) - Len(l)

Ran(l, h, s) ==
    /\ Len(l) <= Len(h)
    /\ \A i \in 1 .. Len(l) : h[Gone(l, h) + i] = l[i]
    /\ \A j \in 1 .. Gone(l, h) :
          /\ s[h[j]] \in {"running", "done", "cleared"}
          /\ s[h[j]] \in {"running", "done"} =>
                \A i \in 1 .. j - 1 : s[h[i]] \in {"done", "cleared"}

(* Nothing that left a lane changes, but for a running task that is done.  *)
LEMMA RanKept ==
    ASSUME NEW l \in Seq(Tasks), NEW h \in Seq(Tasks), NEW s, NEW r, Ran(l, h, s),
           \A t \in Tasks : s[t] \in {"running", "done", "cleared"} =>
                               r[t] = s[t] \/ (s[t] = "running" /\ r[t] = "done")
    PROVE  Ran(l, h, r)
<1>1. /\ Gone(l, h) \in Nat /\ Gone(l, h) <= Len(h)
      /\ \A j \in 1 .. Gone(l, h) : h[j] \in Tasks
      /\ \A j \in 1 .. Gone(l, h) : \A i \in 1 .. j - 1 : i \in 1 .. Gone(l, h)
  BY DEF Ran, Gone
<1>2. \A j \in 1 .. Gone(l, h) :
         /\ s[h[j]] \in {"running", "done", "cleared"}
         /\ s[h[j]] \in {"running", "done"} =>
               \A i \in 1 .. j - 1 : s[h[i]] \in {"done", "cleared"}
  BY DEF Ran
<1>3. ASSUME NEW j \in 1 .. Gone(l, h)
      PROVE  /\ r[h[j]] \in {"running", "done", "cleared"}
             /\ r[h[j]] \in {"running", "done"} =>
                   \A i \in 1 .. j - 1 : r[h[i]] \in {"done", "cleared"}
  <2>1. r[h[j]] \in {"running", "done", "cleared"}
    BY <1>1, <1>2
  <2>2. ASSUME r[h[j]] \in {"running", "done"}, NEW i \in 1 .. j - 1
        PROVE  r[h[i]] \in {"done", "cleared"}
    <3>1. s[h[j]] \in {"running", "done"}
      BY <1>1, <1>2, <2>2
    <3>2. s[h[i]] \in {"done", "cleared"} /\ h[i] \in Tasks
      BY <1>1, <1>2, <3>1
    <3> QED BY <3>2
  <2> QED BY <2>1, <2>2
<1> QED BY <1>3 DEF Ran

(* Tasks that enter.                                                       *)
LEMMA RanEnter ==
    ASSUME NEW l \in Seq(Tasks), NEW h \in Seq(Tasks), NEW m \in Seq(Tasks), NEW s, Ran(l, h, s)
    PROVE  Ran(l \o m, h \o m, s)
<1> DEFINE a == l \o m
           b == h \o m
<1>1. /\ Len(l) \in Nat /\ Len(h) \in Nat /\ Len(m) \in Nat /\ Len(l) <= Len(h)
      /\ \A i \in 1 .. Len(l) : h[Len(h) - Len(l) + i] = l[i]
  BY DEF Ran, Gone
<1>2. Len(a) = Len(l) + Len(m) /\ Len(b) = Len(h) + Len(m) /\ Gone(a, b) = Gone(l, h)
  BY <1>1 DEF Gone
<1>3. /\ \A i \in 1 .. Len(l) : a[i] = l[i]
      /\ \A i \in 1 .. Len(m) : a[Len(l) + i] = m[i]
  OBVIOUS
<1>4. /\ \A i \in 1 .. Len(h) : b[i] = h[i]
      /\ \A i \in 1 .. Len(m) : b[Len(h) + i] = m[i]
  OBVIOUS
<1> HIDE DEF a, b
<1>5. ASSUME NEW i \in 1 .. Len(a) PROVE b[Gone(a, b) + i] = a[i]
  <2>1. CASE i <= Len(l)
    <3>1. i \in 1 .. Len(l) /\ Gone(l, h) + i \in 1 .. Len(h)
      BY <1>1, <2>1 DEF Gone
    <3> QED BY <1>1, <1>2, <1>3, <1>4, <3>1 DEF Gone
  <2>2. CASE ~(i <= Len(l))
    <3> DEFINE k == i - Len(l)
    <3>1. k \in 1 .. Len(m) /\ i = Len(l) + k /\ Gone(l, h) + i = Len(h) + k
      BY <1>1, <1>2, <2>2 DEF Gone
    <3> HIDE DEF k
    <3> QED BY <1>2, <1>3, <1>4, <3>1
  <2> QED BY <2>1, <2>2
<1>6. \A j \in 1 .. Gone(l, h) : b[j] = h[j] /\ \A i \in 1 .. j - 1 : b[i] = h[i]
  <2>1. Gone(l, h) \in Nat /\ Gone(l, h) <= Len(h)
    BY <1>1 DEF Gone
  <2>2. \A j \in 1 .. Gone(l, h) : j \in 1 .. Len(h) /\ \A i \in 1 .. j - 1 : i \in 1 .. Len(h)
    BY <1>1, <2>1
  <2> QED BY <1>4, <2>2
<1>7. \A j \in 1 .. Gone(l, h) :
         /\ s[h[j]] \in {"running", "done", "cleared"}
         /\ s[h[j]] \in {"running", "done"} =>
               \A i \in 1 .. j - 1 : s[h[i]] \in {"done", "cleared"}
  BY DEF Ran
<1>8. Len(a) <= Len(b)
  BY <1>1, <1>2
<1>9. \A j \in 1 .. Gone(a, b) :
         /\ s[b[j]] \in {"running", "done", "cleared"}
         /\ s[b[j]] \in {"running", "done"} =>
               \A i \in 1 .. j - 1 : s[b[i]] \in {"done", "cleared"}
  BY <1>2, <1>6, <1>7
<1> QED BY <1>5, <1>8, <1>9 DEF Ran, a, b

(* The first task of the lane runs, when no other one of its history does. *)
LEMMA RanTake ==
    ASSUME NEW l \in Seq(Tasks), NEW h \in Seq(Tasks), NEW s, Ran(l, h, s), l # <<>>,
           s[Head(l)] = "running",
           \A j \in 1 .. Gone(l, h) : s[h[j]] \in {"done", "cleared"}
    PROVE  Ran(Tail(l), h, s)
<1> DEFINE b == Tail(l)
           g == Gone(l, h)
<1>1. /\ Len(l) \in Nat /\ Len(h) \in Nat /\ Len(l) >= 1 /\ Len(l) <= Len(h) /\ Head(l) = l[1]
      /\ \A i \in 1 .. Len(l) : h[g + i] = l[i]
  BY DEF Ran
<1>2. Len(b) = Len(l) - 1 /\ \A i \in 1 .. Len(l) - 1 : b[i] = l[i + 1]
  OBVIOUS
<1> HIDE DEF b
<1>3. g \in Nat /\ Gone(b, h) = g + 1
  BY <1>1, <1>2 DEF Gone
<1> HIDE DEF g
<1>4. ASSUME NEW i \in 1 .. Len(b) PROVE h[Gone(b, h) + i] = b[i]
  <2>1. i + 1 \in 1 .. Len(l) /\ (g + 1) + i = g + (i + 1)
    BY <1>1, <1>2, <1>3
  <2> QED BY <1>1, <1>2, <1>3, <2>1
<1>5. \A j \in 1 .. g : s[h[j]] \in {"done", "cleared"}
  BY DEF g
<1>6. s[h[g + 1]] = "running"
  <2>1. 1 \in 1 .. Len(l)
    BY <1>1
  <2> QED BY <1>1, <2>1
<1>7. ASSUME NEW j \in 1 .. g + 1
      PROVE  /\ s[h[j]] \in {"running", "done", "cleared"}
             /\ \A i \in 1 .. j - 1 : s[h[i]] \in {"done", "cleared"}
  <2>1. j \in 1 .. g \/ j = g + 1
    BY <1>3
  <2>2. \A i \in 1 .. j - 1 : i \in 1 .. g
    BY <1>3
  <2> QED BY <1>5, <1>6, <2>1, <2>2
<1>8. Len(b) <= Len(h)
  BY <1>1, <1>2
<1> QED BY <1>3, <1>4, <1>7, <1>8 DEF Ran, b

(* The lane is cleared.                                                    *)
LEMMA RanClear ==
    ASSUME NEW l \in Seq(Tasks), NEW h \in Seq(Tasks), NEW s, Ran(l, h, s),
           \A i \in DOMAIN l : s[l[i]] = "cleared"
    PROVE  Ran(<<>>, h, s)
<1> DEFINE g == Gone(l, h)
<1>1. /\ Len(l) \in Nat /\ Len(h) \in Nat /\ Len(l) <= Len(h) /\ DOMAIN l = 1 .. Len(l)
      /\ \A i \in 1 .. Len(l) : h[g + i] = l[i]
  BY DEF Ran
<1>2. /\ g \in Nat /\ Len(h) = g + Len(l)
      /\ \A j \in 1 .. g : /\ s[h[j]] \in {"running", "done", "cleared"}
                           /\ s[h[j]] \in {"running", "done"} =>
                                 \A i \in 1 .. j - 1 : s[h[i]] \in {"done", "cleared"}
  BY <1>1 DEF Ran, Gone
<1>3. Gone(<<>>, h) = Len(h) /\ Len(<<>>) = 0
  BY <1>1 DEF Gone
<1> HIDE DEF g
<1>4. ASSUME NEW j \in 1 .. Len(h), j \notin 1 .. g PROVE s[h[j]] = "cleared"
  <2>1. j - g \in 1 .. Len(l) /\ g + (j - g) = j
    BY <1>1, <1>2, <1>4
  <2> QED BY <1>1, <2>1
<1>5. \A j \in 1 .. Len(h) : /\ s[h[j]] \in {"running", "done", "cleared"}
                             /\ s[h[j]] \in {"running", "done"} =>
                                   \A i \in 1 .. j - 1 : s[h[i]] \in {"done", "cleared"}
  BY <1>2, <1>4
<1> QED BY <1>1, <1>3, <1>5 DEF Ran

-----------------------------------------------------------------------------
(* The inductive invariant.                                                *)

At(s, p) == {t \in Tasks : status[t] = s /\ prio[t] = p}

Types ==
    /\ threads \in SUBSET Workers \ {{}}
    /\ status \in [Tasks -> Statuses]
    /\ prio \in [Tasks -> Priorities]
    /\ caller \in [Tasks -> Workers \cup {Outside}]
    /\ waiter \in [Tasks -> Waiting \cup {"none", "returned"}]
    /\ signalled \in [Tasks -> BOOLEAN]
    /\ lanes \in [Priorities -> Seq(Tasks)]
    /\ delayed \in [Priorities -> Seq(Tasks)]
    /\ due \in SUBSET Tasks
    /\ running \in [Workers -> Tasks \cup {"idle", "draining", "exited"}]
    /\ selfRef \in SUBSET Workers
    /\ held \in BOOLEAN /\ cancel \in BOOLEAN
    /\ pushed \in [Priorities -> Seq(Tasks)]

Queues == \A p \in Priorities : Lists(lanes[p], At("queued", p)) /\ Lists(delayed[p], At("delayed", p))

\* The gate: one worker at most is past _signal_mutex, and a task runs only there.
OneRuns ==
    /\ \A w, v \in Workers : running[w] \notin {"idle", "exited"} /\ running[v] \notin {"idle", "exited"} => w = v
    /\ \A w \in Workers : running[w] \in Tasks => status[running[w]] = "running"
    /\ \A t \in Tasks : status[t] = "running" => \E w \in Workers : running[w] = t

Histories == \A p \in Priorities : Ran(lanes[p], pushed[p], status)

Told == \A t \in Tasks : signalled[t] \/ waiter[t] = "returned" => status[t] \in {"done", "cleared"}

Inv == Types /\ Queues /\ OneRuns /\ Histories /\ Told

\* The priorities in use, and NORMAL, are priorities.
LEMMA Prios == "NORMAL" \in Priorities /\ InUse \subseteq Priorities
<1>1. Order[3] = "LOW" /\ Order[2] = "NORMAL" /\ 2 \in DOMAIN Order
  BY DEF Order
<1> QED BY <1>1, InUseIsPriority DEF Priorities

(* What the invariant says of the properties.                              *)
LEMMA InvTypes ==
    ASSUME Inv
    PROVE  TypeOK
<1>1. ASSUME NEW p \in Priorities, NEW s, NEW q, Lists(q, At(s, p)) PROVE Filed(q, s, p)
  <2>1. q \in Seq(At(s, p)) /\ \A i \in DOMAIN q : q[i] \in At(s, p)
    BY <1>1 DEF Lists
  <2>2. {q[i] : i \in DOMAIN q} = At(s, p)
    BY <1>1, <2>1 DEF Lists
  <2> QED BY <1>1, <2>2 DEF Filed, At, Lists
<1>2. \A p \in Priorities : Filed(lanes[p], "queued", p) /\ Filed(delayed[p], "delayed", p)
  BY <1>1 DEF Inv, Queues
<1> QED BY <1>2 DEF Inv, Types, TypeOK

\* The invariant gives the order of the lanes.
LEMMA InvOrder ==
    ASSUME Inv
    PROVE  SerialInOrder
<1> SUFFICES ASSUME NEW p \in Priorities, NEW j \in DOMAIN pushed[p],
                    status[pushed[p][j]] \in {"running", "done"},
                    NEW i \in 1 .. j - 1
             PROVE  status[pushed[p][i]] \in {"done", "cleared"}
  BY DEF SerialInOrder
<1> DEFINE l == lanes[p]
           h == pushed[p]
           g == Gone(l, h)
<1>1. l \in Seq(Tasks) /\ h \in Seq(Tasks) /\ Ran(l, h, status) /\ Lists(l, At("queued", p))
  BY DEF Inv, Types, Queues, Histories
<1> HIDE DEF l
<1>2. /\ Len(l) \in Nat /\ Len(h) \in Nat /\ j \in 1 .. Len(h) /\ Len(l) <= Len(h)
      /\ \A k \in 1 .. Len(l) : h[g + k] = l[k]
  <2>1. Len(l) \in Nat /\ Len(h) \in Nat /\ DOMAIN h = 1 .. Len(h)
    BY <1>1
  <2>2. Len(l) <= Len(h) /\ \A k \in 1 .. Len(l) : h[g + k] = l[k]
    BY <1>1 DEF Ran
  <2> QED BY <2>1, <2>2
<1>3. \A k \in 1 .. Len(l) : status[l[k]] = "queued"
  <2>1. \A k \in 1 .. Len(l) : l[k] \in At("queued", p)
    BY <1>1 DEF Lists
  <2> QED BY <2>1 DEF At
<1>4. j \in 1 .. g
  <2>1. SUFFICES ASSUME j \notin 1 .. g PROVE FALSE
    OBVIOUS
  <2>2. j - g \in 1 .. Len(l) /\ g + (j - g) = j
    <3>1. g = Len(h) - Len(l)
      BY DEF Gone
    <3> HIDE DEF g, h
    <3> QED BY <1>2, <2>1, <3>1
  <2>3. status[h[j]] = "queued"
    BY <1>2, <1>3, <2>2
  <2> QED BY <2>3
<1> QED BY <1>1, <1>4 DEF Ran

\* The invariant gives what a returned sync has had done.
LEMMA InvReturned ==
    ASSUME Inv
    PROVE  ReturnedRan
BY DEF Inv, Told, ReturnedRan

\* Nothing is queued at first.
LEMMA Initially == Init => Inv
<1> SUFFICES ASSUME Init PROVE Inv
  OBVIOUS
<1>1. Types
  <2>1. /\ status \in [Tasks -> Statuses] /\ prio \in [Tasks -> Priorities]
        /\ waiter \in [Tasks -> Waiting \cup {"none", "returned"}]
    BY Prios DEF Init, Statuses
  <2>2. /\ caller \in [Tasks -> Workers \cup {Outside}] /\ signalled \in [Tasks -> BOOLEAN]
        /\ running \in [Workers -> Tasks \cup {"idle", "draining", "exited"}]
    BY DEF Init
  <2>3. /\ lanes \in [Priorities -> Seq(Tasks)] /\ delayed \in [Priorities -> Seq(Tasks)]
        /\ pushed \in [Priorities -> Seq(Tasks)]
    BY DEF Init
  <2> QED BY <2>1, <2>2, <2>3 DEF Init, Types
<1>2. \A s \in {"queued", "delayed"}, p \in Priorities : At(s, p) = {}
  BY DEF Init, At
<1>3. Queues
  BY <1>2, ListsNothing DEF Init, Queues
<1>4. OneRuns
  <2>1. \A t \in Tasks : status[t] # "running"
    BY DEF Init
  <2>2. \A w \in Workers : running[w] = "idle"
    BY DEF Init
  <2> QED BY <2>1, <2>2, TasksAreNew DEF OneRuns
<1>5. Histories
  <2>1. Ran(<<>>, <<>>, status)
    BY DEF Ran, Gone
  <2> QED BY <2>1 DEF Init, Histories
<1>6. Told
  BY DEF Init, Told
<1> QED BY <1>1, <1>3, <1>4, <1>5, <1>6 DEF Inv

(* What an action that leaves the queues alone keeps.                      *)
LEMMA QuietQueues ==
    ASSUME Inv, UNCHANGED <<status, prio, lanes, delayed, pushed>>
    PROVE  Queues' /\ Histories'
<1>1. \A s, p : At(s, p)' = At(s, p)
  BY DEF At
<1>2. Queues'
  BY <1>1 DEF Inv, Queues
<1>3. Histories'
  BY DEF Inv, Histories
<1> QED BY <1>2, <1>3

(* What a change of tasks that are in no queue keeps.                      *)
LEMMA OutsideQueues ==
    ASSUME Inv, UNCHANGED <<lanes, delayed, pushed>>,
           \A t \in Tasks : status[t] \in {"queued", "delayed"} \/ status'[t] \in {"queued", "delayed"} =>
                               status'[t] = status[t] /\ prio'[t] = prio[t],
           \A t \in Tasks : status[t] \in {"running", "done", "cleared"} =>
                               status'[t] = status[t] \/ (status[t] = "running" /\ status'[t] = "done")
    PROVE  Queues' /\ Histories'
<1>1. \A s \in {"queued", "delayed"}, p \in Priorities : At(s, p)' = At(s, p)
  BY DEF At
<1>2. Queues'
  BY <1>1 DEF Inv, Queues
<1>3. ASSUME NEW p \in Priorities PROVE Ran(lanes[p], pushed[p], status')
  <2>1. lanes[p] \in Seq(Tasks) /\ pushed[p] \in Seq(Tasks) /\ Ran(lanes[p], pushed[p], status)
    BY DEF Inv, Types, Histories
  <2> QED BY <2>1, RanKept
<1>4. Histories'
  BY <1>3 DEF Histories
<1> QED BY <1>2, <1>4

-----------------------------------------------------------------------------
(* The calls.                                                              *)
LEMMA SignalTells ==
    ASSUME Types, NEW S, Signal(S)
    PROVE  /\ signalled' \in [Tasks -> BOOLEAN]
           /\ waiter' \in [Tasks -> Waiting \cup {"none", "returned"}]
           /\ \A t \in Tasks : signalled'[t] => signalled[t] \/ t \in S
           /\ \A t \in Tasks : waiter'[t] = "returned" => waiter[t] = "returned"
<1>1. /\ signalled' \in [Tasks -> BOOLEAN]
      /\ \A t \in Tasks : signalled'[t] => signalled[t] \/ t \in S
  BY Zenon DEF Signal
<1>2. PICK missed \in SUBSET {t \in S : waiter[t] = "checking"} :
         waiter' = [t \in Tasks |-> IF t \in S \ missed /\ waiter[t] \in {"checking", "blocked"}
                                    THEN "calling" ELSE waiter[t]]
  BY Zenon DEF Signal
<1>3. /\ waiter' \in [Tasks -> Waiting \cup {"none", "returned"}]
      /\ \A t \in Tasks : waiter'[t] = "returned" => waiter[t] = "returned"
  BY <1>2 DEF Types, Waiting
<1> QED BY <1>1, <1>3

(* Async, Sync and SyncInline move one new task, and only that.            *)
LEMMA CallKeeps ==
    ASSUME Inv, NEW t \in Tasks, NEW p \in InUse, NEW c \in Workers \cup {Outside},
           Async(t, p, c) \/ Sync(t, p, c) \/ SyncInline(t, p, c)
    PROVE  Inv'
<1>1. /\ status[t] = "new" /\ prio' = [prio EXCEPT ![t] = p]
      /\ caller' = [caller EXCEPT ![t] = c]
      /\ UNCHANGED <<lanes, delayed, pushed, due, threads, running, selfRef, held, cancel>>
  BY DEF Async, Sync, SyncInline, Check, queueVars, threadVars, lifeVars
<1>2. \E s \in {"checked", "checkedDelay", "dropped", "done"} : status' = [status EXCEPT ![t] = s]
  BY DEF Async, Sync, SyncInline, Check
<1>3. \/ UNCHANGED waiter /\ UNCHANGED signalled
      \/ waiter' = [waiter EXCEPT ![t] = "calling"] /\ UNCHANGED signalled
      \/ /\ waiter' = [waiter EXCEPT ![t] = "returned"] /\ signalled' = [signalled EXCEPT ![t] = TRUE]
         /\ status' = [status EXCEPT ![t] = "done"]
  BY Zenon DEF Async, Sync, SyncInline, Check
<1>4. p \in Priorities
  BY Prios
<1>5. Types'
  <2>1. status' \in [Tasks -> Statuses]
    BY <1>2 DEF Inv, Types, Statuses
  <2>2. prio' \in [Tasks -> Priorities] /\ caller' \in [Tasks -> Workers \cup {Outside}]
    BY <1>1, <1>4 DEF Inv, Types
  <2>3. waiter' \in [Tasks -> Waiting \cup {"none", "returned"}]
    BY <1>3 DEF Inv, Types, Waiting
  <2>4. signalled' \in [Tasks -> BOOLEAN]
    BY <1>3, Zenon DEF Inv, Types
  <2> QED BY <1>1, <2>1, <2>2, <2>3, <2>4 DEF Inv, Types
<1>6. Queues' /\ Histories'
  <2>1. /\ \A u \in Tasks : status[u] \in {"queued", "delayed"} \/ status'[u] \in {"queued", "delayed"} =>
                               status'[u] = status[u] /\ prio'[u] = prio[u]
        /\ \A u \in Tasks : status[u] \in {"running", "done", "cleared"} => status'[u] = status[u]
    BY <1>1, <1>2 DEF Inv, Types
  <2> QED BY <1>1, <2>1, OutsideQueues
<1>7. OneRuns'
  BY <1>1, <1>2 DEF Inv, Types, OneRuns
<1>8. Told'
  <2>1. ASSUME NEW u \in Tasks, u # t, signalled'[u] \/ waiter'[u] = "returned"
        PROVE  signalled[u] \/ waiter[u] = "returned"
    <3>1. signalled'[u] = signalled[u]
      BY <1>3, <2>1 DEF Inv, Types
    <3>2. waiter'[u] = waiter[u]
      BY <1>3, <2>1 DEF Inv, Types
    <3> QED BY <2>1, <3>1, <3>2
  <2>2. ASSUME NEW u \in Tasks, u # t PROVE status'[u] = status[u]
    BY <1>2, <2>2 DEF Inv, Types
  <2>3. ASSUME signalled'[t] \/ waiter'[t] = "returned" PROVE status'[t] = "done"
    <3>1. ~signalled[t] /\ waiter[t] # "returned"
      BY <1>1 DEF Inv, Told
    <3>2. CASE UNCHANGED waiter /\ UNCHANGED signalled
      BY <2>3, <3>1, <3>2
    <3>3. CASE waiter' = [waiter EXCEPT ![t] = "calling"] /\ UNCHANGED signalled
      <4>1. waiter'[t] = "calling"
        BY <3>3 DEF Inv, Types
      <4> QED BY <2>3, <3>1, <3>3, <4>1
    <3>4. CASE status' = [status EXCEPT ![t] = "done"]
      BY <3>4 DEF Inv, Types
    <3> QED BY <1>3, <3>2, <3>3, <3>4
  <2>4. \A u \in Tasks : signalled'[u] \/ waiter'[u] = "returned" => status'[u] \in {"done", "cleared"}
    BY <2>1, <2>2, <2>3 DEF Inv, Told
  <2> QED BY <2>4 DEF Told
<1> QED BY <1>5, <1>6, <1>7, <1>8 DEF Inv

\* A longer lane is a lane.
LEMMA PushTypes ==
    ASSUME NEW f \in [Priorities -> Seq(Tasks)], NEW p \in Priorities, NEW t \in Tasks
    PROVE  [f EXCEPT ![p] = Append(@, t)] \in [Priorities -> Seq(Tasks)]
<1> DEFINE Q == Seq(Tasks)
           q == Append(f[p], t)
<1>1. q \in Q /\ f \in [Priorities -> Q]
  OBVIOUS
<1> HIDE DEF Q, q
<1>2. [f EXCEPT ![p] = q] \in [Priorities -> Q]
  BY <1>1
<1> QED BY <1>2 DEF Q, q

(* The push, at the back of a lane of _tasks or of _delat_tasks.           *)
LEMMA PushKeeps ==
    ASSUME Inv, NEW t \in Tasks, Push(t)
    PROVE  Inv'
<1>0. PICK p \in Priorities : p = prio[t]
  BY DEF Inv, Types
<1>1. /\ p \in Priorities /\ status[t] \in {"checked", "checkedDelay"}
      /\ UNCHANGED <<prio, caller, waiter, due, threads, running, selfRef, held, cancel>>
      /\ signalled' = [signalled EXCEPT ![t] = FALSE]
  BY DEF Push, Inv, Types, threadVars, lifeVars
<1>2. \/ /\ status' = [status EXCEPT ![t] = "queued"]
         /\ lanes' = [lanes EXCEPT ![p] = Append(@, t)]
         /\ pushed' = [pushed EXCEPT ![p] = Append(@, t)]
         /\ UNCHANGED delayed
      \/ /\ status' = [status EXCEPT ![t] = "delayed"]
         /\ delayed' = [delayed EXCEPT ![p] = Append(@, t)]
         /\ UNCHANGED <<lanes, pushed>>
  BY <1>0 DEF Push
<1>3. Types'
  <2>1. status' \in [Tasks -> Statuses]
    BY <1>2 DEF Inv, Types, Statuses
  <2>2. lanes' \in [Priorities -> Seq(Tasks)]
    <3>1. [lanes EXCEPT ![p] = Append(@, t)] \in [Priorities -> Seq(Tasks)]
      BY <1>1, PushTypes DEF Inv, Types
    <3> QED BY <1>2, <3>1 DEF Inv, Types
  <2>3. delayed' \in [Priorities -> Seq(Tasks)]
    <3>1. [delayed EXCEPT ![p] = Append(@, t)] \in [Priorities -> Seq(Tasks)]
      BY <1>1, PushTypes DEF Inv, Types
    <3> QED BY <1>2, <3>1 DEF Inv, Types
  <2>4. pushed' \in [Priorities -> Seq(Tasks)]
    <3>1. [pushed EXCEPT ![p] = Append(@, t)] \in [Priorities -> Seq(Tasks)]
      BY <1>1, PushTypes DEF Inv, Types
    <3> QED BY <1>2, <3>1 DEF Inv, Types
  <2>5. signalled' \in [Tasks -> BOOLEAN]
    BY <1>1, Zenon DEF Inv, Types
  <2> QED BY <1>1, <2>1, <2>2, <2>3, <2>4, <2>5 DEF Inv, Types
<1>4. \A u \in Tasks : u # t => status'[u] = status[u]
  BY <1>2 DEF Inv, Types
<1>5. \A q \in Priorities : \A s \in {"queued", "delayed"} : t \notin At(s, q)
  BY <1>1 DEF At
<1>6. \A q \in Priorities \ {p} : \A s \in {"queued", "delayed"} : At(s, q)' = At(s, q)
  BY <1>0, <1>1, <1>4 DEF At
<1>7. Queues'
  <2>1. CASE status' = [status EXCEPT ![t] = "queued"] /\ lanes' = [lanes EXCEPT ![p] = Append(@, t)] /\ UNCHANGED delayed
    <3>1. status'[t] = "queued"
      BY <2>1 DEF Inv, Types
    <3>2. At("queued", p)' = At("queued", p) \cup {t} /\ At("delayed", p)' = At("delayed", p)
      BY <1>0, <1>1, <1>4, <3>1 DEF At
    <3>3. Lists(Append(lanes[p], t), At("queued", p) \cup {t})
      BY <1>1, <1>5, ListsAppend DEF Inv, Queues
    <3>4. lanes'[p] = Append(lanes[p], t) /\ \A q \in Priorities \ {p} : lanes'[q] = lanes[q]
      BY <1>1, <2>1 DEF Inv, Types
    <3>5. Lists(lanes'[p], At("queued", p)') /\ Lists(delayed'[p], At("delayed", p)')
      BY <1>1, <2>1, <3>2, <3>3, <3>4 DEF Inv, Queues
    <3>6. \A q \in Priorities \ {p} :
             Lists(lanes'[q], At("queued", q)') /\ Lists(delayed'[q], At("delayed", q)')
      BY <1>6, <2>1, <3>4 DEF Inv, Queues
    <3> QED BY <3>5, <3>6 DEF Queues
  <2>2. CASE status' = [status EXCEPT ![t] = "delayed"] /\ delayed' = [delayed EXCEPT ![p] = Append(@, t)] /\ UNCHANGED lanes
    <3>1. status'[t] = "delayed"
      BY <2>2 DEF Inv, Types
    <3>2. At("delayed", p)' = At("delayed", p) \cup {t} /\ At("queued", p)' = At("queued", p)
      BY <1>0, <1>1, <1>4, <3>1 DEF At
    <3>3. Lists(Append(delayed[p], t), At("delayed", p) \cup {t})
      BY <1>1, <1>5, ListsAppend DEF Inv, Queues
    <3>4. delayed'[p] = Append(delayed[p], t) /\ \A q \in Priorities \ {p} : delayed'[q] = delayed[q]
      BY <1>1, <2>2 DEF Inv, Types
    <3>5. Lists(lanes'[p], At("queued", p)') /\ Lists(delayed'[p], At("delayed", p)')
      BY <1>1, <2>2, <3>2, <3>3, <3>4 DEF Inv, Queues
    <3>6. \A q \in Priorities \ {p} :
             Lists(lanes'[q], At("queued", q)') /\ Lists(delayed'[q], At("delayed", q)')
      BY <1>6, <2>2, <3>4 DEF Inv, Queues
    <3> QED BY <3>5, <3>6 DEF Queues
  <2> QED BY <1>2, <2>1, <2>2
<1>8. Histories'
  <2>1. \A q \in Priorities : Ran(lanes[q], pushed[q], status')
    <3>1. \A u \in Tasks : status[u] \in {"running", "done", "cleared"} => status'[u] = status[u]
      BY <1>1, <1>4
    <3>2. \A q \in Priorities : lanes[q] \in Seq(Tasks) /\ pushed[q] \in Seq(Tasks) /\ Ran(lanes[q], pushed[q], status)
      BY DEF Inv, Types, Histories
    <3> QED BY <3>1, <3>2, RanKept
  <2>2. CASE UNCHANGED <<lanes, pushed>>
    BY <2>1, <2>2 DEF Histories
  <2>3. CASE lanes' = [lanes EXCEPT ![p] = Append(@, t)] /\ pushed' = [pushed EXCEPT ![p] = Append(@, t)]
    <3>1. /\ lanes'[p] = Append(lanes[p], t) /\ pushed'[p] = Append(pushed[p], t)
          /\ \A q \in Priorities \ {p} : lanes'[q] = lanes[q] /\ pushed'[q] = pushed[q]
      BY <1>1, <2>3 DEF Inv, Types
    <3>2. lanes[p] \in Seq(Tasks) /\ pushed[p] \in Seq(Tasks) /\ <<t>> \in Seq(Tasks)
      BY <1>1 DEF Inv, Types
    <3>3. Append(lanes[p], t) = lanes[p] \o <<t>> /\ Append(pushed[p], t) = pushed[p] \o <<t>>
      <4>1. \A q \in Seq(Tasks) : Append(q, t) = q \o <<t>>
        OBVIOUS
      <4> QED BY <3>2, <4>1
    <3>4. Ran(lanes[p] \o <<t>>, pushed[p] \o <<t>>, status')
      BY <1>1, <2>1, <3>2, RanEnter
    <3>5. \A q \in Priorities : Ran(lanes'[q], pushed'[q], status')
      BY <2>1, <3>1, <3>3, <3>4
    <3> QED BY <3>5 DEF Histories
  <2> QED BY <1>2, <2>2, <2>3
<1>9. OneRuns'
  <2>1. status'[t] # "running"
    BY <1>2 DEF Inv, Types
  <2>2. \A u \in Tasks : status'[u] = "running" <=> status[u] = "running"
    BY <1>1, <1>4, <2>1
  <2> QED BY <1>1, <2>2 DEF Inv, OneRuns
<1>10. Told'
  <2>1. ~signalled'[t] /\ \A u \in Tasks : u # t => signalled'[u] = signalled[u]
    BY <1>1, Zenon DEF Inv, Types
  <2>2. waiter'[t] # "returned"
    BY <1>1 DEF Inv, Told
  <2> QED BY <1>1, <1>4, <2>1, <2>2 DEF Inv, Told
<1> QED BY <1>3, <1>7, <1>8, <1>9, <1>10 DEF Inv

(* clear.                                                                  *)
LEMMA ClearKeeps ==
    ASSUME Inv, NEW c \in Workers \cup {Outside}, Clear(c)
    PROVE  Inv'
<1>1. /\ status' = [t \in Tasks |-> IF t \in In("queued") THEN "cleared" ELSE status[t]]
      /\ lanes' = [p \in Priorities |-> <<>>] /\ Signal(In("queued"))
      /\ UNCHANGED <<prio, caller, delayed, pushed, due, threads, running, selfRef, held, cancel>>
  BY DEF Clear, threadVars, lifeVars
<1>2. \A t \in Tasks : status'[t] = IF status[t] = "queued" THEN "cleared" ELSE status[t]
  BY <1>1 DEF In
<1>3. Types'
  <2>1. status' \in [Tasks -> Statuses]
    BY <1>1 DEF Inv, Types, Statuses
  <2>2. lanes' \in [Priorities -> Seq(Tasks)]
    BY <1>1
  <2>3. signalled' \in [Tasks -> BOOLEAN] /\ waiter' \in [Tasks -> Waiting \cup {"none", "returned"}]
    BY <1>1, SignalTells DEF Inv
  <2> QED BY <1>1, <2>1, <2>2, <2>3 DEF Inv, Types
<1>4. Queues'
  <2>1. \A p \in Priorities : At("queued", p)' = {} /\ At("delayed", p)' = At("delayed", p)
    BY <1>1, <1>2 DEF At
  <2> QED BY <1>1, <2>1, ListsNothing DEF Inv, Queues
<1>5. Histories'
  <2>1. ASSUME NEW p \in Priorities PROVE Ran(<<>>, pushed[p], status')
    <3>1. /\ lanes[p] \in Seq(Tasks) /\ pushed[p] \in Seq(Tasks) /\ Ran(lanes[p], pushed[p], status)
          /\ Lists(lanes[p], At("queued", p))
      BY DEF Inv, Types, Histories, Queues
    <3>2. Ran(lanes[p], pushed[p], status')
      BY <1>2, <3>1, RanKept
    <3>3. \A i \in DOMAIN lanes[p] : lanes[p][i] \in At("queued", p)
      BY <3>1 DEF Lists
    <3>4. \A i \in DOMAIN lanes[p] : status'[lanes[p][i]] = "cleared"
      BY <1>2, <3>3 DEF At
    <3> QED BY <3>1, <3>2, <3>4, RanClear
  <2> QED BY <1>1, <2>1 DEF Histories
<1>6. OneRuns'
  <2>1. \A t \in Tasks : status'[t] = "running" <=> status[t] = "running"
    BY <1>2
  <2> QED BY <1>1, <2>1 DEF Inv, OneRuns
<1>7. Told'
  <2>1. \A t \in Tasks : signalled'[t] \/ waiter'[t] = "returned" =>
                           signalled[t] \/ waiter[t] = "returned" \/ t \in In("queued")
    BY <1>1, SignalTells DEF Inv
  <2>2. \A t \in Tasks : t \in In("queued") => status'[t] = "cleared"
    BY <1>2 DEF In
  <2>3. \A t \in Tasks : status[t] \in {"done", "cleared"} => status'[t] = status[t]
    BY <1>2
  <2> QED BY <2>1, <2>2, <2>3 DEF Inv, Told
<1> QED BY <1>3, <1>4, <1>5, <1>6, <1>7 DEF Inv

(* The steps of a sync call, the clock, the end of the queue.              *)
LEMMA WaitKeeps ==
    ASSUME Inv, NEW t \in Tasks, TestSignal(t) \/ Block(t) \/ Tick(t)
    PROVE  Inv'
<1>1. UNCHANGED <<status, prio, caller, lanes, delayed, pushed, threads, running, selfRef, held, cancel>>
  BY DEF TestSignal, Block, Tick, queueVars, threadVars, lifeVars
<1>2. /\ signalled' = signalled \/ signalled' = [signalled EXCEPT ![t] = FALSE]
      /\ due' = due \/ due' = due \cup {t}
      /\ \/ waiter' = waiter
         \/ waiter' = [waiter EXCEPT ![t] = IF signalled[t] THEN "returned" ELSE "checking"]
         \/ waiter' = [waiter EXCEPT ![t] = "blocked"]
  BY Zenon DEF TestSignal, Block, Tick
<1>3. Types'
  <2>1. signalled' \in [Tasks -> BOOLEAN]
    BY <1>2, Zenon DEF Inv, Types
  <2>2. waiter' \in [Tasks -> Waiting \cup {"none", "returned"}]
    BY <1>2 DEF Inv, Types, Waiting
  <2>3. due' \in SUBSET Tasks
    BY <1>2 DEF Inv, Types
  <2> QED BY <1>1, <2>1, <2>2, <2>3 DEF Inv, Types
<1>4. Queues' /\ Histories'
  BY <1>1, QuietQueues
<1>5. OneRuns'
  BY <1>1 DEF Inv, OneRuns
<1>6. Told'
  <2>1. \A u \in Tasks : signalled'[u] => signalled[u]
    BY <1>2, Zenon DEF Inv, Types
  <2>2. \A u \in Tasks : waiter'[u] = "returned" => waiter[u] = "returned" \/ signalled[u]
    BY <1>2 DEF Inv, Types
  <2> QED BY <1>1, <2>1, <2>2 DEF Inv, Told
<1> QED BY <1>3, <1>4, <1>5, <1>6 DEF Inv

\* The end of the queue.
LEMMA EndKeeps ==
    ASSUME Inv, Release \/ Destroy \/ UNCHANGED vars
    PROVE  Inv'
<1>1. /\ UNCHANGED <<status, prio, caller, waiter, signalled, lanes, delayed, pushed, due,
                     threads, running, selfRef>>
      /\ held' \in BOOLEAN /\ cancel' \in BOOLEAN
  BY DEF Release, Destroy, vars, queueVars, threadVars, Inv, Types
<1>2. Types'
  BY <1>1 DEF Inv, Types
<1>3. Queues' /\ Histories'
  BY <1>1, QuietQueues
<1>4. OneRuns' /\ Told'
  BY <1>1 DEF Inv, OneRuns, Told
<1> QED BY <1>2, <1>3, <1>4 DEF Inv

-----------------------------------------------------------------------------
(* The workers.                                                            *)
LEMMA WakeKeeps ==
    ASSUME Inv, NEW w \in Workers, Wake(w) \/ Exit(w)
    PROVE  Inv'
<1>1. /\ UNCHANGED <<threads, status, prio, caller, waiter, signalled, lanes, delayed, pushed, due, held, cancel>>
      /\ running[w] = "idle"
      /\ \/ running' = [running EXCEPT ![w] = "draining"] /\ GateFree
         \/ running' = [running EXCEPT ![w] = "exited"]
      /\ selfRef' \in SUBSET Workers
  BY DEF Wake, Exit, queueVars, lifeVars, Inv, Types
<1>2. Types'
  <2>1. running' \in [Workers -> Tasks \cup {"idle", "draining", "exited"}]
    BY <1>1 DEF Inv, Types
  <2> QED BY <1>1, <2>1 DEF Inv, Types
<1>3. Queues' /\ Histories'
  BY <1>1, QuietQueues
<1>4. OneRuns'
  <2>1. \A v \in Workers : running[v] \in Tasks => v # w
    BY <1>1, TasksAreNew
  <2>2. \A v \in Workers : v # w => running'[v] = running[v]
    BY <1>1 DEF Inv, Types
  <2>3. running'[w] \in {"draining", "exited"}
    BY <1>1 DEF Inv, Types
  <2>4. ASSUME NEW v \in Workers, NEW u \in Workers,
               running'[v] \notin {"idle", "exited"}, running'[u] \notin {"idle", "exited"}
        PROVE  v = u
    <3>1. CASE running' = [running EXCEPT ![w] = "draining"] /\ GateFree
      BY <2>2, <2>4, <3>1 DEF GateFree
    <3>2. CASE running' = [running EXCEPT ![w] = "exited"]
      <4>1. v # w /\ u # w
        BY <2>4, <3>2 DEF Inv, Types
      <4> QED BY <2>2, <2>4, <4>1 DEF Inv, OneRuns
    <3> QED BY <1>1, <3>1, <3>2
  <2>5. \A v \in Workers : running'[v] \in Tasks => status'[running'[v]] = "running"
    BY <1>1, <2>2, <2>3, TasksAreNew DEF Inv, OneRuns
  <2>6. \A t \in Tasks : status'[t] = "running" => \E v \in Workers : running'[v] = t
    BY <1>1, <2>1, <2>2 DEF Inv, OneRuns
  <2> QED BY <2>4, <2>5, <2>6 DEF OneRuns
<1>5. Told'
  BY <1>1 DEF Inv, Told
<1> QED BY <1>2, <1>3, <1>4, <1>5 DEF Inv

\* A worker ends its task.
LEMMA FinishKeeps ==
    ASSUME Inv, NEW w \in Workers, Finish(w)
    PROVE  Inv'
<1>1. PICK t \in Tasks : t = running[w]
  BY DEF Finish, RunsNow
<1>2. /\ status' = [status EXCEPT ![t] = "done"] /\ Signal({t})
      /\ running' = [running EXCEPT ![w] = "draining"]
      /\ UNCHANGED <<threads, prio, caller, lanes, delayed, pushed, due, selfRef, held, cancel>>
  BY <1>1 DEF Finish, queueVars, lifeVars
<1>3. status[t] = "running" /\ \A v \in Workers : v # w => running[v] \notin Tasks
  <2>1. running[w] \notin {"idle", "exited"}
    BY <1>1, TasksAreNew
  <2>2. \A v \in Workers : v # w => running[v] \in {"idle", "exited"}
    BY <2>1 DEF Inv, OneRuns
  <2> QED BY <1>1, <2>2, TasksAreNew DEF Inv, OneRuns
<1>4. status'[t] = "done" /\ \A u \in Tasks : u # t => status'[u] = status[u]
  BY <1>2 DEF Inv, Types
<1>5. Types'
  <2>1. status' \in [Tasks -> Statuses]
    BY <1>2 DEF Inv, Types, Statuses
  <2>2. running' \in [Workers -> Tasks \cup {"idle", "draining", "exited"}]
    BY <1>2 DEF Inv, Types
  <2>3. signalled' \in [Tasks -> BOOLEAN] /\ waiter' \in [Tasks -> Waiting \cup {"none", "returned"}]
    BY <1>2, SignalTells DEF Inv
  <2> QED BY <1>2, <2>1, <2>2, <2>3 DEF Inv, Types
<1>6. Queues' /\ Histories'
  BY <1>2, <1>3, <1>4, OutsideQueues
<1>7. OneRuns'
  <2>1. running'[w] = "draining" /\ \A v \in Workers : v # w => running'[v] = running[v]
    BY <1>2 DEF Inv, Types
  <2>2. \A v, u \in Workers : running'[v] \notin {"idle", "exited"} /\ running'[u] \notin {"idle", "exited"} => v = u
    <3>1. \A v \in Workers : running'[v] \notin {"idle", "exited"} => running[v] \notin {"idle", "exited"}
      BY <1>1, <2>1, TasksAreNew
    <3> QED BY <3>1 DEF Inv, OneRuns
  <2>3. \A v \in Workers : running'[v] \notin Tasks
    BY <1>3, <2>1, TasksAreNew
  <2>4. \A u \in Tasks : status'[u] # "running"
    BY <1>1, <1>3, <1>4 DEF Inv, OneRuns
  <2> QED BY <2>2, <2>3, <2>4 DEF OneRuns
<1>8. Told'
  <2>1. \A u \in Tasks : signalled'[u] \/ waiter'[u] = "returned" =>
                           signalled[u] \/ waiter[u] = "returned" \/ u = t
    BY <1>2, SignalTells DEF Inv
  <2> QED BY <1>4, <2>1 DEF Inv, Told
<1> QED BY <1>5, <1>6, <1>7, <1>8 DEF Inv

(* The scan of the delayed tasks: what it moves and what it leaves.        *)
LEMMA ScanLists ==
    ASSUME Inv, NEW p \in Priorities
    PROVE  /\ Lists(Moved(p), {t \in At("delayed", p) : Reached(p) /\ t \in due})
           /\ Lists(Left(p), {t \in At("delayed", p) : ~(Reached(p) /\ t \in due)})
<1> DEFINE n == Cardinality({t \in In("delayed") : prio[t] \in Lower(p)})
<1>1. Lists(delayed[p], At("delayed", p)) /\ At("delayed", p) \subseteq Tasks
  BY DEF Inv, Queues, At
<1>2. n \in Nat
  <2>1. {t \in In("delayed") : prio[t] \in Lower(p)} \in SUBSET Tasks /\ IsFiniteSet(Tasks)
    BY WorkersFinite DEF In
  <2> QED BY <2>1, FS_Subset, FS_CardinalityType
<1>3. CASE Reached(p)
  <2>1. Lists(Pick(delayed[p], due), At("delayed", p) \cap due)
    BY <1>1, ListsPick
  <2>2. Lists(Pick(delayed[p], Tasks \ due), At("delayed", p) \cap (Tasks \ due))
    BY <1>1, ListsPick
  <2>3. Lists(Rotate(Pick(delayed[p], Tasks \ due), n), At("delayed", p) \cap (Tasks \ due))
    <3> HIDE DEF n
    <3> QED BY <1>2, <2>2, ListsRotate
  <2>4. /\ At("delayed", p) \cap due = {t \in At("delayed", p) : Reached(p) /\ t \in due}
        /\ At("delayed", p) \cap (Tasks \ due) = {t \in At("delayed", p) : ~(Reached(p) /\ t \in due)}
    BY <1>1, <1>3
  <2>5. Moved(p) = Pick(delayed[p], due) /\ Left(p) = Rotate(Pick(delayed[p], Tasks \ due), n)
    BY <1>3 DEF Moved, Left
  <2> HIDE DEF n
  <2> QED BY <2>1, <2>3, <2>4, <2>5
<1>4. CASE ~Reached(p)
  <2>1. Moved(p) = <<>> /\ Left(p) = delayed[p]
    BY <1>4 DEF Moved, Left
  <2>2. /\ {t \in At("delayed", p) : Reached(p) /\ t \in due} = {}
        /\ {t \in At("delayed", p) : ~(Reached(p) /\ t \in due)} = At("delayed", p)
    BY <1>4
  <2> QED BY <1>1, <2>1, <2>2, ListsNothing
<1> QED BY <1>3, <1>4

\* A worker finds nothing to run and goes back to its outer loop.
LEMMA PauseKeeps ==
    ASSUME Inv, NEW w \in Workers, Pause(w)
    PROVE  Inv'
<1>1. /\ running[w] = "draining" /\ running' = [running EXCEPT ![w] = "idle"]
      /\ UNCHANGED <<threads, status, prio, caller, waiter, signalled, lanes, pushed, due, selfRef, held, cancel>>
  BY DEF Pause, lifeVars
<1>2. \/ UNCHANGED delayed
      \/ (\A p \in Priorities : Lane(p) = <<>>) /\ delayed' = [p \in Priorities |-> Left(p)]
  BY DEF Pause
<1>3. \A s, p : At(s, p)' = At(s, p)
  BY <1>1 DEF At
<1>4. ASSUME NEW p \in Priorities PROVE Lists(delayed'[p], At("delayed", p)) /\ delayed'[p] \in Seq(Tasks)
  <2>1. Lists(delayed'[p], At("delayed", p))
    <3>1. CASE UNCHANGED delayed
      BY <3>1 DEF Inv, Queues
    <3>2. CASE Lane(p) = <<>> /\ delayed'[p] = Left(p)
      <4>1. Lists(Moved(p), {t \in At("delayed", p) : Reached(p) /\ t \in due})
        BY ScanLists
      <4>2. Moved(p) = <<>>
        <5>1. lanes[p] \in Seq(Tasks) /\ Moved(p) \in Seq({t \in At("delayed", p) : Reached(p) /\ t \in due})
          BY <4>1 DEF Lists, Inv, Types
        <5>2. lanes[p] \o Moved(p) = <<>>
          BY <3>2 DEF Lane
        <5> QED
          <6>1. ASSUME NEW A, NEW B, NEW a \in Seq(A), NEW b \in Seq(B), a \o b = <<>> PROVE b = <<>>
            BY <6>1
          <6> QED BY <5>1, <5>2, <6>1
      <4>3. {t \in At("delayed", p) : Reached(p) /\ t \in due} = {}
        BY <4>1, <4>2, ListsEmpty
      <4>4. {t \in At("delayed", p) : ~(Reached(p) /\ t \in due)} = At("delayed", p)
        BY <4>3
      <4> QED BY <3>2, <4>4, ScanLists
    <3> QED BY <1>2, <3>1, <3>2
  <2>2. delayed'[p] \in Seq(At("delayed", p)) /\ At("delayed", p) \subseteq Tasks
    BY <2>1 DEF Lists, At
  <2> QED BY <2>1, <2>2
<1>5. Types'
  <2>1. running' \in [Workers -> Tasks \cup {"idle", "draining", "exited"}]
    BY <1>1 DEF Inv, Types
  <2>2. delayed' \in [Priorities -> Seq(Tasks)]
    <3>1. DOMAIN delayed' = Priorities /\ delayed' = [p \in Priorities |-> delayed'[p]]
      BY <1>2 DEF Inv, Types
    <3> QED BY <1>4, <3>1
  <2> QED BY <1>1, <2>1, <2>2 DEF Inv, Types
<1>6. Queues'
  BY <1>1, <1>3, <1>4 DEF Inv, Queues
<1>7. Histories'
  BY <1>1 DEF Inv, Histories
<1>8. OneRuns'
  <2>1. running'[w] = "idle" /\ \A v \in Workers : v # w => running'[v] = running[v]
    BY <1>1 DEF Inv, Types
  <2> QED BY <1>1, <2>1, TasksAreNew DEF Inv, OneRuns
<1>9. Told'
  BY <1>1 DEF Inv, Told
<1> QED BY <1>5, <1>6, <1>7, <1>8, <1>9 DEF Inv

(* A task that is no longer delayed was due.                               *)
OnTime == \A t \in Tasks : status[t] = "delayed" /\ status'[t] # "delayed" => t \in due

\* A worker takes a task, and a delayed one no earlier than its time.
LEMMA TakeTaskKeeps ==
    ASSUME Inv, NEW w \in Workers, TakeTask(w)
    PROVE  Inv' /\ OnTime
<1> DEFINE M(q) == {t \in At("delayed", q) : Reached(q) /\ t \in due}
           L(q) == At("queued", q) \cup M(q)
<1>1. PICK p \in Priorities :
         /\ Top(p)
         /\ lanes' = [q \in Priorities |-> IF q = p THEN Tail(Lane(q)) ELSE Lane(q)]
         /\ running' = [running EXCEPT ![w] = Head(Lane(p))]
         /\ status' = [t \in Tasks |-> IF t = Head(Lane(p)) THEN "running"
                                       ELSE IF t \in MovedTasks THEN "queued" ELSE status[t]]
  BY DEF TakeTask
<1>2. /\ running[w] = "draining"
      /\ delayed' = [q \in Priorities |-> Left(q)]
      /\ pushed' = [q \in Priorities |-> pushed[q] \o Moved(q)]
      /\ selfRef' = selfRef \cup {w}
      /\ UNCHANGED <<threads, prio, caller, waiter, signalled, due, held, cancel>>
  BY DEF TakeTask, lifeVars
<1>3. ASSUME NEW q \in Priorities
      PROVE  /\ Lists(Moved(q), M(q)) /\ Lists(Left(q), At("delayed", q) \ M(q))
             /\ Lists(Lane(q), L(q))
             /\ M(q) \subseteq At("delayed", q) /\ At("delayed", q) \subseteq Tasks
             /\ At("queued", q) \subseteq Tasks
  <2>1. Lists(Moved(q), M(q))
    BY ScanLists
  <2>2. {t \in At("delayed", q) : ~(Reached(q) /\ t \in due)} = At("delayed", q) \ M(q)
    OBVIOUS
  <2>3. Lists(Left(q), At("delayed", q) \ M(q))
    BY <2>2, ScanLists
  <2>4. M(q) \subseteq At("delayed", q) /\ At("delayed", q) \subseteq Tasks /\ At("queued", q) \subseteq Tasks
    BY DEF At
  <2>5. Lists(lanes[q], At("queued", q)) /\ At("queued", q) \cap M(q) = {}
    BY <2>4 DEF At, Inv, Queues
  <2> HIDE DEF M
  <2>6. Lists(Lane(q), L(q))
    BY <2>1, <2>5, ListsConcat DEF Lane
  <2> QED BY <2>1, <2>3, <2>4, <2>6
<1>4. \A t \in Tasks : t \in MovedTasks <=> t \in M(prio[t])
  <2>1. ASSUME NEW t \in Tasks, t \in MovedTasks PROVE t \in M(prio[t])
    <3>1. PICK q \in Priorities : \E i \in DOMAIN Moved(q) : Moved(q)[i] = t
      BY <2>1 DEF MovedTasks
    <3>2. t \in M(q)
      <4>1. Moved(q) \in Seq(M(q))
        BY <1>3 DEF Lists
      <4>2. \A i \in DOMAIN Moved(q) : Moved(q)[i] \in M(q)
        <5> HIDE DEF M
        <5> QED BY <4>1
      <4> QED BY <3>1, <4>2
    <3>3. prio[t] = q
      BY <3>2 DEF At
    <3> QED BY <3>2, <3>3
  <2>2. ASSUME NEW t \in Tasks, t \in M(prio[t]) PROVE t \in MovedTasks
    <3>1. prio[t] \in Priorities
      BY DEF Inv, Types
    <3>2. \E i \in DOMAIN Moved(prio[t]) : Moved(prio[t])[i] = t
      <4> HIDE DEF M
      <4> QED BY <1>3, <2>2, <3>1 DEF Lists
    <3> QED BY <3>1, <3>2 DEF MovedTasks
  <2> QED BY <2>1, <2>2
<1>5. PICK h : h = Head(Lane(p)) /\ h \in L(p) /\ Lists(Tail(Lane(p)), L(p) \ {h}) /\ Lane(p) # <<>>
  <2> HIDE DEF L
  <2> QED BY <1>1, <1>3, ListsTail DEF Top
<1>6. /\ h \in Tasks /\ prio[h] = p /\ status[h] \in {"queued", "delayed"}
      /\ status[h] = "delayed" => h \in M(p)
  BY <1>5 DEF At
<1>7. /\ status'[h] = "running"
      /\ \A t \in Tasks : t # h => status'[t] = IF t \in M(prio[t]) THEN "queued" ELSE status[t]
      /\ \A t \in Tasks : t \in M(prio[t]) => status[t] = "delayed"
  <2>1. \A t \in Tasks : t \in M(prio[t]) => status[t] = "delayed"
    BY DEF At
  <2> HIDE DEF M
  <2> QED BY <1>1, <1>4, <1>5, <1>6, <2>1
<1>8. \A t \in Tasks : status[t] # "running"
  <2>1. \A v \in Workers : v # w => running[v] \in {"idle", "exited"}
    BY <1>2 DEF Inv, OneRuns
  <2>2. \A v \in Workers : running[v] \notin Tasks
    BY <1>2, <2>1, TasksAreNew
  <2> QED BY <2>2 DEF Inv, OneRuns
<1>9. \A q \in Priorities : /\ At("queued", q)' = L(q) \ {h}
                            /\ At("delayed", q)' = At("delayed", q) \ M(q)
                            /\ q # p => h \notin L(q)
  <2>1. ASSUME NEW q \in Priorities, NEW t \in Tasks
        PROVE  /\ t \in At("queued", q)' <=> t \in L(q) \ {h}
               /\ t \in At("delayed", q)' <=> t \in At("delayed", q) \ M(q)
    <3>1. /\ t \in At("queued", q)' <=> status'[t] = "queued" /\ prio[t] = q
          /\ t \in At("delayed", q)' <=> status'[t] = "delayed" /\ prio[t] = q
          /\ t \in At("queued", q) <=> status[t] = "queued" /\ prio[t] = q
          /\ t \in At("delayed", q) <=> status[t] = "delayed" /\ prio[t] = q
      BY <1>2 DEF At
    <3>2. t \in M(q) => prio[t] = q /\ status[t] = "delayed"
      BY <3>1
    <3> HIDE DEF M
    <3>3. CASE t = h
      BY <1>6, <1>7, <3>1, <3>2, <3>3
    <3>4. CASE t # h
      BY <1>7, <3>1, <3>2, <3>4
    <3> QED BY <3>3, <3>4
  <2>2. \A q \in Priorities : At("queued", q)' \subseteq Tasks /\ At("delayed", q)' \subseteq Tasks
    BY DEF At
  <2>3. \A q \in Priorities : L(q) \subseteq Tasks /\ At("delayed", q) \subseteq Tasks
    BY DEF At
  <2>4. \A q \in Priorities : h \in L(q) => prio[h] = q
    BY DEF At
  <2> HIDE DEF L, M
  <2> QED BY <1>6, <2>1, <2>2, <2>3, <2>4
<1>10. Queues'
  <2>1. ASSUME NEW q \in Priorities
        PROVE  Lists(lanes'[q], At("queued", q)') /\ Lists(delayed'[q], At("delayed", q)')
    <3>1. Lists(delayed'[q], At("delayed", q)')
      <4> HIDE DEF M, L
      <4> QED BY <1>2, <1>3, <1>9
    <3> HIDE DEF L, M
    <3>2. CASE q = p
      BY <1>1, <1>5, <1>9, <3>1, <3>2
    <3>3. CASE q # p
      <4>1. L(q) \ {h} = L(q) /\ lanes'[q] = Lane(q)
        BY <1>1, <1>9, <3>3
      <4> QED BY <1>3, <1>9, <3>1, <4>1
    <3> QED BY <3>2, <3>3
  <2> HIDE DEF L, M
  <2> QED BY <2>1 DEF Queues
<1>11. ASSUME NEW q \in Priorities
       PROVE  /\ Moved(q) \in Seq(Tasks) /\ Left(q) \in Seq(Tasks) /\ Lane(q) \in Seq(Tasks)
              /\ pushed[q] \o Moved(q) \in Seq(Tasks)
              /\ lanes[q] \in Seq(Tasks) /\ pushed[q] \in Seq(Tasks)
  <2>1. Moved(q) \in Seq(M(q)) /\ Left(q) \in Seq(At("delayed", q) \ M(q))
    <3> HIDE DEF M, L
    <3> QED BY <1>3 DEF Lists
  <2>2. M(q) \subseteq Tasks /\ At("delayed", q) \ M(q) \subseteq Tasks
    BY <1>3
  <2> HIDE DEF M
  <2>3. Moved(q) \in Seq(Tasks) /\ Left(q) \in Seq(Tasks)
    BY <2>1, <2>2
  <2>4. lanes[q] \in Seq(Tasks) /\ pushed[q] \in Seq(Tasks)
    BY DEF Inv, Types
  <2>5. \A a, b \in Seq(Tasks) : a \o b \in Seq(Tasks)
    OBVIOUS
  <2>6. pushed[q] \o Moved(q) \in Seq(Tasks) /\ Lane(q) \in Seq(Tasks)
    BY <2>3, <2>4, <2>5 DEF Lane
  <2> QED BY <2>3, <2>4, <2>6
<1>12. Histories'
  <2>1. \A t \in Tasks : status[t] \in {"running", "done", "cleared"} => status'[t] = status[t]
    <3> HIDE DEF M, L
    <3> QED BY <1>6, <1>7
  <2> HIDE DEF M, L
  <2>2. ASSUME NEW q \in Priorities PROVE Ran(Lane(q), pushed'[q], status')
    <3>1. Ran(lanes[q], pushed[q], status) /\ pushed'[q] = pushed[q] \o Moved(q)
      BY <1>2 DEF Inv, Histories
    <3>2. Ran(lanes[q], pushed[q], status')
      BY <1>11, <2>1, <3>1, RanKept
    <3> QED BY <1>11, <3>1, <3>2, RanEnter DEF Lane
  <2>3. \A j \in 1 .. Gone(Lane(p), pushed'[p]) : status'[pushed'[p][j]] \in {"done", "cleared"}
    <3> DEFINE l == lanes[p]
               k == pushed[p]
               m == Moved(p)
    <3>1. l \in Seq(Tasks) /\ k \in Seq(Tasks) /\ m \in Seq(Tasks) /\ Lane(p) = l \o m /\ pushed'[p] = k \o m
      BY <1>2, <1>11 DEF Lane
    <3>2. Ran(l, k, status)
      BY DEF Inv, Histories
    <3> HIDE DEF l, k, m
    <3>3. /\ Gone(l \o m, k \o m) = Gone(l, k)
          /\ \A j \in 1 .. Gone(l, k) : (k \o m)[j] = k[j] /\ k[j] \in Tasks
      <4>1. Len(l) \in Nat /\ Len(k) \in Nat /\ Len(m) \in Nat /\ Len(l) <= Len(k)
        BY <3>1, <3>2 DEF Ran
      <4>2. Len(l \o m) = Len(l) + Len(m) /\ Len(k \o m) = Len(k) + Len(m)
        BY <3>1
      <4>3. \A j \in 1 .. Len(k) : (k \o m)[j] = k[j] /\ k[j] \in Tasks
        BY <3>1
      <4>4. \A j \in 1 .. Gone(l, k) : j \in 1 .. Len(k)
        BY <4>1 DEF Gone
      <4> QED BY <4>1, <4>2, <4>3, <4>4 DEF Gone
    <3>4. \A j \in 1 .. Gone(l, k) : status[k[j]] \in {"running", "done", "cleared"}
      BY <3>2 DEF Ran
    <3>5. \A j \in 1 .. Gone(l, k) : status'[k[j]] \in {"done", "cleared"}
      BY <1>8, <2>1, <3>3, <3>4
    <3> QED BY <3>1, <3>3, <3>5
  <2>4. Ran(Tail(Lane(p)), pushed'[p], status')
    <3>1. pushed'[p] \in Seq(Tasks)
      BY <1>2, <1>11
    <3> QED BY <1>5, <1>7, <1>11, <2>2, <2>3, <3>1, RanTake
  <2>5. ASSUME NEW q \in Priorities PROVE Ran(lanes'[q], pushed'[q], status')
    BY <1>1, <2>2, <2>4
  <2> QED BY <2>5 DEF Histories
<1>13. Types'
  <2> HIDE DEF M, L
  <2>1. status' \in [Tasks -> Statuses]
    BY <1>1 DEF Inv, Types, Statuses
  <2>2. running' \in [Workers -> Tasks \cup {"idle", "draining", "exited"}]
    BY <1>1, <1>5, <1>6 DEF Inv, Types
  <2>3. /\ delayed' \in [Priorities -> Seq(Tasks)]
        /\ pushed' \in [Priorities -> Seq(Tasks)]
    BY <1>2, <1>11
  <2>4. lanes' \in [Priorities -> Seq(Tasks)]
    <3>1. Tail(Lane(p)) \in Seq(Tasks)
      BY <1>5, <1>11
    <3>2. \A q \in Priorities : (IF q = p THEN Tail(Lane(q)) ELSE Lane(q)) \in Seq(Tasks)
      BY <1>11, <3>1
    <3> QED BY <1>1, <3>2
  <2> QED BY <1>2, <2>1, <2>2, <2>3, <2>4 DEF Inv, Types
<1>14. OneRuns'
  <2> HIDE DEF M, L
  <2>1. running'[w] = h /\ \A v \in Workers : v # w => running'[v] = running[v]
    BY <1>1, <1>5 DEF Inv, Types
  <2>2. \A v \in Workers : v # w => running[v] \in {"idle", "exited"}
    BY <1>2 DEF Inv, OneRuns
  <2>3. \A t \in Tasks : status'[t] = "running" => t = h
    BY <1>7, <1>8
  <2> QED BY <1>6, <1>7, <2>1, <2>2, <2>3, TasksAreNew DEF OneRuns
<1>15. Told'
  <2> HIDE DEF M, L
  <2>1. \A t \in Tasks : status[t] \in {"done", "cleared"} => status'[t] = status[t]
    BY <1>6, <1>7
  <2> QED BY <1>2, <2>1 DEF Inv, Told
<1>16. OnTime
  <2>1. \A t \in Tasks : t \in M(prio[t]) => t \in due
    OBVIOUS
  <2> HIDE DEF M
  <2> QED BY <1>6, <1>7, <2>1 DEF OnTime
<1> QED BY <1>10, <1>12, <1>13, <1>14, <1>15, <1>16 DEF Inv

-----------------------------------------------------------------------------
\* Every step keeps the invariant.
LEMMA Step == Inv /\ [Next]_vars => Inv'
<1> SUFFICES ASSUME Inv, [Next]_vars PROVE Inv'
  OBVIOUS
<1>1. CASE \E c \in Workers \cup {Outside} : Call(c)
  BY <1>1, CallKeeps, ClearKeeps DEF Call
<1>2. CASE \E t \in Tasks : TaskStep(t)
  BY <1>2, PushKeeps, WaitKeeps DEF TaskStep
<1>3. CASE \E w \in Workers : WorkerStep(w)
  BY <1>3, WakeKeeps, TakeTaskKeeps, PauseKeeps, FinishKeeps DEF WorkerStep
<1>4. CASE Release \/ Destroy \/ UNCHANGED vars
  BY <1>4, EndKeeps
<1> QED BY <1>1, <1>2, <1>3, <1>4 DEF Next

(* The types, with every lane holding the tasks of its status and priority *)
(* once each, whatever thread calls in between.                            *)
THEOREM TypeCorrect == Spec => []TypeOK
BY Initially, Step, InvTypes, PTL DEF Spec

(* With any number of workers, the tasks of a lane run one after the other *)
(* in the order in which they entered it.                                  *)
THEOREM OrderKept == Spec => []SerialInOrder
BY Initially, Step, InvOrder, PTL DEF Spec

(* A sync call that has returned has had its task run or thrown away.      *)
THEOREM ReturnsRan == Spec => []ReturnedRan
BY Initially, Step, InvReturned, PTL DEF Spec

(* Only the scan takes a task from the delayed ones: a call or a push is    *)
(* about tasks not yet there, clear and a worker's end about tasks that     *)
(* have left.                                                              *)
LEMMA StepOnTime == Inv /\ [Next]_vars => OnTime
<1> SUFFICES ASSUME Inv, [Next]_vars PROVE OnTime
  OBVIOUS
<1> USE DEF OnTime
<1>1. ASSUME UNCHANGED status PROVE OnTime
  BY <1>1
<1>2. ASSUME NEW t \in Tasks, NEW s, status[t] # "delayed", status' = [status EXCEPT ![t] = s]
      PROVE  OnTime
  BY <1>2 DEF Inv, Types
<1>3. ASSUME NEW c \in Workers \cup {Outside}, Call(c) PROVE OnTime
  <2>1. ASSUME NEW t \in Tasks, NEW p \in InUse, Async(t, p, c) \/ Sync(t, p, c) \/ SyncInline(t, p, c)
        PROVE  OnTime
    BY <1>2, <2>1 DEF Async, Sync, SyncInline, Check
  <2>2. CASE Clear(c)
    BY <2>2 DEF Clear, In
  <2> QED BY <1>3, <2>1, <2>2 DEF Call
<1>4. ASSUME NEW t \in Tasks, TaskStep(t) PROVE OnTime
  <2>1. CASE Push(t)
    BY <1>2, <2>1 DEF Push
  <2>2. CASE TestSignal(t) \/ Block(t) \/ Tick(t)
    BY <1>1, <2>2 DEF TestSignal, Block, Tick
  <2> QED BY <1>4, <2>1, <2>2 DEF TaskStep
<1>5. ASSUME NEW w \in Workers, WorkerStep(w) PROVE OnTime
  <2>1. CASE TakeTask(w)
    BY <2>1, TakeTaskKeeps
  <2>2. CASE Finish(w)
    <3>1. running[w] \in Tasks /\ status[running[w]] = "running"
      BY <2>2 DEF Finish, RunsNow, Inv, OneRuns
    <3>2. status' = [status EXCEPT ![running[w]] = "done"]
      BY <2>2 DEF Finish
    <3> QED BY <3>1, <3>2 DEF Inv, Types
  <2>3. CASE Wake(w) \/ Pause(w) \/ Exit(w)
    BY <1>1, <2>3 DEF Wake, Pause, Exit
  <2> QED BY <1>5, <2>1, <2>2, <2>3 DEF WorkerStep
<1>6. CASE Release \/ Destroy \/ UNCHANGED vars
  BY <1>1, <1>6 DEF Release, Destroy, vars
<1> QED BY <1>3, <1>4, <1>5, <1>6 DEF Next

(* A delayed task does not run before its time, however the scan turns the  *)
(* lanes.                                                                  *)
THEOREM DelaysKept == Spec => DelayKept
<1>1. Inv /\ [Next]_vars => [OnTime]_vars
  BY StepOnTime
<1>2. Spec => []Inv
  BY Initially, Step, PTL DEF Spec
<1>3. DelayKept <=> [][OnTime]_vars
  BY DEF DelayKept, OnTime
<1> QED BY <1>1, <1>2, <1>3, PTL DEF Spec
=============================================================================
