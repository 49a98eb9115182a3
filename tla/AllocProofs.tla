---------------------------- MODULE AllocProofs -----------------------------
(***************************************************************************)
(* Proofs about MemoryPool, for any threads, sizes, limits and chunks, and *)
(* about Allocator on top of it, for any requests and depth of calls.      *)
(*                                                                         *)
(* The free lists are treated as one function from places to sequences.    *)
(* The lemmas say what taking from the back of a list, adding to a list    *)
(* and moving blocks between two lists does to it; every action of the     *)
(* pool is a composition of these.  The calls of Allocator are stacks, one *)
(* for each thread, and are treated alike.                                 *)
(***************************************************************************)
EXTENDS Alloc, TLAPS

AllLists == [Places -> Seq(Block)]

(* The n last blocks of list a move to the back of list c. *)
MovedOver(L, a, c, n) ==
    [L EXCEPT ![a] = LeftAfter(L[a], n), ![c] = L[c] \o PoppedBack(L[a], n)]

-----------------------------------------------------------------------------
(* Sequences.                                                              *)

(* What a loop of back() and pop_back() visits. *)
LEMMA PoppedBackFact ==
    ASSUME NEW S, NEW v \in Seq(S), NEW n \in 0 .. Len(v)
    PROVE  /\ PoppedBack(v, n) \in Seq(S)
           /\ Len(PoppedBack(v, n)) = n
           /\ \A i \in 1 .. n : PoppedBack(v, n)[i] = v[Len(v) + 1 - i]
<1>1. \A i \in 1 .. n : Len(v) + 1 - i \in 1 .. Len(v) /\ v[Len(v) + 1 - i] \in S
  OBVIOUS
<1> QED
  BY <1>1 DEF PoppedBack

(* What it leaves. *)
LEMMA LeftAfterFact ==
    ASSUME NEW S, NEW v \in Seq(S), NEW n \in 0 .. Len(v)
    PROVE  /\ LeftAfter(v, n) \in Seq(S)
           /\ Len(LeftAfter(v, n)) = Len(v) - n
           /\ \A i \in 1 .. Len(v) - n : LeftAfter(v, n)[i] = v[i]
  BY DEF LeftAfter

(* One vector appended to another. *)
LEMMA ConcatFact ==
    ASSUME NEW S, NEW v \in Seq(S), NEW u \in Seq(S)
    PROVE  /\ v \o u \in Seq(S)
           /\ Len(v \o u) = Len(v) + Len(u)
           /\ \A i \in 1 .. Len(v) : (v \o u)[i] = v[i]
           /\ \A i \in Len(v) + 1 .. Len(v) + Len(u) : (v \o u)[i] = u[i - Len(v)]
  OBVIOUS

(* A block is in the lists iff it is at a position of one of them. *)
LEMMA InListsFact ==
    ASSUME NEW L \in AllLists, NEW b
    PROVE  b \in InLists(L) <=>
             \E x \in Places : \E i \in 1 .. Len(L[x]) : L[x][i] = b
<1>1. \A x \in Places : L[x] \in Seq(Block) /\ DOMAIN L[x] = 1 .. Len(L[x])
  BY DEF AllLists
<1>2. b \in InLists(L) <=> \E x \in Places : b \in Range(L[x])
  BY DEF InLists
<1>3. \A x \in Places : b \in Range(L[x]) <=> \E i \in 1 .. Len(L[x]) : L[x][i] = b
  BY <1>1 DEF Range
<1> QED
  BY <1>2, <1>3

-----------------------------------------------------------------------------
(* Operations on the lists.                                                *)

(* The last block of a list is taken out of it. *)
LEMMA TakeBack ==
    ASSUME NEW L \in AllLists, Distinct(L), NEW a \in Places, L[a] # <<>>
    PROVE  LET M == [L EXCEPT ![a] = LeftAfter(L[a], 1)]
               b == L[a][Len(L[a])]
           IN  /\ M \in AllLists /\ Distinct(M)
               /\ b \in Block /\ b \in InLists(L)
               /\ InLists(M) = InLists(L) \ {b}
<1> DEFINE M == [L EXCEPT ![a] = LeftAfter(L[a], 1)]
           n == Len(L[a])
           b == L[a][n]
<1>1. /\ L[a] \in Seq(Block) /\ n \in Nat \ {0} /\ b \in Block /\ 1 \in 0 .. n
      /\ \A x \in Places : L[x] \in Seq(Block) /\ Len(L[x]) \in Nat
                           /\ DOMAIN L[x] = 1 .. Len(L[x])
  BY DEF AllLists
<1>2. /\ M[a] \in Seq(Block) /\ Len(M[a]) = n - 1
      /\ \A i \in 1 .. n - 1 : M[a][i] = L[a][i]
  BY <1>1, LeftAfterFact DEF AllLists
<1>3. \A x \in Places \ {a} : M[x] = L[x]
  BY DEF AllLists
<1>4. M \in AllLists
  BY <1>2, <1>3, <1>1 DEF AllLists
<1>5. \A x \in Places : \A i \in 1 .. Len(M[x]) :
        i \in 1 .. Len(L[x]) /\ M[x][i] = L[x][i] /\ ~(x = a /\ i = n)
  BY <1>1, <1>2, <1>3
<1>6. \A x \in Places : DOMAIN M[x] = 1 .. Len(M[x])
  BY <1>4 DEF AllLists
<1>7. \A x \in Places : \A i \in 1 .. Len(L[x]) :
        ~(x = a /\ i = n) => i \in 1 .. Len(M[x])
  BY <1>1, <1>2, <1>3
<1>a. n \in 1 .. Len(L[a]) /\ b = L[a][n]
  BY <1>1
<1>b. \A x, y \in Places : \A i \in 1 .. Len(L[x]), j \in 1 .. Len(L[y]) :
        L[x][i] = L[y][j] => x = y /\ i = j
  BY <1>1 DEF Distinct
<1> HIDE DEF M, n, b
<1>8. Distinct(M)
  <2> SUFFICES ASSUME NEW x \in Places, NEW y \in Places,
                      NEW i \in 1 .. Len(M[x]), NEW j \in 1 .. Len(M[y]),
                      M[x][i] = M[y][j]
               PROVE  x = y /\ i = j
    BY <1>6, SMTT(30) DEF Distinct
  <2>1. /\ i \in 1 .. Len(L[x]) /\ M[x][i] = L[x][i]
        /\ j \in 1 .. Len(L[y]) /\ M[y][j] = L[y][j]
    BY <1>5
  <2>2. L[x][i] = L[y][j]
    BY <2>1, Zenon
  <2> QED
    BY <1>b, <2>1, <2>2
<1>9. b \in InLists(L)
  BY <1>a, InListsFact
<1>10. ASSUME NEW e \in InLists(M) PROVE e \in InLists(L) /\ e # b
  <2>0. PICK x \in Places : \E i \in 1 .. Len(M[x]) : M[x][i] = e
    BY <1>4, InListsFact
  <2>1. PICK i \in 1 .. Len(M[x]) : M[x][i] = e
    BY <2>0
  <2>2. i \in 1 .. Len(L[x]) /\ L[x][i] = e /\ ~(x = a /\ i = n)
    BY <1>5, <2>1
  <2>3. e # b
    BY <1>a, <1>b, <2>2
  <2> QED
    BY <2>2, <2>3, InListsFact
<1>11. ASSUME NEW e \in InLists(L), e # b PROVE e \in InLists(M)
  <2>0. PICK x \in Places : \E i \in 1 .. Len(L[x]) : L[x][i] = e
    BY InListsFact
  <2>1. PICK i \in 1 .. Len(L[x]) : L[x][i] = e
    BY <2>0
  <2>2. i \in 1 .. Len(M[x]) /\ M[x][i] = e
    BY <1>11, <2>1, <1>5, <1>7, <1>a
  <2> QED
    BY <2>2, <1>4, InListsFact
<1> QED
  BY <1>1, <1>4, <1>8, <1>9, <1>10, <1>11, Zenon DEF M, n, b

(* The n last blocks of one list move to the back of another one. *)
LEMMA MoveBack ==
    ASSUME NEW L \in AllLists, Distinct(L), NEW a \in Places, NEW c \in Places,
           a # c, NEW n \in 0 .. Len(L[a])
    PROVE  /\ MovedOver(L, a, c, n) \in AllLists
           /\ Distinct(MovedOver(L, a, c, n))
           /\ InLists(MovedOver(L, a, c, n)) = InLists(L)
<1> DEFINE M == [L EXCEPT ![a] = LeftAfter(L[a], n),
                          ![c] = L[c] \o PoppedBack(L[a], n)]
           N == Len(L[a])
           m == Len(L[c])
<1>1. /\ L[a] \in Seq(Block) /\ L[c] \in Seq(Block)
      /\ N \in Nat /\ m \in Nat /\ n \in 0 .. N
      /\ Len(L[a]) = N /\ Len(L[c]) = m
      /\ \A x \in Places : L[x] \in Seq(Block) /\ Len(L[x]) \in Nat
                           /\ DOMAIN L[x] = 1 .. Len(L[x])
  BY DEF AllLists
<1> HIDE DEF M, N, m
<1>2. /\ M[a] \in Seq(Block) /\ Len(M[a]) = N - n
      /\ \A i \in 1 .. N - n : M[a][i] = L[a][i]
  BY <1>1, LeftAfterFact, ZenonT(60) DEF AllLists, M
<1>3. /\ M[c] \in Seq(Block) /\ Len(M[c]) = m + n
      /\ \A i \in 1 .. m : M[c][i] = L[c][i]
      /\ \A i \in m + 1 .. m + n : M[c][i] = L[a][N + 1 - (i - m)]
  <2> DEFINE q == PoppedBack(L[a], n)
  <2>1. /\ q \in Seq(Block) /\ Len(q) = n
        /\ \A i \in 1 .. n : q[i] = L[a][N + 1 - i]
    BY <1>1, PoppedBackFact, Zenon
  <2> HIDE DEF q
  <2>2. M[c] = L[c] \o q
    BY DEF AllLists, q, M
  <2>3. LET w == L[c] \o q
        IN  /\ w \in Seq(Block) /\ Len(w) = Len(L[c]) + Len(q)
            /\ \A i \in 1 .. Len(L[c]) : w[i] = L[c][i]
            /\ \A i \in Len(L[c]) + 1 .. Len(L[c]) + Len(q) : w[i] = q[i - Len(L[c])]
    <3>1. L[c] \in Seq(Block) /\ q \in Seq(Block)
      BY <1>1, <2>1
    <3> QED
      BY <3>1, ConcatFact
  <2>4. /\ M[c] \in Seq(Block) /\ Len(M[c]) = m + n
        /\ \A i \in 1 .. m : M[c][i] = L[c][i]
        /\ \A i \in m + 1 .. m + n : M[c][i] = q[i - m]
    <3>1. Len(L[c]) = m /\ Len(q) = n
      BY <1>1, <2>1
    <3> QED
      BY <2>2, <2>3, <3>1
  <2>5. \A i \in m + 1 .. m + n : i - m \in 1 .. n
    BY <1>1
  <2> QED
    BY <2>1, <2>4, <2>5
<1>4. \A x \in Places \ {a, c} : M[x] = L[x]
  BY DEF AllLists, M
<1>5. M \in AllLists
  <2>1. M = [x \in Places |-> M[x]]
    BY Zenon DEF M, AllLists
  <2>2. \A x \in Places : M[x] \in Seq(Block)
    BY <1>1, <1>2, <1>3, <1>4, SMTT(30)
  <2> QED
    BY <2>1, <2>2 DEF AllLists
<1>6. \A x \in Places : DOMAIN M[x] = 1 .. Len(M[x])
  BY <1>5 DEF AllLists
<1>7. \A x, y \in Places : \A i \in 1 .. Len(L[x]), j \in 1 .. Len(L[y]) :
        L[x][i] = L[y][j] => x = y /\ i = j
  BY <1>1 DEF Distinct
<1> DEFINE Stays(x, i) == /\ i \in 1 .. Len(L[x]) /\ M[x][i] = L[x][i]
                          /\ ~(x = a /\ i > N - n)
           From(i) == N + 1 - (i - m)
           Moved(x, i) == /\ x = c /\ i \in m + 1 .. m + n
                          /\ From(i) \in N - n + 1 .. N
                          /\ M[x][i] = L[a][From(i)]
<1>8. ASSUME NEW x \in Places, NEW i \in 1 .. Len(M[x])
      PROVE  Stays(x, i) \/ Moved(x, i)
  <2>1. CASE x = a
    BY <1>1, <1>2, <2>1
  <2>2. CASE x = c /\ i <= m
    BY <1>1, <1>3, <2>2
  <2>3. CASE x = c /\ i > m
    BY <1>1, <1>3, <2>3
  <2>4. CASE x # a /\ x # c
    BY <1>4, <2>4
  <2> QED
    BY <1>1, <1>3, <2>1, <2>2, <2>3, <2>4
<1>9. \A i, j \in m + 1 .. m + n : From(i) = From(j) => i = j
  BY <1>1
<1>10. ASSUME NEW x \in Places, NEW i \in 1 .. Len(L[x])
       PROVE  \E y \in Places : \E j \in 1 .. Len(M[y]) : M[y][j] = L[x][i]
  <2>1. CASE x = a /\ i <= N - n
    BY <1>1, <1>2, <2>1
  <2>2. CASE x = a /\ i > N - n
    <3> DEFINE j == m + (N + 1 - i)
    <3>1. j \in m + 1 .. m + n /\ j \in 1 .. m + n /\ From(j) = i
      BY <1>1, <2>2
    <3>2. M[c][j] = L[x][i]
      BY <1>3, <3>1, <2>2
    <3> QED
      BY <1>3, <3>1, <3>2
  <2>3. CASE x = c
    <3>1. i \in 1 .. m /\ i \in 1 .. m + n
      BY <1>1, <2>3
    <3> QED
      BY <1>3, <2>3, <3>1
  <2>4. CASE x # a /\ x # c
    BY <1>4, <2>4
  <2> QED
    BY <1>1, <2>1, <2>2, <2>3, <2>4
<1>11. Distinct(M)
  <2> SUFFICES ASSUME NEW x \in Places, NEW y \in Places,
                      NEW i \in 1 .. Len(M[x]), NEW j \in 1 .. Len(M[y]),
                      M[x][i] = M[y][j]
               PROVE  x = y /\ i = j
    BY <1>6, SMTT(30) DEF Distinct
  <2>1. CASE Stays(x, i) /\ Stays(y, j)
    <3>1. L[x][i] = L[y][j]
      BY <2>1, Zenon
    <3> QED
      BY <1>7, <2>1, <3>1
  <2>2. CASE Moved(x, i) /\ Moved(y, j)
    <3>1. From(i) \in 1 .. Len(L[a]) /\ From(j) \in 1 .. Len(L[a])
      BY <1>1, <2>2
    <3>2. L[a][From(i)] = L[a][From(j)]
      BY <2>2
    <3>3. From(i) = From(j)
      BY <1>7, <3>1, <3>2
    <3> QED
      BY <1>9, <2>2, <3>3
  <2>3. CASE Stays(x, i) /\ Moved(y, j)
    <3>0. L[x][i] = L[a][From(j)]
      BY <2>3, Zenon
    <3>1. From(j) \in 1 .. Len(L[a]) /\ From(j) > N - n
      BY <1>1, <2>3
    <3>2. x = a /\ i = From(j)
      BY <1>7, <2>3, <3>0, <3>1
    <3> QED
      BY <2>3, <3>1, <3>2
  <2>4. CASE Moved(x, i) /\ Stays(y, j)
    <3>0. L[y][j] = L[a][From(i)]
      BY <2>4
    <3>1. From(i) \in 1 .. Len(L[a]) /\ From(i) > N - n
      BY <1>1, <2>4
    <3>2. y = a /\ j = From(i)
      BY <1>7, <2>4, <3>0, <3>1
    <3> QED
      BY <2>4, <3>1, <3>2
  <2> HIDE DEF Stays, Moved
  <2> QED
    BY <1>8, <2>1, <2>2, <2>3, <2>4
<1>12. ASSUME NEW e \in InLists(M) PROVE e \in InLists(L)
  <2>1. PICK x \in Places : \E i \in 1 .. Len(M[x]) : M[x][i] = e
    BY <1>5, InListsFact
  <2>2. PICK i \in 1 .. Len(M[x]) : M[x][i] = e
    BY <2>1
  <2>3. CASE Stays(x, i)
    BY <2>2, <2>3, InListsFact
  <2>4. CASE Moved(x, i)
    <3>1. From(i) \in N - n + 1 .. N /\ M[x][i] = L[a][From(i)]
      BY <2>4
    <3> HIDE DEF From
    <3>2. From(i) \in 1 .. Len(L[a]) /\ L[a][From(i)] = e
      BY <1>1, <2>2, <3>1, SMTT(30)
    <3> QED
      BY <3>2, InListsFact
  <2> QED
    BY <1>8, <2>3, <2>4
<1>13. ASSUME NEW e \in InLists(L) PROVE e \in InLists(M)
  <2>1. PICK x \in Places : \E i \in 1 .. Len(L[x]) : L[x][i] = e
    BY InListsFact
  <2>2. PICK i \in 1 .. Len(L[x]) : L[x][i] = e
    BY <2>1
  <2>3. \E y \in Places : \E j \in 1 .. Len(M[y]) : M[y][j] = L[x][i]
    BY <1>10
  <2> QED
    BY <1>5, <2>2, <2>3, InListsFact
<1> QED
  BY <1>5, <1>11, <1>12, <1>13, Zenon DEF M, MovedOver

(* New blocks, all different, are added to the back of a list. *)
LEMMA AddBack ==
    ASSUME NEW L \in AllLists, Distinct(L), NEW a \in Places, NEW q \in Seq(Block),
           \A i, j \in 1 .. Len(q) : q[i] = q[j] => i = j,
           \A i \in 1 .. Len(q) : q[i] \notin InLists(L)
    PROVE  LET M == [L EXCEPT ![a] = L[a] \o q]
           IN  M \in AllLists /\ Distinct(M) /\ InLists(M) = InLists(L) \cup Range(q)
<1> DEFINE M == [L EXCEPT ![a] = L[a] \o q]
           m == Len(L[a])
           n == Len(q)
<1>1. /\ L[a] \in Seq(Block) /\ m \in Nat /\ n \in Nat /\ Len(L[a]) = m /\ Len(q) = n
      /\ \A x \in Places : L[x] \in Seq(Block) /\ Len(L[x]) \in Nat
                           /\ DOMAIN L[x] = 1 .. Len(L[x])
  BY DEF AllLists
<1>0. \A e : e \in Range(q) <=> \E i \in 1 .. n : q[i] = e
  BY DEF Range
<1>a. /\ \A i, j \in 1 .. n : q[i] = q[j] => i = j
      /\ \A i \in 1 .. n : q[i] \notin InLists(L)
  OBVIOUS
<1> HIDE DEF M, m, n
<1>2. /\ M[a] \in Seq(Block) /\ Len(M[a]) = m + n
      /\ \A i \in 1 .. m : M[a][i] = L[a][i]
      /\ \A i \in m + 1 .. m + n : M[a][i] = q[i - m]
  <2>1. M[a] = L[a] \o q
    BY DEF M, AllLists
  <2>2. LET w == L[a] \o q
        IN  /\ w \in Seq(Block) /\ Len(w) = Len(L[a]) + Len(q)
            /\ \A i \in 1 .. Len(L[a]) : w[i] = L[a][i]
            /\ \A i \in Len(L[a]) + 1 .. Len(L[a]) + Len(q) : w[i] = q[i - Len(L[a])]
    <3>1. L[a] \in Seq(Block)
      BY <1>1
    <3> QED
      BY <3>1, ConcatFact
  <2>3. Len(L[a]) = m /\ Len(q) = n
    BY <1>1
  <2> QED
    BY <2>1, <2>2, <2>3, SMTT(30)
<1>3. \A x \in Places \ {a} : M[x] = L[x]
  BY DEF M, AllLists
<1>4. M \in AllLists
  <2>1. M = [x \in Places |-> M[x]]
    BY Zenon DEF M, AllLists
  <2>2. \A x \in Places : M[x] \in Seq(Block)
    BY <1>1, <1>2, <1>3
  <2> QED
    BY <2>1, <2>2 DEF AllLists
<1>5. \A x \in Places : DOMAIN M[x] = 1 .. Len(M[x])
  BY <1>4 DEF AllLists
<1>6. \A x, y \in Places : \A i \in 1 .. Len(L[x]), j \in 1 .. Len(L[y]) :
        L[x][i] = L[y][j] => x = y /\ i = j
  BY <1>1 DEF Distinct
<1>7. \A x \in Places : \A i \in 1 .. Len(L[x]) : L[x][i] \in InLists(L)
  BY InListsFact
<1> DEFINE Old(x, i) == i \in 1 .. Len(L[x]) /\ M[x][i] = L[x][i]
           Added(x, i) == x = a /\ i - m \in 1 .. n /\ M[x][i] = q[i - m]
<1>8. ASSUME NEW x \in Places, NEW i \in 1 .. Len(M[x])
      PROVE  Old(x, i) \/ Added(x, i)
  <2>1. CASE x # a
    BY <1>3, <2>1
  <2>2. CASE x = a /\ i <= m
    BY <1>1, <1>2, <2>2
  <2>3. CASE x = a /\ i > m
    BY <1>1, <1>2, <2>3
  <2> QED
    BY <1>1, <1>2, <2>1, <2>2, <2>3
<1>9. Distinct(M)
  <2> SUFFICES ASSUME NEW x \in Places, NEW y \in Places,
                      NEW i \in 1 .. Len(M[x]), NEW j \in 1 .. Len(M[y]),
                      M[x][i] = M[y][j]
               PROVE  x = y /\ i = j
    BY <1>5, SMTT(30) DEF Distinct
  <2>1. CASE Old(x, i) /\ Old(y, j)
    <3>1. L[x][i] = L[y][j]
      BY <2>1, Zenon
    <3> QED
      BY <1>6, <2>1, <3>1
  <2>2. CASE Added(x, i) /\ Added(y, j)
    <3>1. i - m = j - m
      BY <1>a, <2>2
    <3>2. i \in Int /\ j \in Int
      OBVIOUS
    <3> QED
      BY <1>1, <2>2, <3>1, <3>2
  <2>3. CASE Old(x, i) /\ Added(y, j)
    <3>1. L[x][i] \in InLists(L)
      BY <1>7, <2>3
    <3> QED
      BY <1>a, <2>3, <3>1, Zenon
  <2>4. CASE Added(x, i) /\ Old(y, j)
    <3>1. L[y][j] \in InLists(L)
      BY <1>7, <2>4
    <3> QED
      BY <1>a, <2>4, <3>1
  <2> HIDE DEF Old, Added
  <2> QED
    BY <1>8, <2>1, <2>2, <2>3, <2>4
<1>10. ASSUME NEW e \in InLists(M) PROVE e \in InLists(L) \cup Range(q)
  <2>1. PICK x \in Places : \E i \in 1 .. Len(M[x]) : M[x][i] = e
    BY <1>4, InListsFact
  <2>2. PICK i \in 1 .. Len(M[x]) : M[x][i] = e
    BY <2>1
  <2>3. CASE Old(x, i)
    BY <1>7, <2>2, <2>3
  <2>4. CASE Added(x, i)
    BY <1>0, <2>2, <2>4
  <2> QED
    BY <1>8, <2>3, <2>4
<1>11. ASSUME NEW e \in InLists(L) PROVE e \in InLists(M)
  <2>1. PICK x \in Places : \E i \in 1 .. Len(L[x]) : L[x][i] = e
    BY InListsFact
  <2>2. PICK i \in 1 .. Len(L[x]) : L[x][i] = e
    BY <2>1
  <2>3. i \in 1 .. Len(M[x]) /\ M[x][i] = e
    BY <1>1, <1>2, <1>3, <2>2
  <2> QED
    BY <1>4, <2>3, InListsFact
<1>12. ASSUME NEW e \in Range(q) PROVE e \in InLists(M)
  <2>1. PICK i \in 1 .. n : q[i] = e
    BY <1>0
  <2>2. /\ m + i \in m + 1 .. m + n /\ m + i \in 1 .. m + n /\ (m + i) - m = i
    BY <1>1
  <2>3. m + i \in 1 .. Len(M[a]) /\ M[a][m + i] = e
    BY <1>2, <2>1, <2>2
  <2> QED
    BY <1>4, <2>3, InListsFact
<1> QED
  BY <1>4, <1>9, <1>10, <1>11, <1>12, Zenon DEF M

(* A list is emptied. *)
LEMMA ClearList ==
    ASSUME NEW L \in AllLists, Distinct(L), NEW a \in Places
    PROVE  LET M == [L EXCEPT ![a] = <<>>]
           IN  /\ M \in AllLists /\ Distinct(M)
               /\ Range(L[a]) \subseteq InLists(L)
               /\ InLists(M) = InLists(L) \ Range(L[a])
<1> DEFINE M == [L EXCEPT ![a] = <<>>]
<1>1. /\ \A x \in Places : L[x] \in Seq(Block) /\ DOMAIN L[x] = 1 .. Len(L[x])
      /\ \A e : e \in Range(L[a]) <=> \E i \in 1 .. Len(L[a]) : L[a][i] = e
  BY DEF AllLists, Range
<1>2. M \in AllLists /\ M[a] = <<>> /\ Len(M[a]) = 0
  BY DEF AllLists
<1>3. \A x \in Places \ {a} : M[x] = L[x]
  BY DEF AllLists
<1>4. \A x \in Places : DOMAIN M[x] = 1 .. Len(M[x])
  BY <1>2 DEF AllLists
<1>5. \A x, y \in Places : \A i \in 1 .. Len(L[x]), j \in 1 .. Len(L[y]) :
        L[x][i] = L[y][j] => x = y /\ i = j
  BY <1>1 DEF Distinct
<1> HIDE DEF M
<1>6. \A x \in Places : \A i \in 1 .. Len(M[x]) :
        x # a /\ i \in 1 .. Len(L[x]) /\ M[x][i] = L[x][i]
  BY <1>2, <1>3
<1>7. Distinct(M)
  <2> SUFFICES ASSUME NEW x \in Places, NEW y \in Places,
                      NEW i \in 1 .. Len(M[x]), NEW j \in 1 .. Len(M[y]),
                      M[x][i] = M[y][j]
               PROVE  x = y /\ i = j
    BY <1>4, SMTT(30) DEF Distinct
  <2> QED
    BY <1>5, <1>6
<1>8. Range(L[a]) \subseteq InLists(L)
  BY <1>1, InListsFact
<1>9. ASSUME NEW e \in InLists(M) PROVE e \in InLists(L) /\ e \notin Range(L[a])
  <2>1. PICK x \in Places : \E i \in 1 .. Len(M[x]) : M[x][i] = e
    BY <1>2, InListsFact
  <2>2. PICK i \in 1 .. Len(M[x]) : M[x][i] = e
    BY <2>1
  <2>3. x # a /\ i \in 1 .. Len(L[x]) /\ L[x][i] = e
    BY <1>6, <2>2
  <2>4. e \notin Range(L[a])
    BY <1>1, <1>5, <2>3
  <2> QED
    BY <2>3, <2>4, InListsFact
<1>10. ASSUME NEW e \in InLists(L), e \notin Range(L[a]) PROVE e \in InLists(M)
  <2>1. PICK x \in Places : \E i \in 1 .. Len(L[x]) : L[x][i] = e
    BY InListsFact
  <2>2. PICK i \in 1 .. Len(L[x]) : L[x][i] = e
    BY <2>1
  <2>3. x # a
    BY <1>1, <1>10, <2>2
  <2> QED
    BY <1>2, <1>3, <2>2, <2>3, InListsFact
<1> QED
  BY <1>2, <1>7, <1>8, <1>9, <1>10, Zenon DEF M

-----------------------------------------------------------------------------
(* The classes.                                                            *)

(* A size that has a class gets blocks that are large enough for it. *)
LEMMA ClassFits ==
    ASSUME NEW n \in Nat, size_to_class(n) >= 0
    PROVE  size_to_class(n) \in Classes /\ blockSize(size_to_class(n)) >= n
<1> DEFINE k == (n + 7) \div 8
<1>1. k \in Nat /\ 8 * k >= n
  OBVIOUS
<1>2. size_to_class(n) = IF k * 8 > 4096 THEN -1 ELSE ((k * 8) \div 8) - 1
  BY DEF size_to_class, align_up, ALIGN, MAX_POOL_SIZE
<1> HIDE DEF k
<1>3. (k * 8) \div 8 = k
  BY <1>1
<1>4. k * 8 <= 4096 /\ size_to_class(n) = k - 1 /\ k - 1 >= 0
  BY <1>1, <1>2, <1>3
<1>5. size_to_class(n) \in Classes
  BY <1>1, <1>4 DEF Classes, NUM_CLASSES, MAX_POOL_SIZE, ALIGN
<1>6. blockSize(k - 1) = ((k * 8 + 15) \div 16) * 16
  BY <1>1 DEF blockSize, alignBlockSize, ALIGN
<1>7. ((k * 8 + 15) \div 16) * 16 >= k * 8
  BY <1>1
<1> QED
  BY <1>1, <1>4, <1>5, <1>6, <1>7

(* The pools of the sizes in use, none of which is a thread. *)
LEMMA ClassFact ==
    /\ UsedClasses \cap Threads = {}
    /\ \A n \in Sizes : size_to_class(n) >= 0 => size_to_class(n) \in UsedClasses
<1>1. \A n \in Nat : size_to_class(n) \in Int
  BY DEF size_to_class, align_up, ALIGN, MAX_POOL_SIZE
<1>2. \A n \in Nat : size_to_class(n) # -1 => size_to_class(n) >= 0
  BY DEF size_to_class, align_up, ALIGN, MAX_POOL_SIZE
<1>3. UsedClasses \subseteq Classes
  BY <1>2, ClassFits, MemoryPoolAssumption DEF UsedClasses
<1> QED
  BY <1>1, <1>3, MemoryPoolAssumption DEF UsedClasses

(* The lists as one function. *)
LEMMA ListsFact ==
    ASSUME TypeOK
    PROVE  /\ Lists \in AllLists
           /\ \A t \in Threads : Lists[t] = local[t]
           /\ \A c \in UsedClasses : Lists[c] = globalFreeList[c]
<1>1. \A t \in Threads : Lists[t] = local[t]
  BY DEF Lists, Places
<1>2. \A c \in UsedClasses : Lists[c] = globalFreeList[c]
  BY ClassFact DEF Lists, Places
<1>3. \A x \in Places : Lists[x] \in Seq(Block)
  BY <1>1, <1>2 DEF Places, TypeOK
<1>4. Lists = [x \in Places |-> Lists[x]]
  BY DEF Lists
<1> QED
  BY <1>1, <1>2, <1>3, <1>4, Zenon DEF AllLists

-----------------------------------------------------------------------------
(* The steps.                                                              *)

(* The end of every allocation: the last block of the cache is handed out. *)
(* L is what the lists have become before that.                            *)
LEMMA HandOut ==
    ASSUME TypeOK, OnePlace,
           NEW L \in AllLists, Distinct(L), InLists(L) \cap (Handed \cup lost) = {},
           Blocks' = InLists(L) \cup Handed \cup lost,
           NEW t \in Threads, NEW size \in Sizes, L[t] # <<>>,
           used' = used \cup {<<L[t][Len(L[t])], size>>}, lost' = lost,
           Lists' = [L EXCEPT ![t] = LeftAfter(L[t], 1)]
    PROVE  used' \subseteq Block \X Sizes /\ OnePlace' /\ Accounted'
<1> DEFINE b == L[t][Len(L[t])]
           M == [L EXCEPT ![t] = LeftAfter(L[t], 1)]
<1>1. t \in Places
  BY DEF Places
<1>2. /\ Distinct(M) /\ b \in Block /\ b \in InLists(L)
      /\ InLists(M) = InLists(L) \ {b}
  BY <1>1, TakeBack, Zenon
<1>3. Lists' = M /\ used' = used \cup {<<b, size>>}
  OBVIOUS
<1> HIDE DEF b, M
<1>4. Handed' = Handed \cup {b}
  <2>1. Handed' = {u[1] : u \in used \cup {<<b, size>>}}
    BY <1>3 DEF Handed
  <2>2. \A e : e \in Handed' <=> e \in Handed \/ e = <<b, size>>[1]
    BY <2>1, Zenon DEF Handed
  <2> QED
    BY <2>2
<1>5. used' \subseteq Block \X Sizes
  BY <1>2, <1>3 DEF TypeOK
<1>6. b \notin Handed /\ b \notin lost
  BY <1>2
<1>7. \A u, v \in used' : u[1] = v[1] => u = v
  <2>1. \A u \in used : u[1] # b
    BY <1>6 DEF Handed
  <2> QED
    BY <1>3, <2>1 DEF OnePlace
<1>8. Distinct(Lists')
  BY <1>2, <1>3, Zenon
<1>9. InLists(Lists') = InLists(L) \ {b}
  BY <1>2, <1>3, Zenon
<1>10. OnePlace'
  <2>1. Distinct(Lists)'
    BY <1>8 DEF Distinct, Places, UsedClasses
  <2>2. InLists(Lists)' = InLists(L) \ {b}
    BY <1>9 DEF InLists, Places, UsedClasses
  <2>3. Handed \cap lost = {}
    BY DEF OnePlace
  <2> QED
    BY <1>4, <1>6, <1>7, <2>1, <2>2, <2>3, ZenonT(30) DEF OnePlace
<1>11. Accounted'
  <2>1. InLists(Lists)' = InLists(L) \ {b}
    BY <1>9 DEF InLists, Places, UsedClasses
  <2> QED
    BY <1>2, <1>4, <2>1, Zenon DEF Accounted
<1> QED
  BY <1>5, <1>10, <1>11

(* A block of the cache. *)
LEMMA LocalStep ==
    ASSUME MemoryPoolInv, NEW t \in Threads, NEW size \in Sizes, AllocateLocal(t, size)
    PROVE  MemoryPoolInv'
<1> USE DEF MemoryPoolInv
<1>1. /\ Lists \in AllLists /\ Lists[t] = local[t] /\ t \in Places
  BY ListsFact DEF Places
<1>2. /\ local' = [local EXCEPT ![t] = LeftAfter(local[t], 1)] /\ local[t] # <<>>
      /\ used' = used \cup {<<local[t][Len(local[t])], size>>}
      /\ lost' = lost /\ globalFreeList' = globalFreeList /\ chunks' = chunks
  BY DEF AllocateLocal, Return
<1>3. Lists' = [Lists EXCEPT ![t] = LeftAfter(Lists[t], 1)]
  BY <1>1, <1>2, ClassFact, Zenon DEF Lists, Places, UsedClasses, TypeOK
<1>4. Blocks' = InLists(Lists) \cup Handed \cup lost
  BY <1>2 DEF Accounted, Blocks
<1>5. used' \subseteq Block \X Sizes /\ OnePlace' /\ Accounted'
  <2>1. Distinct(Lists) /\ InLists(Lists) \cap (Handed \cup lost) = {}
    BY DEF OnePlace
  <2> QED
    BY <1>1, <1>2, <1>3, <1>4, <2>1, HandOut, Zenon
<1>6. local' \in [Threads -> Seq(Block)]
  <2>1. local[t] \in Seq(Block) /\ 1 \in 0 .. Len(local[t])
    BY <1>2 DEF TypeOK
  <2>2. LeftAfter(local[t], 1) \in Seq(Block)
    BY <2>1, LeftAfterFact
  <2> QED
    BY <1>2, <2>2 DEF TypeOK
<1> QED
  BY <1>2, <1>5, <1>6 DEF TypeOK

(* What refillLocalFromGlobal moves. *)
LEMMA toMoveFact ==
    ASSUME TypeOK, NEW c \in UsedClasses
    PROVE  toMove(c) \in 0 .. Len(globalFreeList[c])
<1>1. Len(globalFreeList[c]) \in Nat
  BY DEF TypeOK
<1> QED
  BY <1>1, MemoryPoolAssumption DEF toMove

(* Blocks of the free list. *)
LEMMA RefillStep ==
    ASSUME MemoryPoolInv, NEW t \in Threads, NEW size \in Sizes, AllocateRefill(t, size)
    PROVE  MemoryPoolInv'
<1> DEFINE c == size_to_class(size)
           k == toMove(c)
           q == PoppedBack(globalFreeList[c], k)
           L == MovedOver(Lists, c, t, k)
<1> USE DEF MemoryPoolInv
<1>1. c \in UsedClasses /\ c # t
  BY ClassFact DEF AllocateRefill
<1>2. /\ Lists \in AllLists /\ Lists[t] = local[t] /\ t \in Places
      /\ Lists[c] = globalFreeList[c] /\ c \in Places
  BY <1>1, ListsFact DEF Places
<1>3. k \in 0 .. Len(Lists[c]) /\ k > 0
  BY <1>1, <1>2, toMoveFact DEF AllocateRefill
<1>4. /\ q \in Seq(Block) /\ Len(q) = k
      /\ LeftAfter(globalFreeList[c], k) \in Seq(Block)
  <2>1. globalFreeList[c] \in Seq(Block) /\ k \in 0 .. Len(globalFreeList[c])
    BY <1>1, <1>2, <1>3 DEF TypeOK
  <2> QED
    BY <2>1, PoppedBackFact, LeftAfterFact
<1>5. /\ local' = [local EXCEPT ![t] = LeftAfter(q, 1)] /\ local[t] = <<>>
      /\ used' = used \cup {<<q[Len(q)], size>>} /\ lost' = lost
      /\ globalFreeList' = [globalFreeList EXCEPT ![c] = LeftAfter(globalFreeList[c], k)]
      /\ chunks' = chunks
  BY DEF AllocateRefill, Return
<1> HIDE DEF c, k
<1>6. L \in AllLists /\ Distinct(L) /\ InLists(L) = InLists(Lists)
  <2>1. Distinct(Lists)
    BY DEF OnePlace
  <2>2. c # t /\ c \in Places /\ t \in Places /\ k \in 0 .. Len(Lists[c])
    BY <1>1, <1>2, <1>3
  <2>3. Lists \in AllLists
    BY <1>2
  <2> HIDE DEF MemoryPoolInv
  <2> QED
    BY <2>1, <2>2, <2>3, MoveBack
<1>7. /\ L[t] = q /\ L[c] = LeftAfter(globalFreeList[c], k)
      /\ \A x \in Places \ {t, c} : L[x] = Lists[x]
  <2>1. Lists[t] \o PoppedBack(Lists[c], k) = q
    BY <1>2, <1>4, <1>5
  <2> QED
    BY <1>1, <1>2, <2>1 DEF AllLists, MovedOver
<1> HIDE DEF q, L
<1>8. Lists' = [L EXCEPT ![t] = LeftAfter(L[t], 1)]
  <2> DEFINE R == [L EXCEPT ![t] = LeftAfter(L[t], 1)]
  <2>1. Lists' = [x \in Places |-> IF x \in Threads THEN local'[x] ELSE globalFreeList'[x]]
    BY DEF Lists, Places, UsedClasses
  <2>2. R = [x \in Places |-> R[x]] /\ R[t] = LeftAfter(q, 1)
        /\ \A x \in Places \ {t} : R[x] = L[x]
    BY <1>2, <1>6, <1>7, Zenon DEF AllLists
  <2> HIDE DEF R
  <2>3. ASSUME NEW x \in Places
        PROVE  R[x] = IF x \in Threads THEN local'[x] ELSE globalFreeList'[x]
    <3>1. CASE x = t
      BY <1>5, <2>2, <3>1 DEF TypeOK
    <3>2. CASE x = c
      BY <1>1, <1>5, <1>7, <2>2, <3>2, ClassFact DEF TypeOK
    <3>3. CASE x # t /\ x # c
      BY <1>5, <1>7, <2>2, <3>3, Zenon DEF Lists, Places, TypeOK
    <3> QED
      BY <3>1, <3>2, <3>3
  <2>4. Lists' = R
    BY <2>1, <2>2, <2>3
  <2> QED
    BY <2>4 DEF R
<1>9. Blocks' = InLists(L) \cup Handed \cup lost
  BY <1>5, <1>6 DEF Accounted, Blocks
<1>10. used' \subseteq Block \X Sizes /\ OnePlace' /\ Accounted'
  <2>1. InLists(L) \cap (Handed \cup lost) = {}
    BY <1>6 DEF OnePlace
  <2>2. L[t] # <<>>
    BY <1>3, <1>4, <1>7
  <2>3. used' = used \cup {<<L[t][Len(L[t])], size>>}
    BY <1>5, <1>7
  <2> QED
    BY <1>5, <1>6, <1>8, <1>9, <2>1, <2>2, <2>3, HandOut, Zenon
<1>11. local' \in [Threads -> Seq(Block)]
  <2>1. 1 \in 0 .. Len(q)
    BY <1>3, <1>4
  <2>2. LeftAfter(q, 1) \in Seq(Block)
    BY <1>4, <2>1, LeftAfterFact
  <2> QED
    BY <1>5, <2>2 DEF TypeOK
<1>12. globalFreeList' \in [UsedClasses -> Seq(Block)]
  BY <1>4, <1>5, Zenon DEF TypeOK
<1> QED
  BY <1>5, <1>10, <1>11, <1>12 DEF TypeOK, UsedClasses

(* A new chunk. *)
LEMMA ChunkStep ==
    ASSUME MemoryPoolInv, NEW t \in Threads, NEW size \in Sizes, AllocateChunk(t, size)
    PROVE  MemoryPoolInv'
<1> DEFINE q == NewChunk
           m == Len(chunks)
           L == [Lists EXCEPT ![t] = Lists[t] \o q]
<1> USE DEF MemoryPoolInv
<1>1. size_to_class(size) \in UsedClasses
  BY ClassFact DEF AllocateChunk
<1>2. /\ Lists \in AllLists /\ Lists[t] = local[t] /\ t \in Places
  BY ListsFact DEF Places
<1>3. m \in Nat /\ Blocks = (1 .. m) \X (0 .. BlocksPerChunk - 1)
  BY DEF TypeOK, Blocks
<1>4. /\ q = [i \in 1 .. BlocksPerChunk |-> <<m + 1, i - 1>>]
      /\ q \in Seq(Block) /\ Len(q) = BlocksPerChunk /\ q # <<>>
  <2>1. q = [i \in 1 .. BlocksPerChunk |-> <<m + 1, i - 1>>]
    BY DEF NewChunk
  <2>2. \A i \in 1 .. BlocksPerChunk : <<m + 1, i - 1>> \in Block
    BY <1>3, MemoryPoolAssumption DEF Block
  <2> HIDE DEF q
  <2>3. q \in Seq(Block) /\ Len(q) = BlocksPerChunk
    BY <2>1, <2>2, MemoryPoolAssumption
  <2> QED
    BY <2>1, <2>3, MemoryPoolAssumption
<1>5. /\ local' = [local EXCEPT ![t] = LeftAfter(q, 1)] /\ local[t] = <<>>
      /\ used' = used \cup {<<q[Len(q)], size>>} /\ lost' = lost
      /\ globalFreeList' = globalFreeList
      /\ chunks' = Append(chunks, size_to_class(size))
  BY DEF AllocateChunk, Return
<1>6. Blocks' = (1 .. m + 1) \X (0 .. BlocksPerChunk - 1)
  <2>1. Len(chunks') = m + 1
    BY <1>1, <1>5 DEF TypeOK
  <2> QED
    BY <2>1 DEF Blocks
<1>7. chunks' \in Seq(UsedClasses)
  BY <1>1, <1>5 DEF TypeOK
<1> HIDE DEF q, m
<1>8. /\ \A i \in 1 .. BlocksPerChunk : q[i] = <<m + 1, i - 1>>
      /\ \A i, j \in 1 .. Len(q) : q[i] = q[j] => i = j
      /\ \A i \in 1 .. Len(q) : q[i] \notin Blocks
  <2>1. \A i \in 1 .. BlocksPerChunk : q[i] = <<m + 1, i - 1>>
    BY <1>4
  <2>2. \A i, j \in 1 .. BlocksPerChunk : <<m + 1, i - 1>> = <<m + 1, j - 1>> => i = j
    BY <1>3, MemoryPoolAssumption
  <2>3. \A i \in 1 .. BlocksPerChunk : <<m + 1, i - 1>> \notin Blocks
    BY <1>3
  <2> QED
    BY <1>4, <2>1, <2>2, <2>3
<1>9. Blocks' = Blocks \cup Range(q)
  <2>0. DOMAIN q = 1 .. BlocksPerChunk
    BY <1>4
  <2>1. \A e : e \in Range(q) <=> \E i \in 1 .. BlocksPerChunk : e = <<m + 1, i - 1>>
    BY <1>8, <2>0, Zenon DEF Range
  <2>2. ASSUME NEW e \in Blocks' PROVE e \in Blocks \cup Range(q)
    <3>1. PICK k \in 1 .. m + 1 : \E i \in 0 .. BlocksPerChunk - 1 : e = <<k, i>>
      BY <1>6
    <3>2. PICK i \in 0 .. BlocksPerChunk - 1 : e = <<k, i>>
      BY <3>1
    <3>3. CASE k <= m
      BY <1>3, <3>2, <3>3
    <3>4. CASE k > m
      <4>1. k = m + 1 /\ i + 1 \in 1 .. BlocksPerChunk /\ i = (i + 1) - 1
        BY <1>3, <3>4, MemoryPoolAssumption
      <4> QED
        BY <2>1, <3>2, <4>1
    <3> QED
      BY <1>3, <3>3, <3>4
  <2>3. ASSUME NEW e \in Blocks PROVE e \in Blocks'
    BY <1>3, <1>6
  <2>4. ASSUME NEW e \in Range(q) PROVE e \in Blocks'
    <3>1. PICK i \in 1 .. BlocksPerChunk : e = <<m + 1, i - 1>>
      BY <2>1
    <3>2. m + 1 \in 1 .. m + 1 /\ i - 1 \in 0 .. BlocksPerChunk - 1
      BY <1>3, MemoryPoolAssumption
    <3> QED
      BY <1>6, <3>1, <3>2
  <2> QED
    BY <2>2, <2>3, <2>4
<1>10. L \in AllLists /\ Distinct(L) /\ InLists(L) = InLists(Lists) \cup Range(q)
  <2>1. Distinct(Lists) /\ \A i \in 1 .. Len(q) : q[i] \notin InLists(Lists)
    BY <1>8 DEF OnePlace, Accounted
  <2> HIDE DEF MemoryPoolInv
  <2> QED
    BY <1>2, <1>4, <1>8, <2>1, AddBack, ZenonT(30)
<1>11. L[t] = q /\ \A x \in Places \ {t} : L[x] = Lists[x]
  <2>1. Lists[t] \o q = q
    BY <1>2, <1>4, <1>5
  <2> QED
    BY <1>2, <2>1 DEF AllLists
<1> HIDE DEF L
<1>12. Lists' = [L EXCEPT ![t] = LeftAfter(L[t], 1)]
  <2> DEFINE R == [L EXCEPT ![t] = LeftAfter(L[t], 1)]
  <2>1. Lists' = [x \in Places |-> IF x \in Threads THEN local'[x] ELSE globalFreeList'[x]]
    BY DEF Lists, Places, UsedClasses
  <2>2. R = [x \in Places |-> R[x]] /\ R[t] = LeftAfter(q, 1)
        /\ \A x \in Places \ {t} : R[x] = L[x]
    BY <1>2, <1>10, <1>11, Zenon DEF AllLists
  <2> HIDE DEF R
  <2>3. ASSUME NEW x \in Places
        PROVE  R[x] = IF x \in Threads THEN local'[x] ELSE globalFreeList'[x]
    <3>1. CASE x = t
      BY <1>5, <2>2, <3>1 DEF TypeOK
    <3>2. CASE x # t
      BY <1>5, <1>11, <2>2, <3>2, Zenon DEF Lists, Places, TypeOK
    <3> QED
      BY <3>1, <3>2
  <2>4. Lists' = R
    BY <2>1, <2>2, <2>3
  <2> QED
    BY <2>4 DEF R
<1>13. used' \subseteq Block \X Sizes /\ OnePlace' /\ Accounted'
  <2>1. Range(q) \cap Blocks = {}
    BY <1>4, <1>8 DEF Range
  <2>2. InLists(L) \cap (Handed \cup lost) = {}
    BY <1>10, <2>1 DEF OnePlace, Accounted
  <2>3. Blocks' = InLists(L) \cup Handed \cup lost
    BY <1>9, <1>10 DEF Accounted
  <2>4. L[t] # <<>> /\ used' = used \cup {<<L[t][Len(L[t])], size>>}
    BY <1>4, <1>5, <1>11
  <2> QED
    BY <1>5, <1>10, <1>12, <2>2, <2>3, <2>4, HandOut, Zenon
<1>14. local' \in [Threads -> Seq(Block)]
  <2>1. 1 \in 0 .. Len(q)
    BY <1>4, MemoryPoolAssumption
  <2>2. LeftAfter(q, 1) \in Seq(Block)
    BY <1>4, <2>1, LeftAfterFact
  <2> QED
    BY <1>5, <2>2 DEF TypeOK
<1> QED
  BY <1>5, <1>7, <1>13, <1>14 DEF TypeOK, UsedClasses

(* How many blocks deallocate flushes. *)
LEMMA FlushFact ==
    ASSUME NEW v \in Seq(Block)
    PROVE  FlushCount(v) \in 0 .. Len(v) /\ Len(v) - FlushCount(v) <= 2 * CacheLimit
<1>1. Len(v) \in Nat /\ CacheLimit \in Nat
  BY MemoryPoolAssumption
<1>2. CASE Len(v) > CacheLimit * 2
  <2>1. FlushCount(v) = Len(v) - CacheLimit
    BY <1>2 DEF FlushCount
  <2> QED
    BY <1>1, <1>2, <2>1
<1>3. CASE ~(Len(v) > CacheLimit * 2)
  <2>1. FlushCount(v) = 0
    BY <1>3 DEF FlushCount
  <2> QED
    BY <1>1, <1>3, <2>1
<1> QED
  BY <1>2, <1>3

(* A block comes back. *)
LEMMA DeallocateStep ==
    ASSUME MemoryPoolInv, NEW t \in Threads, NEW p, NEW size, Deallocate(t, p, size)
    PROVE  MemoryPoolInv'
<1> DEFINE c == size_to_class(size)
           v == Append(local[t], p)
           k == FlushCount(v)
           L == [Lists EXCEPT ![t] = Lists[t] \o <<p>>]
           M == MovedOver(L, t, c, k)
<1> USE DEF MemoryPoolInv
<1>1. <<p, size>> \in used /\ p \in Block /\ size \in Sizes /\ p \in Handed
  <2>1. <<p, size>> \in used
    BY DEF Deallocate
  <2>2. <<p, size>>[1] \in Handed
    BY <2>1 DEF Handed
  <2> QED
    BY <2>1, <2>2 DEF TypeOK
<1>2. c \in UsedClasses /\ c # t
  BY <1>1, ClassFact DEF Deallocate
<1>3. /\ Lists \in AllLists /\ Lists[t] = local[t] /\ t \in Places
      /\ Lists[c] = globalFreeList[c] /\ c \in Places
  BY <1>2, ListsFact DEF Places
<1>4. /\ used' = used \ {<<p, size>>} /\ lost' = lost /\ chunks' = chunks
      /\ local' = [local EXCEPT ![t] = LeftAfter(v, k)]
      /\ globalFreeList' =
           [globalFreeList EXCEPT ![c] = globalFreeList[c] \o PoppedBack(v, k)]
  BY DEF Deallocate, Flush
<1>5. v \in Seq(Block) /\ v = local[t] \o <<p>>
  <2>1. local[t] \in Seq(Block)
    BY DEF TypeOK
  <2> QED
    BY <1>1, <2>1, SMTT(30)
<1>6. k \in 0 .. Len(v)
  BY <1>5, FlushFact, Zenon
<1> HIDE DEF c, v, k
<1>7. /\ LeftAfter(v, k) \in Seq(Block) /\ PoppedBack(v, k) \in Seq(Block)
  BY <1>5, <1>6, LeftAfterFact, PoppedBackFact, Zenon
<1>8. globalFreeList[c] \o PoppedBack(v, k) \in Seq(Block)
  BY <1>2, <1>7 DEF TypeOK
<1>9. L \in AllLists /\ Distinct(L) /\ InLists(L) = InLists(Lists) \cup {p}
  <2>1. Distinct(Lists) /\ p \notin InLists(Lists)
    BY <1>1 DEF OnePlace
  <2> DEFINE q == <<p>>
  <2>2. q \in Seq(Block) /\ Len(q) = 1 /\ q[1] = p /\ DOMAIN q = {1}
    BY <1>1
  <2> HIDE DEF q, MemoryPoolInv
  <2>3. Range(q) = {p}
    BY <2>2 DEF Range
  <2>4. /\ \A i, j \in 1 .. Len(q) : q[i] = q[j] => i = j
        /\ \A i \in 1 .. Len(q) : q[i] \notin InLists(Lists)
    <3>1. \A i \in 1 .. Len(q) : i = 1
      BY <2>2
    <3> QED
      BY <2>1, <2>2, <3>1
  <2>5. LET R == [Lists EXCEPT ![t] = Lists[t] \o q]
        IN  R \in AllLists /\ Distinct(R) /\ InLists(R) = InLists(Lists) \cup Range(q)
    BY <1>3, <2>1, <2>2, <2>4, AddBack, Zenon
  <2> QED
    BY <2>3, <2>5, Zenon DEF q
<1>10. L[t] = v /\ \A x \in Places \ {t} : L[x] = Lists[x]
  BY <1>3, <1>5 DEF AllLists
<1> HIDE DEF L
<1>11. M \in AllLists /\ Distinct(M) /\ InLists(M) = InLists(L)
  <2>1. t # c /\ c \in Places /\ t \in Places /\ k \in 0 .. Len(L[t])
    BY <1>2, <1>3, <1>6, <1>10
  <2> HIDE DEF MemoryPoolInv
  <2> QED
    BY <1>9, <2>1, MoveBack
<1>12. /\ M[t] = LeftAfter(v, k) /\ M[c] = globalFreeList[c] \o PoppedBack(v, k)
       /\ \A x \in Places \ {t, c} : M[x] = Lists[x]
  BY <1>2, <1>3, <1>9, <1>10, Zenon DEF AllLists, MovedOver
<1> HIDE DEF M
<1>13. Lists' = M
  <2>1. Lists' = [x \in Places |-> IF x \in Threads THEN local'[x] ELSE globalFreeList'[x]]
    BY DEF Lists, Places, UsedClasses
  <2>2. M = [x \in Places |-> M[x]]
    BY <1>11 DEF AllLists
  <2>3. ASSUME NEW x \in Places
        PROVE  M[x] = IF x \in Threads THEN local'[x] ELSE globalFreeList'[x]
    <3>1. CASE x = t
      BY <1>4, <1>12, <3>1 DEF TypeOK
    <3>2. CASE x = c
      BY <1>2, <1>4, <1>12, <3>2, ClassFact, Zenon DEF TypeOK
    <3>3. CASE x # t /\ x # c
      BY <1>4, <1>12, <3>3, Zenon DEF Lists, Places, TypeOK
    <3> QED
      BY <3>1, <3>2, <3>3
  <2> QED
    BY <2>1, <2>2, <2>3
<1>14. Distinct(Lists)' /\ InLists(Lists)' = InLists(Lists) \cup {p}
  <2>1. Distinct(Lists') /\ InLists(Lists') = InLists(Lists) \cup {p}
    BY <1>9, <1>11, <1>13
  <2> QED
    BY <2>1 DEF Distinct, InLists, Places, UsedClasses
<1>15. Handed' = Handed \ {p}
  <2>1. \A u \in used : u[1] = p <=> u = <<p, size>>
    BY <1>1 DEF OnePlace
  <2>2. Handed' = {u[1] : u \in used \ {<<p, size>>}}
    BY <1>4 DEF Handed
  <2> QED
    BY <2>1, <2>2 DEF Handed
<1>16. OnePlace'
  <2>1. \A x, y \in used' : x[1] = y[1] => x = y
    BY <1>4 DEF OnePlace
  <2>2. /\ InLists(Lists) \cap (Handed \cup lost) = {} /\ Handed \cap lost = {}
    BY DEF OnePlace
  <2>3. p \notin lost
    BY <1>1, <2>2
  <2>4. /\ InLists(Lists)' \cap (Handed' \cup lost') = {}
        /\ Handed' \cap lost' = {}
    BY <1>4, <1>14, <1>15, <2>2, <2>3
  <2> QED
    BY <1>14, <2>1, <2>4 DEF OnePlace
<1>17. Accounted'
  <2>1. Blocks' = Blocks
    BY <1>4 DEF Blocks
  <2> QED
    BY <1>1, <1>4, <1>14, <1>15, <2>1 DEF Accounted
<1>18. TypeOK'
  <2>1. local' \in [Threads -> Seq(Block)]
    BY <1>4, <1>7 DEF TypeOK
  <2>2. globalFreeList' \in [UsedClasses -> Seq(Block)]
    BY <1>4, <1>8, Zenon DEF TypeOK
  <2> QED
    BY <1>4, <2>1, <2>2 DEF TypeOK, UsedClasses
<1> QED
  BY <1>16, <1>17, <1>18

(* A thread exits. *)
LEMMA ExitStep ==
    ASSUME MemoryPoolInv, NEW t \in Threads, ThreadExit(t)
    PROVE  MemoryPoolInv'
<1> DEFINE M == [Lists EXCEPT ![t] = <<>>]
<1> USE DEF MemoryPoolInv
<1>1. /\ Lists \in AllLists /\ Lists[t] = local[t] /\ t \in Places
  BY ListsFact DEF Places
<1>2. /\ local' = [local EXCEPT ![t] = <<>>] /\ lost' = lost \cup Range(local[t])
      /\ globalFreeList' = globalFreeList /\ chunks' = chunks /\ used' = used
  BY DEF ThreadExit
<1>3. /\ M \in AllLists /\ Distinct(M) /\ Range(local[t]) \subseteq InLists(Lists)
      /\ InLists(M) = InLists(Lists) \ Range(local[t])
  <2>1. Distinct(Lists)
    BY DEF OnePlace
  <2> HIDE DEF MemoryPoolInv
  <2> QED
    BY <1>1, <2>1, ClearList, Zenon
<1>4. Lists' = M
  BY <1>1, <1>2, ClassFact, Zenon DEF Lists, Places, UsedClasses, TypeOK
<1> HIDE DEF M
<1>5. Distinct(Lists)' /\ InLists(Lists)' = InLists(Lists) \ Range(local[t])
  <2>1. Distinct(Lists') /\ InLists(Lists') = InLists(Lists) \ Range(local[t])
    BY <1>3, <1>4
  <2> QED
    BY <2>1 DEF Distinct, InLists, Places, UsedClasses
<1>6. Handed' = Handed /\ Blocks' = Blocks
  BY <1>2 DEF Handed, Blocks
<1>7. OnePlace'
  <2>1. /\ InLists(Lists) \cap (Handed \cup lost) = {} /\ Handed \cap lost = {}
        /\ \A x, y \in used : x[1] = y[1] => x = y
    BY DEF OnePlace
  <2>2. /\ InLists(Lists)' \cap (Handed' \cup lost') = {}
        /\ Handed' \cap lost' = {}
    BY <1>2, <1>3, <1>5, <1>6, <2>1
  <2> QED
    BY <1>2, <1>5, <2>1, <2>2 DEF OnePlace
<1>8. Accounted'
  BY <1>2, <1>3, <1>5, <1>6 DEF Accounted
<1>9. TypeOK'
  <2>1. Range(local[t]) \subseteq Block
    BY DEF TypeOK, Range
  <2> QED
    BY <1>2, <2>1 DEF TypeOK, UsedClasses
<1> QED
  BY <1>7, <1>8, <1>9

-----------------------------------------------------------------------------
(* The theorems.                                                           *)

(* At first the pool has no blocks. *)
LEMMA InitInv == Init => MemoryPoolInv
<1> SUFFICES ASSUME Init PROVE MemoryPoolInv
  OBVIOUS
<1>1. TypeOK
  BY DEF Init, TypeOK
<1>2. \A x \in Places : Lists[x] = <<>> /\ Range(Lists[x]) = {} /\ DOMAIN Lists[x] = {}
  <2>1. \A x \in Places : Lists[x] = <<>>
    BY <1>1, ListsFact DEF Init, Places
  <2>2. Range(<<>>) = {} /\ DOMAIN <<>> = {}
    BY DEF Range
  <2> QED
    BY <2>1, <2>2
<1>3. InLists(Lists) = {} /\ Distinct(Lists)
  BY <1>2, SMTT(30) DEF InLists, Distinct
<1>4. Handed = {} /\ lost = {} /\ used = {} /\ Blocks = {}
  BY DEF Init, Handed, Blocks
<1> QED
  BY <1>1, <1>3, <1>4 DEF MemoryPoolInv, OnePlace, Accounted

(* Every step of the pool keeps its invariant. *)
LEMMA NextInv == MemoryPoolInv /\ [Next]_vars => MemoryPoolInv'
<1> SUFFICES ASSUME MemoryPoolInv, [Next]_vars PROVE MemoryPoolInv'
  OBVIOUS
<1>1. CASE Next
  <2>1. PICK t \in Threads :
            \/ \E size \in Sizes : Allocate(t, size)
            \/ \E u \in used : Deallocate(t, u[1], u[2])
            \/ ThreadExit(t)
    BY <1>1 DEF Next
  <2>2. ASSUME NEW size \in Sizes, Allocate(t, size) PROVE MemoryPoolInv'
    BY <2>2, LocalStep, RefillStep, ChunkStep DEF Allocate
  <2>3. ASSUME NEW u \in used, Deallocate(t, u[1], u[2]) PROVE MemoryPoolInv'
    BY <2>3, DeallocateStep
  <2>4. CASE ThreadExit(t)
    BY <2>4, ExitStep
  <2> QED
    BY <2>1, <2>2, <2>3, <2>4
<1>2. CASE UNCHANGED vars
  <2>1. Lists' = Lists /\ Handed' = Handed /\ Blocks' = Blocks
    BY <1>2 DEF vars, Lists, Handed, Blocks, Places, UsedClasses
  <2>2. InLists(Lists)' = InLists(Lists) /\ (Distinct(Lists)' <=> Distinct(Lists))
    BY <2>1 DEF InLists, Distinct, Places, UsedClasses
  <2>3. TypeOK'
    BY <1>2 DEF vars, TypeOK, UsedClasses, MemoryPoolInv
  <2> QED
    BY <1>2, <2>1, <2>2, <2>3 DEF vars, MemoryPoolInv, OnePlace, Accounted
<1> QED
  BY <1>1, <1>2

(* For any threads, sizes and limits: no block of a chunk is in the hands  *)
(* of two users or twice in the caches and free lists, and every block is  *)
(* in use, in a list, or lost with the cache of a thread that has exited,  *)
(* whatever allocate, deallocate, refillLocalFromGlobal,                   *)
(* allocateChunkToLocal and flushLocalToGlobal move.                       *)
THEOREM MemoryPoolInvariant == Spec => []MemoryPoolInv
  BY InitInv, NextInv, PTL DEF Spec

(* For any limits: the cache of a thread never holds more than twice       *)
(* localCacheLimit_ blocks, unless they are the rest of a chunk.           *)
THEOREM CacheBounded == Spec => []CacheBound
<1>1. Init => CacheBound
  BY MemoryPoolAssumption DEF Init, CacheBound
<1>2. MemoryPoolInv /\ CacheBound /\ [Next]_vars => CacheBound'
  <2> SUFFICES ASSUME MemoryPoolInv, CacheBound, [Next]_vars, NEW t \in Threads
               PROVE  \/ Len(local'[t]) <= 2 * CacheLimit
                      \/ Len(local'[t]) <= BlocksPerChunk - 1
    BY DEF CacheBound
  <2>0. /\ local \in [Threads -> Seq(Block)] /\ local[t] \in Seq(Block)
        /\ Len(local[t]) \in Nat /\ CacheLimit \in Nat /\ BlocksPerChunk \in Nat
        /\ Len(local[t]) <= 2 * CacheLimit \/ Len(local[t]) <= BlocksPerChunk - 1
    BY MemoryPoolAssumption DEF MemoryPoolInv, TypeOK, CacheBound
  <2>1. CASE local'[t] = local[t]
    BY <2>0, <2>1
  <2>2. ASSUME NEW size \in Sizes, AllocateLocal(t, size)
        PROVE  Len(local'[t]) = Len(local[t]) - 1
    <3>1. local'[t] = LeftAfter(local[t], 1) /\ 1 \in 0 .. Len(local[t])
      BY <2>0, <2>2 DEF AllocateLocal, Return
    <3> QED
      BY <2>0, <3>1, LeftAfterFact
  <2>3. ASSUME NEW size \in Sizes, AllocateRefill(t, size)
        PROVE  Len(local'[t]) <= 2 * CacheLimit
    <3> DEFINE c == size_to_class(size)
               q == PoppedBack(globalFreeList[c], toMove(c))
    <3>1. c \in UsedClasses /\ local'[t] = LeftAfter(q, 1) /\ toMove(c) > 0
      BY <2>0, <2>3, ClassFact DEF AllocateRefill, Return
    <3> HIDE DEF c
    <3>2. /\ globalFreeList[c] \in Seq(Block)
          /\ toMove(c) \in 0 .. Len(globalFreeList[c]) /\ toMove(c) <= CacheLimit
      <4>1. globalFreeList[c] \in Seq(Block) /\ Len(globalFreeList[c]) \in Nat
        BY <3>1 DEF MemoryPoolInv, TypeOK
      <4> QED
        BY <2>0, <4>1 DEF toMove
    <3>3. q \in Seq(Block) /\ Len(q) = toMove(c)
      BY <3>2, PoppedBackFact
    <3> HIDE DEF q
    <3>4. 1 \in 0 .. Len(q)
      BY <3>1, <3>2, <3>3
    <3>5. Len(local'[t]) = Len(q) - 1
      BY <3>1, <3>3, <3>4, LeftAfterFact
    <3> QED
      BY <2>0, <3>2, <3>3, <3>5
  <2>4. ASSUME NEW size \in Sizes, AllocateChunk(t, size)
        PROVE  Len(local'[t]) = BlocksPerChunk - 1
    <3> DEFINE q == NewChunk
    <3>1. local'[t] = LeftAfter(q, 1)
      BY <2>0, <2>4 DEF AllocateChunk, Return
    <3>2. /\ \A i \in 1 .. BlocksPerChunk : <<Len(chunks) + 1, i - 1>> \in Block
          /\ BlocksPerChunk \in Nat \ {0}
      BY MemoryPoolAssumption, SMTT(30) DEF MemoryPoolInv, TypeOK, Block
    <3>3. q = [i \in 1 .. BlocksPerChunk |-> <<Len(chunks) + 1, i - 1>>]
      BY DEF NewChunk
    <3> HIDE DEF q
    <3>4. q \in Seq(Block) /\ Len(q) = BlocksPerChunk /\ 1 \in 0 .. Len(q)
      BY <3>2, <3>3
    <3> QED
      BY <3>1, <3>4, LeftAfterFact
  <2>5. ASSUME NEW u \in used, Deallocate(t, u[1], u[2])
        PROVE  Len(local'[t]) <= 2 * CacheLimit
    <3> DEFINE v == Append(local[t], u[1])
    <3>1. local'[t] = LeftAfter(v, FlushCount(v))
      BY <2>0, <2>5 DEF Deallocate, Flush
    <3>2. u[1] \in Block
      BY DEF MemoryPoolInv, TypeOK
    <3>3. v \in Seq(Block)
      BY <2>0, <3>2
    <3> HIDE DEF v
    <3>4. FlushCount(v) \in 0 .. Len(v) /\ Len(v) - FlushCount(v) <= 2 * CacheLimit
      BY <3>3, FlushFact
    <3>5. Len(local'[t]) = Len(v) - FlushCount(v)
      BY <3>1, <3>3, <3>4, LeftAfterFact, Zenon
    <3> QED
      BY <3>4, <3>5
  <2>6. CASE ThreadExit(t)
    <3>1. local'[t] = <<>>
      BY <2>0, <2>6 DEF ThreadExit
    <3>2. Len(local'[t]) = 0
      BY <3>1
    <3> QED
      BY <2>0, <3>2
  <2>7. \/ local'[t] = local[t]
        \/ \E size \in Sizes : Allocate(t, size)
        \/ \E u \in used : Deallocate(t, u[1], u[2])
        \/ ThreadExit(t)
    <3>1. CASE UNCHANGED vars
      BY <3>1 DEF vars
    <3>2. ASSUME NEW s \in Threads, s # t,
                 \/ \E size \in Sizes : Allocate(s, size)
                 \/ \E u \in used : Deallocate(s, u[1], u[2])
                 \/ ThreadExit(s)
          PROVE  local'[t] = local[t]
      BY <2>0, <3>2, Zenon DEF Allocate, AllocateLocal, AllocateRefill, AllocateChunk, Return,
                       Deallocate, Flush, ThreadExit
    <3> QED
      BY <3>1, <3>2 DEF Next
  <2>8. ASSUME NEW size \in Sizes, Allocate(t, size)
        PROVE  \/ Len(local'[t]) <= 2 * CacheLimit
               \/ Len(local'[t]) <= BlocksPerChunk - 1
    <3>1. CASE AllocateLocal(t, size)
      BY <2>0, <2>2, <3>1
    <3>2. CASE AllocateRefill(t, size)
      BY <2>3, <3>2
    <3>3. CASE AllocateChunk(t, size)
      BY <2>0, <2>4, <3>3
    <3> QED
      BY <2>8, <3>1, <3>2, <3>3 DEF Allocate
  <2> QED
    BY <2>1, <2>5, <2>6, <2>7, <2>8
<1> QED
  BY <1>1, <1>2, MemoryPoolInvariant, PTL DEF Spec


(* allocate hands out blocks only for sizes that have a class. *)
ClassInv == \A u \in used : size_to_class(u[2]) >= 0

(* Only sizes that have a class reach a pool. *)
LEMMA ClassInvariant == Spec => []ClassInv
<1>1. Init => ClassInv
  BY DEF Init, ClassInv
<1>2. ClassInv /\ [Next]_vars => ClassInv'
  <2> SUFFICES ASSUME ClassInv, [Next]_vars, NEW u \in used'
               PROVE  size_to_class(u[2]) >= 0
    BY DEF ClassInv
  <2>1. CASE u \in used
    BY <2>1 DEF ClassInv
  <2>2. ASSUME NEW t \in Threads, NEW size \in Sizes, Allocate(t, size), u \notin used
        PROVE  u[2] = size /\ size_to_class(size) >= 0
    BY <2>2 DEF Allocate, AllocateLocal, AllocateRefill, AllocateChunk, Return
  <2>3. CASE u \notin used
    <3>1. PICK t \in Threads : \E size \in Sizes : Allocate(t, size)
      BY <2>3, Zenon DEF Next, vars, Deallocate, ThreadExit
    <3> QED
      BY <2>2, <2>3, <3>1
  <2> QED
    BY <2>1, <2>3
<1> QED
  BY <1>1, <1>2, PTL DEF Spec

(* The blocks of the list v were made for the block size n. *)
Made(ch, v, n) == \A i \in DOMAIN v : blockSize(ch[v[i][1]]) = n

(* The lists that the loops of the pool make of such a list are such lists. *)
LEMMA MadeMoved ==
    ASSUME NEW ch, NEW n, NEW v \in Seq(Block), Made(ch, v, n), NEW k \in 0 .. Len(v)
    PROVE  Made(ch, LeftAfter(v, k), n) /\ Made(ch, PoppedBack(v, k), n)
<1> DEFINE l == LeftAfter(v, k)
           q == PoppedBack(v, k)
<1>1. \A i \in 1 .. Len(v) : blockSize(ch[v[i][1]]) = n
  BY DEF Made
<1>2. DOMAIN l = 1 .. Len(v) - k /\ \A i \in 1 .. Len(v) - k : i \in 1 .. Len(v) /\ l[i] = v[i]
  <2>1. l \in Seq(Block) /\ Len(l) = Len(v) - k /\ \A i \in 1 .. Len(v) - k : l[i] = v[i]
    BY LeftAfterFact, Zenon
  <2>2. \A i \in 1 .. Len(v) - k : i \in 1 .. Len(v)
    OBVIOUS
  <2> HIDE DEF l
  <2> QED
    BY <2>1, <2>2
<1>3. DOMAIN q = 1 .. k /\ \A i \in 1 .. k : q[i] = v[Len(v) + 1 - i]
  BY PoppedBackFact
<1>4. \A i \in 1 .. k : Len(v) + 1 - i \in 1 .. Len(v)
  OBVIOUS
<1> HIDE DEF l, q
<1>5. Made(ch, l, n)
  BY <1>1, <1>2, Zenon DEF Made
<1>6. Made(ch, q, n)
  BY <1>1, <1>3, <1>4, Zenon DEF Made
<1> QED
  BY <1>5, <1>6 DEF l, q

(* And so are two of them one after the other. *)
LEMMA MadeJoined ==
    ASSUME NEW ch, NEW n, NEW v \in Seq(Block), NEW u \in Seq(Block),
           Made(ch, v, n), Made(ch, u, n)
    PROVE  Made(ch, v \o u, n)
<1>1. ASSUME NEW i \in DOMAIN (v \o u) PROVE blockSize(ch[(v \o u)[i][1]]) = n
  <2>1. CASE i \in 1 .. Len(v)
    BY <2>1, ConcatFact DEF Made
  <2>2. CASE i \in Len(v) + 1 .. Len(v) + Len(u)
    <3>1. i - Len(v) \in DOMAIN u /\ (v \o u)[i] = u[i - Len(v)]
      BY <2>2, ConcatFact
    <3> QED
      BY <3>1 DEF Made
  <2> QED
    BY <2>1, <2>2, ConcatFact
<1> QED
  BY <1>1 DEF Made

(* Block sizes are kept apart: a free list has the blocks of its own pool  *)
(* or of one with the same block size, a cache has blocks of one size, and *)
(* so have the blocks that were handed out for sizes of one class.         *)
SizesInv ==
    /\ \A c \in UsedClasses : Made(chunks, globalFreeList[c], blockSize(c))
    /\ \A t \in Threads : \A i, j \in DOMAIN local[t] :
         blockSize(chunks[local[t][i][1]]) = blockSize(chunks[local[t][j][1]])
    /\ \A u \in used : blockSize(chunks[u[1][1]]) = blockSize(size_to_class(u[2]))

(* A new chunk changes nothing for the blocks that exist. *)
LEMMA ChunksGrow ==
    ASSUME MemoryPoolInv, NEW c, chunks' = chunks \/ chunks' = Append(chunks, c)
    PROVE  /\ \A b \in Blocks : chunks'[b[1]] = chunks[b[1]]
           /\ \A x \in Threads : \A i \in DOMAIN local[x] : local[x][i] \in Blocks
           /\ \A x \in UsedClasses : \A i \in DOMAIN globalFreeList[x] :
                globalFreeList[x][i] \in Blocks
           /\ \A u \in used : u[1] \in Blocks
<1>1. \A b \in Blocks : chunks'[b[1]] = chunks[b[1]]
  BY DEF Blocks, MemoryPoolInv, TypeOK
<1>2. \A x \in Places : \A i \in DOMAIN Lists[x] : Lists[x][i] \in Blocks
  BY DEF MemoryPoolInv, Accounted, InLists, Range
<1>3. \A u \in used : u[1] \in Blocks
  BY DEF MemoryPoolInv, Accounted, Handed
<1> QED
  BY <1>1, <1>2, <1>3, ListsFact DEF Places, MemoryPoolInv

(* A call for the class c leaves blocks of its size in the cache of t and  *)
(* in the free list of c, and hands out at most one such block.            *)
LEMMA SizesKept ==
    ASSUME MemoryPoolInv, SizesInv, NEW t \in Threads, NEW c \in UsedClasses,
           chunks' = chunks \/ chunks' = Append(chunks, c),
           NEW l, local' = [local EXCEPT ![t] = l], Made(chunks', l, blockSize(c)),
           NEW g, globalFreeList' = [globalFreeList EXCEPT ![c] = g],
           Made(chunks', g, blockSize(c)),
           \A u \in used' : \/ u \in used
                            \/ /\ size_to_class(u[2]) = c
                               /\ blockSize(chunks'[u[1][1]]) = blockSize(c)
    PROVE  SizesInv'
<1>1. /\ \A b \in Blocks : chunks'[b[1]] = chunks[b[1]]
      /\ \A x \in Threads : \A i \in DOMAIN local[x] : local[x][i] \in Blocks
      /\ \A x \in UsedClasses : \A i \in DOMAIN globalFreeList[x] :
           globalFreeList[x][i] \in Blocks
      /\ \A u \in used : u[1] \in Blocks
  BY ChunksGrow
<1>2. \A x \in UsedClasses : Made(chunks', globalFreeList'[x], blockSize(x))
  <2>1. /\ globalFreeList'[c] = g
        /\ \A x \in UsedClasses : x # c => globalFreeList'[x] = globalFreeList[x]
    BY DEF MemoryPoolInv, TypeOK
  <2> QED
    BY <1>1, <2>1 DEF SizesInv, Made
<1>3. \A x \in Threads : \A i, j \in DOMAIN local'[x] :
         blockSize(chunks'[local'[x][i][1]]) = blockSize(chunks'[local'[x][j][1]])
  <2>1. local'[t] = l /\ \A x \in Threads : x # t => local'[x] = local[x]
    BY DEF MemoryPoolInv, TypeOK
  <2> QED
    BY <1>1, <2>1 DEF SizesInv, Made
<1>4. \A u \in used' : blockSize(chunks'[u[1][1]]) = blockSize(size_to_class(u[2]))
  BY <1>1 DEF SizesInv
<1> QED
  BY <1>2, <1>3, <1>4 DEF SizesInv, UsedClasses

(* The last block of the list v is handed out, which has blocks of the     *)
(* size for c.                                                             *)
LEMMA SizesReturn ==
    ASSUME MemoryPoolInv, SizesInv, NEW t \in Threads, NEW size \in Sizes,
           NEW c \in UsedClasses, c = size_to_class(size),
           chunks' = chunks \/ chunks' = Append(chunks, c),
           NEW v \in Seq(Block), v # <<>>, Made(chunks', v, blockSize(c)), Return(t, v, size),
           NEW g, globalFreeList' = [globalFreeList EXCEPT ![c] = g],
           Made(chunks', g, blockSize(c))
    PROVE  SizesInv'
<1>1. Len(v) \in DOMAIN v /\ 1 \in 0 .. Len(v)
  OBVIOUS
<1>2. Made(chunks', LeftAfter(v, 1), blockSize(c))
  BY <1>1, MadeMoved
<1>3. blockSize(chunks'[v[Len(v)][1]]) = blockSize(c)
  BY <1>1 DEF Made
<1>4. \A u \in used' : \/ u \in used
                       \/ /\ size_to_class(u[2]) = c
                          /\ blockSize(chunks'[u[1][1]]) = blockSize(c)
  BY <1>3 DEF Return
<1>5. local' = [local EXCEPT ![t] = LeftAfter(v, 1)]
  BY DEF Return
<1> QED
  BY <1>2, <1>4, <1>5, SizesKept, Zenon

(* allocate. *)
LEMMA SizesAllocate ==
    ASSUME MemoryPoolInv, SizesInv, SizesApart, NEW t \in Threads, NEW size \in Sizes,
           Allocate(t, size)
    PROVE  SizesInv'
<1> DEFINE c == size_to_class(size)
           g == globalFreeList[c]
           k == toMove(c)
<1>1. c \in UsedClasses
  BY ClassFact DEF Allocate, AllocateLocal, AllocateRefill, AllocateChunk
<1>2. /\ local[t] \in Seq(Block) /\ g \in Seq(Block) /\ Made(chunks, g, blockSize(c))
      /\ local \in [Threads -> Seq(Block)] /\ globalFreeList = [globalFreeList EXCEPT ![c] = g]
  BY <1>1 DEF MemoryPoolInv, TypeOK, SizesInv
<1>3. CASE AllocateLocal(t, size)
  <2> DEFINE v == local[t]
             u == <<v[Len(v)], size>>
  <2>1. v # <<>> /\ Return(t, v, size) /\ chunks' = chunks /\ globalFreeList' = globalFreeList
    BY <1>3 DEF AllocateLocal
  <2>2. local'[t] # local[t]
    <3>1. local'[t] = LeftAfter(v, 1)
      BY <1>2, <2>1 DEF Return
    <3>2. 1 \in 0 .. Len(v) /\ Len(v) \in Nat
      BY <1>2, <2>1
    <3>3. Len(LeftAfter(v, 1)) = Len(v) - 1
      BY <1>2, <3>2, LeftAfterFact
    <3> QED
      BY <3>1, <3>2, <3>3
  <2>3. u \in used' \ used
    <3>1. v[Len(v)] \notin Handed
      <4>1. Lists[t] = v /\ t \in Places
        BY ListsFact DEF MemoryPoolInv, Places
      <4>2. v[Len(v)] \in InLists(Lists)
        BY <1>2, <2>1, <4>1 DEF InLists, Range
      <4> QED
        BY <4>2 DEF MemoryPoolInv, OnePlace
    <3>2. u[1] = v[Len(v)]
      OBVIOUS
    <3> QED
      BY <2>1, <3>1, <3>2 DEF Return, Handed
  <2>4. u[2] = size
    OBVIOUS
  <2>5. Made(chunks', v, blockSize(c))
    BY <2>1, <2>2, <2>3, <2>4 DEF SizesApart, Made
  <2> QED
    BY <1>1, <1>2, <2>1, <2>5, SizesReturn
<1>4. CASE AllocateRefill(t, size)
  <2> DEFINE v == PoppedBack(g, k)
  <2>1. k > 0 /\ Return(t, v, size) /\ chunks' = chunks
        /\ globalFreeList' = [globalFreeList EXCEPT ![c] = LeftAfter(g, k)]
    BY <1>4 DEF AllocateRefill
  <2>2. k \in 0 .. Len(g)
    BY <1>1, toMoveFact DEF MemoryPoolInv
  <2>3. v \in Seq(Block) /\ Len(v) = k
    BY <1>2, <2>2, PoppedBackFact
  <2>4. v # <<>>
    BY <2>1, <2>2, <2>3
  <2>5. Made(chunks', v, blockSize(c)) /\ Made(chunks', LeftAfter(g, k), blockSize(c))
    BY <1>2, <2>1, <2>2, MadeMoved
  <2> QED
    BY <1>1, <2>1, <2>3, <2>4, <2>5, SizesReturn, Zenon
<1>5. CASE AllocateChunk(t, size)
  <2>1. /\ Return(t, NewChunk, size) /\ chunks' = Append(chunks, c)
        /\ globalFreeList' = globalFreeList
    BY <1>5 DEF AllocateChunk
  <2>2. Len(chunks) \in Nat /\ BlocksPerChunk \in Nat \ {0}
    BY MemoryPoolAssumption DEF MemoryPoolInv, TypeOK
  <2>3. NewChunk \in Seq(Block) /\ NewChunk # <<>>
    BY <2>2 DEF NewChunk, Block
  <2>4. Made(chunks', NewChunk, blockSize(c))
    <3>1. chunks'[Len(chunks) + 1] = c
      BY <2>1 DEF MemoryPoolInv, TypeOK
    <3>2. \A i \in DOMAIN NewChunk : NewChunk[i][1] = Len(chunks) + 1
      BY <2>2 DEF NewChunk
    <3> QED
      BY <3>1, <3>2 DEF Made
  <2>5. Made(chunks', g, blockSize(c))
    BY <1>1, <1>2, <2>1, ChunksGrow, Zenon DEF Made
  <2> QED
    BY <1>1, <1>2, <2>1, <2>3, <2>4, <2>5, SizesReturn
<1> QED
  BY <1>3, <1>4, <1>5 DEF Allocate

(* deallocate.  That the cache is unchanged happens with localCacheLimit_  *)
(* 0, when it is empty and the block goes on to the free list.             *)
LEMMA SizesDeallocate ==
    ASSUME MemoryPoolInv, SizesInv, SizesApart, NEW t \in Threads, NEW u \in used,
           Deallocate(t, u[1], u[2])
    PROVE  SizesInv'
<1> DEFINE p == u[1]
           c == size_to_class(u[2])
           v == Append(local[t], p)
           k == FlushCount(v)
           g == globalFreeList[c]
<1>1. /\ c >= 0 /\ used' = used \ {<<p, u[2]>>} /\ chunks' = chunks
      /\ local' = [local EXCEPT ![t] = LeftAfter(v, k)]
      /\ globalFreeList' = [globalFreeList EXCEPT ![c] = g \o PoppedBack(v, k)]
  BY DEF Deallocate, Flush
<1>2. u[2] \in Sizes /\ p \in Block /\ u = <<p, u[2]>> /\ local[t] \in Seq(Block)
  BY DEF MemoryPoolInv, TypeOK
<1>3. c \in UsedClasses /\ g \in Seq(Block) /\ Made(chunks, g, blockSize(c))
  <2>1. c \in UsedClasses
    BY <1>1, <1>2, ClassFact
  <2> QED
    BY <2>1 DEF MemoryPoolInv, TypeOK, SizesInv
<1>4. v \in Seq(Block) /\ Len(v) = Len(local[t]) + 1
  BY <1>2
<1>5. k \in 0 .. Len(v)
  BY <1>4, FlushFact, Zenon
<1>6. Made(chunks, local[t], blockSize(c))
  <2>1. CASE local'[t] # local[t]
    BY <1>1, <1>2, <2>1 DEF SizesApart, Made
  <2>2. CASE local'[t] = local[t]
    <3>1. LeftAfter(v, k) = local[t] /\ Len(LeftAfter(v, k)) = Len(v) - k
      BY <1>1, <1>4, <1>5, <2>2, LeftAfterFact, Zenon DEF MemoryPoolInv, TypeOK
    <3>2. k = 1 /\ Len(local[t]) \in Nat
      BY <1>2, <1>4, <1>5, <3>1
    <3>3. Len(v) > CacheLimit * 2 /\ Len(v) - CacheLimit = 1 /\ CacheLimit \in Nat
      BY <3>2, MemoryPoolAssumption DEF FlushCount
    <3>4. Len(local[t]) = 0
      BY <1>4, <3>2, <3>3
    <3> QED
      BY <1>2, <3>4 DEF Made
  <2> QED
    BY <2>1, <2>2
<1>7. Made(chunks, v, blockSize(c))
  <2>1. blockSize(chunks[p[1]]) = blockSize(c)
    BY DEF SizesInv
  <2>2. \A i \in DOMAIN v : (i \in DOMAIN local[t] /\ v[i] = local[t][i]) \/ v[i] = p
    BY <1>2
  <2> QED
    BY <1>6, <2>1, <2>2 DEF Made
<1>8. Made(chunks, LeftAfter(v, k), blockSize(c)) /\ Made(chunks, PoppedBack(v, k), blockSize(c))
  BY <1>4, <1>5, <1>7, MadeMoved, Zenon
<1>9. Made(chunks, g \o PoppedBack(v, k), blockSize(c))
  BY <1>3, <1>4, <1>5, <1>8, PoppedBackFact, MadeJoined, Zenon
<1> QED
  BY <1>1, <1>3, <1>8, <1>9, SizesKept, Zenon

(* The sizes stay apart with every step of such a program. *)
LEMMA SizesInvNext ==
    ASSUME MemoryPoolInv, SizesInv, [Next]_vars, [SizesApart]_vars
    PROVE  SizesInv'
<1>1. CASE UNCHANGED vars
  BY <1>1 DEF vars, SizesInv, Made, UsedClasses
<1>2. CASE Next /\ SizesApart
  <2>1. PICK t \in Threads :
            \/ \E size \in Sizes : Allocate(t, size)
            \/ \E u \in used : Deallocate(t, u[1], u[2])
            \/ ThreadExit(t)
    BY <1>2 DEF Next
  <2>2. CASE ThreadExit(t)
    <3>1. /\ local' = [local EXCEPT ![t] = <<>>] /\ globalFreeList' = globalFreeList
          /\ chunks' = chunks /\ used' = used
      BY <2>2 DEF ThreadExit
    <3>2. local'[t] = <<>> /\ \A x \in Threads : x # t => local'[x] = local[x]
      BY <3>1 DEF MemoryPoolInv, TypeOK
    <3> QED
      BY <3>1, <3>2 DEF SizesInv, Made, UsedClasses
  <2> QED
    BY <1>2, <2>1, <2>2, SizesAllocate, SizesDeallocate
<1> QED
  BY <1>1, <1>2

(* For any threads, sizes, limits and numbers of chunks, and sizes of any  *)
(* classes: every block is large enough for what it was handed out for, as *)
(* long as no thread allocates or frees a size while its cache holds       *)
(* blocks made for another block size.  So the cache that localCache()     *)
(* shares among all pools is the only way to a block that is too small;    *)
(* chunks, free lists, refills, flushes and blocks freed by other threads  *)
(* are not.                                                                *)
THEOREM BlocksFit == Spec /\ [][SizesApart]_vars => []SizeFits
<1>1. Init => SizesInv
  BY DEF Init, SizesInv, Made
<1>2. MemoryPoolInv /\ SizesInv /\ [Next]_vars /\ [SizesApart]_vars => SizesInv'
  BY SizesInvNext
<1>3. MemoryPoolInv /\ ClassInv /\ SizesInv => SizeFits
  <2> SUFFICES ASSUME MemoryPoolInv, ClassInv, SizesInv, NEW u \in used
               PROVE  blockSize(chunks[u[1][1]]) >= u[2]
    BY DEF SizeFits
  <2>1. u[2] \in Nat /\ size_to_class(u[2]) >= 0
    BY MemoryPoolAssumption, Zenon DEF MemoryPoolInv, TypeOK, ClassInv
  <2>2. blockSize(size_to_class(u[2])) >= u[2]
    BY <2>1, ClassFits
  <2> QED
    BY <2>2 DEF SizesInv
<1> QED
  BY <1>1, <1>2, <1>3, MemoryPoolInvariant, ClassInvariant, PTL DEF Spec

-----------------------------------------------------------------------------
(* The calls of Allocator.                                                 *)

CallSet == [p : Block, r : Requests, made : Nat, phase : {"construct", "destroy"}]
ObjectSet == [p : Block, r : Requests]
Stacks == [Threads -> Seq(CallSet)]

AllocTypeOK == stack \in Stacks /\ objects \subseteq ObjectSet

(* No block is twice in the stacks S, and the calls in them. *)
Once(S) ==
    \A t, s \in Threads : \A i \in DOMAIN S[t], j \in DOMAIN S[s] :
        S[t][i].p = S[s][j].p => t = s /\ i = j
CallsIn(S) == UNION {Range(S[t]) : t \in Threads}

-----------------------------------------------------------------------------
(* Stacks.                                                                 *)

(* A call is in the stacks iff it is at a position of one of them. *)
LEMMA CallsInFact ==
    ASSUME NEW S \in Stacks
    PROVE  /\ \A t \in Threads : S[t] \in Seq(CallSet) /\ DOMAIN S[t] = 1 .. Len(S[t])
           /\ CallsIn(S) \subseteq CallSet
           /\ \A c : c \in CallsIn(S) <=>
                \E t \in Threads : \E i \in 1 .. Len(S[t]) : S[t][i] = c
<1>1. \A t \in Threads : S[t] \in Seq(CallSet) /\ DOMAIN S[t] = 1 .. Len(S[t])
  BY DEF Stacks
<1>2. \A t \in Threads : \A c : c \in Range(S[t]) <=> \E i \in 1 .. Len(S[t]) : S[t][i] = c
  BY <1>1 DEF Range
<1>3. \A c : c \in CallsIn(S) <=> \E t \in Threads : c \in Range(S[t])
  BY DEF CallsIn
<1>4. \A c : c \in CallsIn(S) <=>
         \E t \in Threads : \E i \in 1 .. Len(S[t]) : S[t][i] = c
  BY <1>2, <1>3, Zenon
<1>5. \A t \in Threads : \A i \in 1 .. Len(S[t]) : S[t][i] \in CallSet
  BY <1>1
<1> QED
  BY <1>1, <1>4, <1>5

(* A call with a new block begins. *)
LEMMA PushCall ==
    ASSUME NEW S \in Stacks, Once(S), NEW t \in Threads, NEW c \in CallSet,
           \A d \in CallsIn(S) : d.p # c.p
    PROVE  LET T == [S EXCEPT ![t] = Append(S[t], c)]
           IN  T \in Stacks /\ Once(T) /\ CallsIn(T) = CallsIn(S) \cup {c}
<1> DEFINE T == [S EXCEPT ![t] = Append(S[t], c)]
           n == Len(S[t])
<1>1. \A s \in Threads : S[s] \in Seq(CallSet) /\ DOMAIN S[s] = 1 .. Len(S[s])
                         /\ Len(S[s]) \in Nat
  BY CallsInFact
<1>2. /\ n \in Nat /\ T \in Stacks
      /\ T[t] = Append(S[t], c) /\ \A s \in Threads \ {t} : T[s] = S[s]
  BY <1>1 DEF Stacks
<1>3. /\ Len(T[t]) = n + 1 /\ T[t][n + 1] = c
      /\ \A i \in 1 .. n : T[t][i] = S[t][i]
  BY <1>1, <1>2
<1>4. \A s \in Threads : DOMAIN T[s] = 1 .. Len(T[s])
  BY <1>2, CallsInFact
<1>5. \A s \in Threads : \A i \in 1 .. Len(T[s]) :
        \/ s = t /\ i = n + 1 /\ T[s][i] = c
        \/ i \in 1 .. Len(S[s]) /\ T[s][i] = S[s][i]
  BY <1>1, <1>2, <1>3 DEF n
<1>6. \A s \in Threads : \A i \in 1 .. Len(S[s]) :
        i \in 1 .. Len(T[s]) /\ T[s][i] = S[s][i]
  BY <1>1, <1>2, <1>3 DEF n
<1>7. \A s \in Threads : \A i \in 1 .. Len(S[s]) : S[s][i].p # c.p
  BY CallsInFact
<1>8. \A s, u \in Threads : \A i \in 1 .. Len(S[s]), j \in 1 .. Len(S[u]) :
        S[s][i].p = S[u][j].p => s = u /\ i = j
  BY <1>1 DEF Once
<1>9. n + 1 \in 1 .. Len(T[t]) /\ T[t][n + 1] = c
  BY <1>2, <1>3, SMTT(30)
<1> HIDE DEF T, n
<1>10. Once(T)
  <2> SUFFICES ASSUME NEW s \in Threads, NEW u \in Threads,
                      NEW i \in 1 .. Len(T[s]), NEW j \in 1 .. Len(T[u]),
                      T[s][i].p = T[u][j].p
               PROVE  s = u /\ i = j
    BY <1>4 DEF Once
  <2>1. CASE i \in 1 .. Len(S[s]) /\ T[s][i] = S[s][i]
    <3>1. S[s][i].p # c.p
      BY <1>7, <2>1, SMTT(30)
    <3>2. j \in 1 .. Len(S[u]) /\ T[u][j] = S[u][j]
      BY <1>5, <2>1, <3>1
    <3>3. S[s][i].p = S[u][j].p
      BY <2>1, <3>2
    <3> QED
      BY <1>8, <2>1, <3>2, <3>3
  <2>2. CASE s = t /\ i = n + 1 /\ T[s][i] = c
    <3>1. ~(j \in 1 .. Len(S[u]) /\ T[u][j] = S[u][j])
      BY <1>7, <2>2
    <3> QED
      BY <1>5, <2>2, <3>1
  <2> QED
    BY <1>5, <2>1, <2>2
<1>11. \A d : d \in CallsIn(T) <=> d \in CallsIn(S) \/ d = c
  <2>1. ASSUME NEW d, d \in CallsIn(T) PROVE d \in CallsIn(S) \/ d = c
    <3>1. PICK s \in Threads : \E i \in 1 .. Len(T[s]) : T[s][i] = d
      BY <1>2, <2>1, CallsInFact
    <3>2. PICK i \in 1 .. Len(T[s]) : T[s][i] = d
      BY <3>1
    <3> QED
      BY <1>5, <3>2, CallsInFact
  <2>2. ASSUME NEW d, d \in CallsIn(S) PROVE d \in CallsIn(T)
    <3>1. PICK s \in Threads : \E i \in 1 .. Len(S[s]) : S[s][i] = d
      BY <2>2, CallsInFact
    <3>2. PICK i \in 1 .. Len(S[s]) : S[s][i] = d
      BY <3>1
    <3>3. i \in 1 .. Len(T[s]) /\ T[s][i] = d
      BY <1>6, <3>2
    <3> QED
      BY <1>2, <3>3, CallsInFact
  <2>3. c \in CallsIn(T)
    BY <1>2, <1>9, CallsInFact
  <2> QED
    BY <2>1, <2>2, <2>3, SMTT(30)
<1> QED
  BY <1>2, <1>10, <1>11, Zenon DEF T

(* The innermost call of a thread ends. *)
LEMMA PopCall ==
    ASSUME NEW S \in Stacks, Once(S), NEW t \in Threads, S[t] # <<>>
    PROVE  LET T == [S EXCEPT ![t] = LeftAfter(S[t], 1)]
               c == S[t][Len(S[t])]
           IN  /\ T \in Stacks /\ Once(T)
               /\ c \in CallSet /\ c \in CallsIn(S)
               /\ CallsIn(T) = CallsIn(S) \ {c}
               /\ \A d \in CallsIn(T) : d.p # c.p
<1> DEFINE T == [S EXCEPT ![t] = LeftAfter(S[t], 1)]
           n == Len(S[t])
           c == S[t][n]
<1>1. \A s \in Threads : S[s] \in Seq(CallSet) /\ DOMAIN S[s] = 1 .. Len(S[s])
                         /\ Len(S[s]) \in Nat
  BY CallsInFact
<1>2. n \in Nat \ {0} /\ 1 \in 0 .. n /\ n \in 1 .. n /\ c \in CallSet
  BY <1>1
<1>3. /\ T[t] \in Seq(CallSet) /\ Len(T[t]) = n - 1
      /\ \A i \in 1 .. n - 1 : T[t][i] = S[t][i]
  BY <1>1, <1>2, LeftAfterFact DEF Stacks
<1>4. \A s \in Threads \ {t} : T[s] = S[s]
  BY DEF Stacks
<1>5. T \in Stacks
  BY <1>1, <1>3, <1>4 DEF Stacks
<1>6. \A s \in Threads : DOMAIN T[s] = 1 .. Len(T[s])
  BY <1>5, CallsInFact
<1>7. \A s \in Threads : \A i \in 1 .. Len(T[s]) :
        i \in 1 .. Len(S[s]) /\ T[s][i] = S[s][i] /\ ~(s = t /\ i = n)
  BY <1>1, <1>2, <1>3, <1>4
<1>8. \A s \in Threads : \A i \in 1 .. Len(S[s]) :
        ~(s = t /\ i = n) => i \in 1 .. Len(T[s])
  BY <1>1, <1>2, <1>3, <1>4
<1>9. \A s, u \in Threads : \A i \in 1 .. Len(S[s]), j \in 1 .. Len(S[u]) :
        S[s][i].p = S[u][j].p => s = u /\ i = j
  BY <1>1 DEF Once
<1>10. n \in 1 .. Len(S[t]) /\ c = S[t][n]
  BY <1>2
<1> HIDE DEF T, n, c
<1>11. Once(T)
  <2> SUFFICES ASSUME NEW s \in Threads, NEW u \in Threads,
                      NEW i \in 1 .. Len(T[s]), NEW j \in 1 .. Len(T[u]),
                      T[s][i].p = T[u][j].p
               PROVE  s = u /\ i = j
    BY <1>6, SMTT(30) DEF Once
  <2>1. /\ i \in 1 .. Len(S[s]) /\ T[s][i] = S[s][i]
        /\ j \in 1 .. Len(S[u]) /\ T[u][j] = S[u][j]
    BY <1>7
  <2>2. S[s][i].p = S[u][j].p
    BY <2>1
  <2> QED
    BY <1>9, <2>1, <2>2
<1>12. c \in CallsIn(S)
  BY <1>10, CallsInFact
<1>13. ASSUME NEW d \in CallsIn(T) PROVE d \in CallsIn(S) /\ d.p # c.p
  <2>1. PICK s \in Threads : \E i \in 1 .. Len(T[s]) : T[s][i] = d
    BY <1>5, CallsInFact
  <2>2. PICK i \in 1 .. Len(T[s]) : T[s][i] = d
    BY <2>1
  <2>3. i \in 1 .. Len(S[s]) /\ S[s][i] = d /\ ~(s = t /\ i = n)
    BY <1>7, <2>2
  <2>4. d.p # c.p
    BY <1>9, <1>10, <2>3
  <2> QED
    BY <2>3, <2>4, CallsInFact
<1>14. ASSUME NEW d \in CallsIn(S), d # c PROVE d \in CallsIn(T)
  <2>1. PICK s \in Threads : \E i \in 1 .. Len(S[s]) : S[s][i] = d
    BY CallsInFact
  <2>2. PICK i \in 1 .. Len(S[s]) : S[s][i] = d
    BY <2>1
  <2>3. i \in 1 .. Len(T[s]) /\ T[s][i] = d
    BY <1>7, <1>8, <1>10, <1>14, <2>2
  <2> QED
    BY <1>5, <2>3, CallsInFact
<1>15. CallsIn(T) = CallsIn(S) \ {c}
  BY <1>13, <1>14
<1> QED
  BY <1>2, <1>5, <1>11, <1>12, <1>13, <1>15, Zenon DEF T, c, n

(* The innermost call of a thread is replaced by one with the same block. *)
LEMMA ReplaceCall ==
    ASSUME NEW S \in Stacks, Once(S), NEW t \in Threads, S[t] # <<>>,
           NEW d \in CallSet, d.p = S[t][Len(S[t])].p
    PROVE  LET T == [S EXCEPT ![t] = Append(LeftAfter(S[t], 1), d)]
               c == S[t][Len(S[t])]
           IN  /\ T \in Stacks /\ Once(T) /\ c \in CallsIn(S)
               /\ CallsIn(T) = (CallsIn(S) \ {c}) \cup {d}
<1> DEFINE R == [S EXCEPT ![t] = LeftAfter(S[t], 1)]
           c == S[t][Len(S[t])]
<1>1. /\ R \in Stacks /\ Once(R) /\ c \in CallsIn(S)
      /\ CallsIn(R) = CallsIn(S) \ {c} /\ \A e \in CallsIn(R) : e.p # c.p
  BY PopCall, Zenon
<1>2. R[t] = LeftAfter(S[t], 1)
  BY DEF Stacks
<1>3. [S EXCEPT ![t] = Append(LeftAfter(S[t], 1), d)] = [R EXCEPT ![t] = Append(R[t], d)]
  BY <1>2 DEF Stacks
<1> HIDE DEF R
<1>4. \A e \in CallsIn(R) : e.p # d.p
  BY <1>1
<1>5. LET T == [R EXCEPT ![t] = Append(R[t], d)]
      IN  T \in Stacks /\ Once(T) /\ CallsIn(T) = CallsIn(R) \cup {d}
  BY <1>1, <1>4, PushCall, Zenon
<1> QED
  BY <1>1, <1>3, <1>5, Zenon

-----------------------------------------------------------------------------
(* The allocator uses the pool as the pool wants to be used.               *)

(* The blocks, with their sizes, of the calls and objects in C. *)
Held(C) == {<<c.p, BytesOf(c.r)>> : c \in C}

(* Calls C and objects O have different blocks. *)
Apart(C, O) ==
    /\ \A c \in C, o \in O : c.p # o.p
    /\ \A o, q \in O : o.p = q.p => o = q

(* The inductive invariant. *)
AllocIInv == MemoryPoolInv /\ AllocTypeOK /\ AllocInv

(* AllocInv in terms of the sets of calls and objects. *)
LEMMA AllocInvFact ==
    AllocInv <=> /\ Once(stack) /\ Apart(CallsIn(stack), objects)
                 /\ used = Held(CallsIn(stack) \cup objects)
  BY DEF AllocInv, OneOwner, Once, Apart, Held, CallsIn, Calls

(* An owner with a block of its own takes it along. *)
LEMMA HeldWithout ==
    ASSUME NEW A, NEW c, \A d \in A : d.p # c.p
    PROVE  Held(A) = Held(A \cup {c}) \ {<<c.p, BytesOf(c.r)>>}
<1>1. \A d \in A : <<d.p, BytesOf(d.r)>> # <<c.p, BytesOf(c.r)>>
  OBVIOUS
<1>2. Held(A \cup {c}) = Held(A) \cup {<<c.p, BytesOf(c.r)>>}
  BY DEF Held
<1>3. <<c.p, BytesOf(c.r)>> \notin Held(A)
  BY <1>1 DEF Held
<1> QED
  BY <1>2, <1>3

(* What a request asks of the pool is one of its sizes. *)
LEMMA RequestSize == \A r \in Requests : BytesOf(r) \in Sizes
  BY AllocAssumption

(* Every step of the allocator is a step of the pool or none. *)
LEMMA PoolStep == [AllocNext]_allocVars => [Next]_vars
<1> SUFFICES ASSUME [AllocNext]_allocVars PROVE [Next]_vars
  OBVIOUS
<1>1. ASSUME NEW t \in Threads, NEW r \in Requests, Begin(t, r) PROVE Next
  BY <1>1, RequestSize DEF Begin, Next
<1>2. ASSUME NEW t \in Threads, Release(t) PROVE Next
  <2> DEFINE u == <<Top(t).p, BytesOf(Top(t).r)>>
  <2>1. u \in used /\ Deallocate(t, u[1], u[2])
    BY <1>2 DEF Release, Deallocate
  <2> QED
    BY <2>1 DEF Next
<1>3. ASSUME NEW t \in Threads, Throws(t) PROVE [Next]_vars
  BY <1>2, <1>3 DEF Throws, Thrown
<1>4. ASSUME NEW t \in Threads, Exit(t) PROVE Next
  BY <1>4 DEF Exit, Next
<1>5. CASE UNCHANGED allocVars
  BY <1>5 DEF allocVars
<1> QED
  BY <1>1, <1>2, <1>3, <1>4, <1>5, Zenon DEF AllocNext, Constructed, Dealloc, Destroyed

-----------------------------------------------------------------------------
(* Every step keeps blocks and owners together.                            *)

(* alloc takes a block that nobody has. *)
LEMMA BeginStep ==
    ASSUME AllocIInv, MemoryPoolInv', NEW t \in Threads, NEW r \in Requests, Begin(t, r)
    PROVE  AllocTypeOK' /\ AllocInv'
<1>1. PICK u \in used' \ used : Pushed(t, Call(u[1], r, 0, "construct"))
  BY SMTT(30) DEF Begin
<1>2. PICK b : used' = used \cup {<<b, BytesOf(r)>>}
  BY Zenon DEF Begin, Allocate, AllocateLocal, AllocateRefill, AllocateChunk, Return
<1>3. u = <<b, BytesOf(r)>> /\ u[1] = b /\ b \in Block
  BY <1>1, <1>2 DEF MemoryPoolInv, TypeOK
<1>4. \A v \in used : v[1] # b
  <2> SUFFICES ASSUME NEW v \in used, v[1] = b PROVE FALSE
    OBVIOUS
  <2>1. v = u
    BY <1>1, <1>2, <1>3 DEF MemoryPoolInv, OnePlace
  <2> QED
    BY <1>1, <2>1
<1> DEFINE c == Call(b, r, 0, "construct")
<1>5. /\ c \in CallSet /\ c.p = b /\ c.r = r
      /\ stack' = [stack EXCEPT ![t] = Append(stack[t], c)] /\ objects' = objects
  BY <1>1, <1>3, Zenon DEF Call, CallSet, Pushed, Begin
<1> HIDE DEF c
<1>6. \A d \in CallsIn(stack) \cup objects : d.p # b
  <2> SUFFICES ASSUME NEW d \in CallsIn(stack) \cup objects PROVE d.p # b
    OBVIOUS
  <2>1. <<d.p, BytesOf(d.r)>> \in used
    BY AllocInvFact DEF AllocIInv, Held
  <2> QED
    BY <1>4, <2>1
<1>7. stack' \in Stacks /\ Once(stack') /\ CallsIn(stack') = CallsIn(stack) \cup {c}
  <2>1. stack \in Stacks /\ Once(stack) /\ \A d \in CallsIn(stack) : d.p # c.p
    BY <1>5, <1>6, AllocInvFact DEF AllocIInv, AllocTypeOK
  <2>2. LET T == [stack EXCEPT ![t] = Append(stack[t], c)]
        IN  T \in Stacks /\ Once(T) /\ CallsIn(T) = CallsIn(stack) \cup {c}
    BY <1>5, <2>1, PushCall, Zenon
  <2> QED
    BY <1>5, <2>2, Zenon
<1>8. Apart(CallsIn(stack'), objects')
  BY <1>5, <1>6, <1>7, AllocInvFact, Zenon DEF AllocIInv, Apart
<1>9. used' = Held(CallsIn(stack') \cup objects')
  BY <1>2, <1>5, <1>7, AllocInvFact, Zenon DEF AllocIInv, Held
<1>10. AllocInv'
  BY <1>7, <1>8, <1>9 DEF AllocInv, OneOwner, Once, Apart, Held, CallsIn, Calls
<1> QED
  BY <1>5, <1>7, <1>10 DEF AllocTypeOK, AllocIInv

(* The end of dealloc, or a constructor that throws, gives the block back. *)
LEMMA ReleaseStep ==
    ASSUME AllocIInv, NEW t \in Threads, stack[t] # <<>>, Release(t)
    PROVE  AllocTypeOK' /\ AllocInv'
<1> DEFINE c == stack[t][Len(stack[t])]
<1>1. /\ stack' = [stack EXCEPT ![t] = LeftAfter(stack[t], 1)] /\ objects' = objects
      /\ used' = used \ {<<c.p, BytesOf(c.r)>>}
  BY DEF Release, Popped, Deallocate, Top
<1>2. /\ stack' \in Stacks /\ Once(stack') /\ c \in CallsIn(stack)
      /\ CallsIn(stack') = CallsIn(stack) \ {c}
      /\ \A d \in CallsIn(stack') : d.p # c.p
  BY <1>1, PopCall, AllocInvFact, Zenon DEF AllocIInv, AllocTypeOK
<1> HIDE DEF c
<1>3. \A d \in CallsIn(stack') \cup objects : d.p # c.p
  BY <1>2, AllocInvFact DEF AllocIInv, Apart
<1>4. Apart(CallsIn(stack'), objects')
  BY <1>1, <1>2, AllocInvFact, Zenon DEF AllocIInv, Apart
<1>5. used' = Held(CallsIn(stack') \cup objects')
  <2>1. used = Held(CallsIn(stack) \cup objects)
    BY AllocInvFact DEF AllocIInv
  <2>2. CallsIn(stack) \cup objects = (CallsIn(stack') \cup objects) \cup {c}
    BY <1>2
  <2> QED
    BY <1>1, <1>3, <2>1, <2>2, HeldWithout, ZenonT(30)
<1>6. AllocInv'
  BY <1>2, <1>4, <1>5 DEF AllocInv, OneOwner, Once, Apart, Held, CallsIn, Calls
<1> QED
  BY <1>1, <1>2, <1>6 DEF AllocTypeOK, AllocIInv

(* The call hands its block to the object. *)
LEMMA ConstructedStep ==
    ASSUME AllocIInv, NEW t \in Threads, Constructed(t)
    PROVE  AllocTypeOK' /\ AllocInv'
<1> DEFINE c == stack[t][Len(stack[t])]
<1>1. stack[t] # <<>> /\ used' = used /\ c = Top(t)
  BY DEF Constructed, In, vars, Top
<1>2. /\ stack \in Stacks /\ Once(stack) /\ Apart(CallsIn(stack), objects)
      /\ objects \subseteq ObjectSet /\ used = Held(CallsIn(stack) \cup objects)
  BY AllocInvFact DEF AllocIInv, AllocTypeOK
<1>3. c \in CallSet /\ c \in CallsIn(stack)
  BY <1>1, <1>2, PopCall, Zenon
<1>4. CASE c.made + 1 < c.r.n
  <2> DEFINE d == [c EXCEPT !.made = @ + 1]
  <2>1. /\ d \in CallSet /\ d.p = c.p /\ d.r = c.r
    BY <1>3 DEF CallSet
  <2>2. /\ stack' = [stack EXCEPT ![t] = Append(LeftAfter(stack[t], 1), d)]
        /\ objects' = objects
    BY <1>1, <1>4 DEF Constructed, TopIs, Top
  <2> HIDE DEF d
  <2> HIDE DEF c
  <2>3. d.p = stack[t][Len(stack[t])].p
    BY <2>1 DEF c
  <2>4. /\ stack' \in Stacks /\ Once(stack')
        /\ CallsIn(stack') = (CallsIn(stack) \ {c}) \cup {d}
    BY <1>1, <1>2, <2>1, <2>2, <2>3, ReplaceCall, Zenon DEF c
  <2>5. Apart(CallsIn(stack'), objects')
    BY <1>2, <1>3, <2>1, <2>2, <2>4, Zenon DEF Apart
  <2>6. used' = Held(CallsIn(stack') \cup objects')
    <3>1. Held({d}) = Held({c})
      BY <2>1 DEF Held
    <3>2. Held(CallsIn(stack') \cup objects) =
            Held((CallsIn(stack) \ {c}) \cup objects) \cup Held({d})
      BY <2>4 DEF Held
    <3>3. Held(CallsIn(stack) \cup objects) =
            Held((CallsIn(stack) \ {c}) \cup objects) \cup Held({c})
      BY <1>3 DEF Held
    <3> QED
      BY <1>1, <1>2, <2>2, <3>1, <3>2, <3>3, Zenon
  <2>7. AllocInv'
    BY <2>4, <2>5, <2>6 DEF AllocInv, OneOwner, Once, Apart, Held, CallsIn, Calls
  <2> QED
    BY <1>2, <2>2, <2>4, <2>7 DEF AllocTypeOK
<1>5. CASE ~(c.made + 1 < c.r.n)
  <2> DEFINE o == [p |-> c.p, r |-> c.r]
  <2>1. o \in ObjectSet /\ o.p = c.p /\ o.r = c.r
    BY <1>3 DEF CallSet, ObjectSet
  <2>2. /\ stack' = [stack EXCEPT ![t] = LeftAfter(stack[t], 1)]
        /\ objects' = objects \cup {o}
    BY <1>1, <1>5 DEF Constructed, Popped
  <2> HIDE DEF o, c
  <2>3. /\ stack' \in Stacks /\ Once(stack') /\ CallsIn(stack') = CallsIn(stack) \ {c}
        /\ \A d \in CallsIn(stack') : d.p # c.p
    BY <1>1, <1>2, <2>2, PopCall, Zenon DEF c
  <2>4. Apart(CallsIn(stack'), objects')
    BY <1>2, <1>3, <2>1, <2>2, <2>3, ZenonT(30) DEF Apart
  <2>5. used' = Held(CallsIn(stack') \cup objects')
    <3>1. Held({o}) = Held({c})
      BY <2>1 DEF Held
    <3>2. Held(CallsIn(stack') \cup objects') =
            Held((CallsIn(stack) \ {c}) \cup objects) \cup Held({o})
      BY <2>2, <2>3, Zenon DEF Held
    <3>3. Held(CallsIn(stack) \cup objects) =
            Held((CallsIn(stack) \ {c}) \cup objects) \cup Held({c})
      BY <1>3 DEF Held
    <3> QED
      BY <1>1, <1>2, <3>1, <3>2, <3>3, Zenon
  <2>6. AllocInv'
    BY <2>3, <2>4, <2>5 DEF AllocInv, OneOwner, Once, Apart, Held, CallsIn, Calls
  <2> QED
    BY <1>2, <2>1, <2>2, <2>3, <2>6, SMTT(30) DEF AllocTypeOK
<1> QED
  BY <1>4, <1>5

(* alloc_array catches an exception: its call goes on with destructors. *)
LEMMA CaughtStep ==
    ASSUME AllocIInv, NEW t \in Threads, stack[t] # <<>>,
           TopIs(t, [Top(t) EXCEPT !.phase = "destroy"]), UNCHANGED <<vars, objects>>
    PROVE  AllocTypeOK' /\ AllocInv'
<1> DEFINE c == stack[t][Len(stack[t])]
           d == [c EXCEPT !.phase = "destroy"]
<1>1. /\ stack \in Stacks /\ Once(stack) /\ Apart(CallsIn(stack), objects)
      /\ objects \subseteq ObjectSet /\ used = Held(CallsIn(stack) \cup objects)
  BY AllocInvFact DEF AllocIInv, AllocTypeOK
<1>2. c \in CallSet /\ c \in CallsIn(stack)
  BY <1>1, PopCall, Zenon
<1>3. d \in CallSet /\ d.p = c.p /\ d.r = c.r
  BY <1>2 DEF CallSet
<1>4. /\ stack' = [stack EXCEPT ![t] = Append(LeftAfter(stack[t], 1), d)]
      /\ objects' = objects /\ used' = used
  BY DEF TopIs, Top, vars
<1> HIDE DEF c, d
<1>5. d.p = stack[t][Len(stack[t])].p
  BY <1>3 DEF c
<1>6. /\ stack' \in Stacks /\ Once(stack')
      /\ CallsIn(stack') = (CallsIn(stack) \ {c}) \cup {d}
  BY <1>1, <1>3, <1>4, <1>5, ReplaceCall, Zenon DEF c
<1>7. Apart(CallsIn(stack'), objects')
  BY <1>1, <1>2, <1>3, <1>4, <1>6, Zenon DEF Apart
<1>8. used' = Held(CallsIn(stack') \cup objects')
  <2>1. Held({d}) = Held({c})
    BY <1>3 DEF Held
  <2>2. Held(CallsIn(stack') \cup objects) =
          Held((CallsIn(stack) \ {c}) \cup objects) \cup Held({d})
    BY <1>6 DEF Held
  <2>3. Held(CallsIn(stack) \cup objects) =
          Held((CallsIn(stack) \ {c}) \cup objects) \cup Held({c})
    BY <1>2 DEF Held
  <2> QED
    BY <1>1, <1>4, <2>1, <2>2, <2>3, Zenon
<1>9. AllocInv'
  BY <1>6, <1>7, <1>8 DEF AllocInv, OneOwner, Once, Apart, Held, CallsIn, Calls
<1> QED
  BY <1>1, <1>4, <1>6, <1>9 DEF AllocTypeOK

(* The object hands its block to the call. *)
LEMMA DeallocStep ==
    ASSUME AllocIInv, NEW t \in Threads, NEW o \in objects, Dealloc(t, o)
    PROVE  AllocTypeOK' /\ AllocInv'
<1> DEFINE c == Call(o.p, o.r, o.r.n, "destroy")
<1>1. /\ stack \in Stacks /\ Once(stack) /\ Apart(CallsIn(stack), objects)
      /\ objects \subseteq ObjectSet /\ used = Held(CallsIn(stack) \cup objects)
  BY AllocInvFact DEF AllocIInv, AllocTypeOK
<1>2. o.p \in Block /\ o.r \in Requests
  BY <1>1 DEF ObjectSet
<1>3. c \in CallSet /\ c.p = o.p /\ c.r = o.r
  BY <1>2, AllocAssumption DEF Call, CallSet
<1>4. /\ stack' = [stack EXCEPT ![t] = Append(stack[t], c)]
      /\ objects' = objects \ {o} /\ used' = used
  BY SMTT(30) DEF Dealloc, Pushed, vars
<1> HIDE DEF c
<1>5. \A d \in CallsIn(stack) : d.p # c.p
  BY <1>1, <1>3, SMTT(30) DEF Apart
<1>6. stack' \in Stacks /\ Once(stack') /\ CallsIn(stack') = CallsIn(stack) \cup {c}
  BY <1>1, <1>3, <1>4, <1>5, PushCall, Zenon
<1>7. Apart(CallsIn(stack'), objects')
  BY <1>1, <1>3, <1>4, <1>6, Zenon DEF Apart
<1>8. used' = Held(CallsIn(stack') \cup objects')
  <2>1. Held({c}) = Held({o})
    BY <1>3 DEF Held
  <2>2. Held(CallsIn(stack') \cup objects') =
          Held(CallsIn(stack) \cup (objects \ {o})) \cup Held({c})
    BY <1>4, <1>6, Zenon DEF Held
  <2>3. Held(CallsIn(stack) \cup objects) =
          Held(CallsIn(stack) \cup (objects \ {o})) \cup Held({o})
    BY DEF Held
  <2> QED
    BY <1>1, <1>4, <2>1, <2>2, <2>3, Zenon
<1>9. AllocInv'
  BY <1>6, <1>7, <1>8 DEF AllocInv, OneOwner, Once, Apart, Held, CallsIn, Calls
<1> QED
  BY <1>1, <1>4, <1>6, <1>9 DEF AllocTypeOK

(* A step that leaves calls, objects and used blocks alone. *)
LEMMA IdleStep ==
    ASSUME AllocIInv, UNCHANGED <<used, stack, objects>>
    PROVE  AllocTypeOK' /\ AllocInv'
  BY DEF AllocIInv, AllocTypeOK, AllocInv, OneOwner, Calls

-----------------------------------------------------------------------------

(* At first nobody has a block. *)
LEMMA AllocInitInv == AllocInit => AllocIInv
<1> SUFFICES ASSUME AllocInit PROVE AllocIInv
  OBVIOUS
<1>1. MemoryPoolInv /\ used = {}
  BY InitInv DEF AllocInit, Init
<1>2. AllocTypeOK /\ objects = {}
  BY DEF AllocInit, AllocTypeOK, Stacks
<1>3. \A t \in Threads : DOMAIN stack[t] = {} /\ Range(stack[t]) = {}
  BY DEF AllocInit, Range
<1>4. CallsIn(stack) = {} /\ Once(stack)
  BY <1>3 DEF CallsIn, Once
<1>5. AllocInv
  BY <1>1, <1>2, <1>4, AllocInvFact DEF Apart, Held
<1> QED
  BY <1>1, <1>2, <1>5 DEF AllocIInv

(* Every step of the allocator keeps the inductive invariant. *)
LEMMA AllocNextInv == AllocIInv /\ [AllocNext]_allocVars => AllocIInv'
<1> SUFFICES ASSUME AllocIInv, [AllocNext]_allocVars PROVE AllocIInv'
  OBVIOUS
<1>1. MemoryPoolInv'
  BY PoolStep, NextInv DEF AllocIInv
<1>2. CASE UNCHANGED allocVars
  BY <1>1, <1>2, IdleStep DEF allocVars, vars, AllocIInv
<1>3. ASSUME NEW t \in Threads, NEW r \in Requests, Begin(t, r) PROVE AllocIInv'
  BY <1>1, <1>3, BeginStep DEF AllocIInv
<1>4. ASSUME NEW t \in Threads, Constructed(t) PROVE AllocIInv'
  BY <1>1, <1>4, ConstructedStep DEF AllocIInv
<1>5. ASSUME NEW t \in Threads, Throws(t) PROVE AllocIInv'
  <2>1. stack[t] # <<>>
    BY <1>5 DEF Throws, In
  <2> QED
    BY <1>1, <1>5, <2>1, CaughtStep, ReleaseStep DEF Throws, Thrown, AllocIInv
<1>6. ASSUME NEW t \in Threads, Destroyed(t) PROVE AllocIInv'
  BY <1>1, <1>6, ReleaseStep DEF Destroyed, In, AllocIInv
<1>7. ASSUME NEW t \in Threads, NEW o \in objects, Dealloc(t, o) PROVE AllocIInv'
  BY <1>1, <1>7, DeallocStep DEF AllocIInv
<1>8. ASSUME NEW t \in Threads, Exit(t) PROVE AllocIInv'
  BY <1>1, <1>8, IdleStep DEF Exit, ThreadExit, AllocIInv
<1> QED
  BY <1>2, <1>3, <1>4, <1>5, <1>6, <1>7, <1>8 DEF AllocNext

(* For any threads, requests and depth: the blocks that the pool has       *)
(* handed out are exactly those of live objects and of calls in progress,  *)
(* one owner each and with the size of the allocation, so that alloc,      *)
(* alloc_array, dealloc and dealloc_array leak nothing and free nothing    *)
(* twice, also when a constructor throws inside another one.               *)
THEOREM BlocksHaveOwners == AllocSpec => []AllocInv
<1>1. AllocIInv => AllocInv
  BY DEF AllocIInv
<1> QED
  BY <1>1, AllocInitInv, AllocNextInv, PTL DEF AllocSpec

(* What a call in progress will give to deallocate is a block that the     *)
(* pool has handed out, with the size of its allocation: the guard of      *)
(* Deallocate restricts no call of the allocator.                          *)
FreesHandedOut ==
    \A t \in Threads :
        stack[t] # <<>> => <<Top(t).p, BytesOf(Top(t).r)>> \in used

(* deallocate is called in its contract by the handlers of alloc and       *)
(* alloc_array and by dealloc and dealloc_array.                           *)
THEOREM DeallocateContract == AllocSpec => []FreesHandedOut
<1>1. AllocIInv => FreesHandedOut
  <2> SUFFICES ASSUME AllocIInv, NEW t \in Threads, stack[t] # <<>>
               PROVE  <<Top(t).p, BytesOf(Top(t).r)>> \in used
    BY DEF FreesHandedOut
  <2>1. Top(t) \in CallsIn(stack)
    BY PopCall, AllocInvFact, Zenon DEF AllocIInv, AllocTypeOK, Top
  <2> QED
    BY <2>1, AllocInvFact DEF AllocIInv, Held
<1> QED
  BY <1>1, AllocInitInv, AllocNextInv, PTL DEF AllocSpec

(* Every behaviour of the allocator is one of the memory pool, so that     *)
(* what is proved of the pool holds under the allocator.                   *)
THEOREM AllocUsesPool == AllocSpec => Spec
<1>1. AllocInit => Init
  BY DEF AllocInit
<1> QED
  BY <1>1, PoolStep, PTL DEF AllocSpec, Spec

=============================================================================
