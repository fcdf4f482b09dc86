------------------------- MODULE ScanResultsProofs -------------------------
(***************************************************************************)
(* Theorems about ScanResults, for every size of the buffer, of the        *)
(* driver's replies and of its cache, and whatever fails.                  *)
(***************************************************************************)
EXTENDS ScanResults, SequenceTheorems, WellFoundedInduction, TLAPS

(* The two kinds of pending replies: scans and their acknowledgement, or    *)
(* what ends the wait.                                                      *)
Answered == Len(queue) = 2 /\ queue[1].kind = "valid" /\ queue[2].kind = "ack"
Ended    == Len(queue) = 1 /\ queue[1].kind \in {"ack", "error"}

(* The scans that were handed over and not looked at yet.                   *)
Fetched == IF pc = "receive" /\ Len(queue) = 2 THEN queue[1].scans ELSE <<>>

(* A request is sent only when no reply is pending, and the wait for it     *)
(* ends with its last reply.                                                *)
QueueInv ==
    /\ pc # "receive" => queue = <<>>
    /\ pc = "receive" => Answered \/ Ended
    /\ \A k \in DOMAIN queue : queue[k].to = request
    /\ pc \in {"create", "receive", "judge"} => rounds < MaxRounds

(* The scans of a buffer go on without a gap.                               *)
Gapless(stored) ==
    \A k \in 1..Len(stored) :
        /\ stored[k] >= After(stored, k - 1)
        /\ After(stored, k - 1)..(stored[k] - 1) \subseteq empty

(* Every scan before n that has results is in the buffer.                   *)
Caught(stored, n) ==
    /\ After(stored, Len(stored)) <= n
    /\ After(stored, Len(stored))..(n - 1) \subseteq empty

(* A buffer after the scans before n were looked at.                        *)
Good(stored, n) ==
    /\ stored \in Seq(Nat) /\ Len(stored) <= mMax
    /\ Gapless(stored)
    /\ Len(stored) < mMax => Caught(stored, n)

(* The scans that are Fetched are the last the driver handed over, and the  *)
(* buffer has what came before them.                                        *)
OrderInv ==
    /\ \A k \in 1..Len(Fetched) : Fetched[k] = next - Len(Fetched) + k - 1
    /\ Len(Fetched) <= next
    /\ pc = "receive" /\ Answered /\ ~queue[1].data => queue[1].scans = <<>>
    /\ Good(mScans, next - Len(Fetched))

(* The inductive invariant.                                                 *)
ScansInv == TypeOK /\ QueueInv /\ OrderInv

-----------------------------------------------------------------------------
(* Folds.  The induction theorems of the library take an operator, which    *)
(* the provers cannot instantiate; the least element of a set of numbers    *)
(* takes a set, and from it follow induction for sets and what a fold does. *)

(* A non-empty set of naturals has a least element.                         *)
LEMMA LeastNumber ==
    ASSUME NEW T, T \subseteq Nat, T # {}
    PROVE  \E n \in T : \A m \in T : n <= m
  <1> DEFINE R == OpToRel(<, Nat)
  <1>1. IsWellFoundedOn(R, Nat)
    BY NatLessThanWellFounded
  <1>2. PICK x \in T : \A y \in T : ~ (<<y, x>> \in R)
    <2> HIDE DEF R
    <2> QED BY <1>1, WFMin
  <1>3. \A y \in T : ~ (y < x)
    BY <1>2 DEF OpToRel
  <1> QED BY <1>3

(* Induction, for the set of numbers that have the property.                *)
LEMMA Induction ==
    ASSUME NEW T, T \subseteq Nat, 0 \in T, \A n \in T : n + 1 \in T
    PROVE  T = Nat
  <1> SUFFICES ASSUME Nat \ T # {} PROVE FALSE
    OBVIOUS
  <1>1. PICK n \in Nat \ T : \A m \in Nat \ T : n <= m
    BY LeastNumber
  <1>2. n # 0 /\ n - 1 \in Nat /\ n - 1 \notin Nat \ T
    BY <1>1
  <1> QED BY <1>2

(* A non-empty set of indices has a largest.                                *)
LEMMA LargestIndex ==
    ASSUME NEW n \in Nat, NEW s \in SUBSET (1..n), s # {}
    PROVE  Max(s) \in s /\ Max(s) \in 1..n /\ \A i \in s : Max(s) >= i
  <1> DEFINE T == {m \in Nat : \A i \in s : i <= m}
  <1>1. T \subseteq Nat /\ T # {}
    <2>1. n \in T
      OBVIOUS
    <2> QED BY <2>1
  <1>2. PICK m \in T : \A k \in T : m <= k
    <2> HIDE DEF T
    <2> QED BY <1>1, LeastNumber
  <1>3. m \in s
    <2> SUFFICES ASSUME m \notin s PROVE FALSE
      OBVIOUS
    <2>1. PICK i \in s : TRUE
      OBVIOUS
    <2>2. i \in Nat /\ i <= m /\ i # m /\ i >= 1
      BY <1>2, <2>1
    <2>3. m - 1 \in T
      BY <1>2, <2>2
    <2> QED BY <1>2, <2>2, <2>3
  <1>4. \E x \in s : \A y \in s : x >= y
    BY <1>2, <1>3
  <1>5. Max(s) \in s /\ \A i \in s : Max(s) >= i
    BY <1>4 DEF Max
  <1> QED BY <1>5

(* FoldLeft is defined by a function h on sets of indices: nothing gives    *)
(* base, and the largest index i applies G[i] to what the others give.  G   *)
(* stands for the operator that is folded, on the values V.                 *)
FoldsBy(h, n, V, base, G) ==
    /\ h[{}] = base
    /\ \A s \in SUBSET (1..n) :
          s # {} /\ h[s \ {Max(s)}] \in V => h[s] = G[Max(s)][h[s \ {Max(s)}]]

(* There is such a function.                                                *)
LEMMA FoldExists ==
    ASSUME NEW N \in Nat, NEW V, NEW base \in V, NEW G \in [1..N -> [V -> V]]
    PROVE  \E h \in [SUBSET (1..N) -> V] : FoldsBy(h, N, V, base, G)
  <1> DEFINE Has(n) == \E h \in [SUBSET (1..n) -> V] : FoldsBy(h, n, V, base, G)
  <1> DEFINE T == {n \in Nat : n <= N => Has(n)}
  <1>1. Has(0)
    <2>1. SUBSET (1..0) = {{}}
      OBVIOUS
    <2> DEFINE h == [s \in SUBSET (1..0) |-> base]
    <2>2. h \in [SUBSET (1..0) -> V]
      OBVIOUS
    <2>3. FoldsBy(h, 0, V, base, G)
      BY <2>1 DEF FoldsBy
    <2> QED BY <2>2, <2>3
  <1>2. ASSUME NEW n \in Nat, n + 1 <= N, Has(n) PROVE Has(n + 1)
    <2>1. PICK h \in [SUBSET (1..n) -> V] : FoldsBy(h, n, V, base, G)
      BY <1>2
    <2> DEFINE g == [s \in SUBSET (1..(n + 1)) |->
                        IF n + 1 \in s THEN G[n + 1][h[s \ {n + 1}]] ELSE h[s]]
    <2>2. \A s \in SUBSET (1..(n + 1)) : s \ {n + 1} \in SUBSET (1..n)
      OBVIOUS
    <2>3. g \in [SUBSET (1..(n + 1)) -> V]
      BY <1>2, <2>2
    <2>4. ASSUME NEW s \in SUBSET (1..(n + 1)), s # {}
          PROVE  g[s] = G[Max(s)][g[s \ {Max(s)}]]
      <3>1. CASE n + 1 \in s
        <4>1. Max(s) = n + 1
          <5>1. Max(s) \in 1..(n + 1) /\ \A i \in s : Max(s) >= i
            <6>1. n + 1 \in Nat
              OBVIOUS
            <6> HIDE DEF g
            <6> QED BY <2>4, <6>1, LargestIndex
          <5>2. Max(s) >= n + 1
            BY <3>1, <5>1
          <5> QED BY <5>1, <5>2
        <4>2. g[s \ {n + 1}] = h[s \ {n + 1}]
          BY <2>2
        <4> QED BY <3>1, <4>1, <4>2
      <3>2. CASE n + 1 \notin s
        <4>1. s \in SUBSET (1..n) /\ s \ {Max(s)} \in SUBSET (1..n)
          BY <3>2, <2>2
        <4>2. h[s] = G[Max(s)][h[s \ {Max(s)}]]
          BY <2>1, <2>4, <4>1 DEF FoldsBy
        <4>3. g[s] = h[s] /\ g[s \ {Max(s)}] = h[s \ {Max(s)}]
          BY <3>2, <4>1
        <4> QED BY <4>2, <4>3
      <3> QED BY <3>1, <3>2
    <2>5. g[{}] = base
      <3>1. {} \in SUBSET (1..(n + 1)) /\ h[{}] = base
        BY <2>1 DEF FoldsBy
      <3> QED BY <3>1
    <2>6. FoldsBy(g, n + 1, V, base, G)
      <3> HIDE DEF g
      <3> QED BY <2>4, <2>5 DEF FoldsBy
    <2> QED BY <2>3, <2>6
  <1>3. T = Nat
    <2>1. 0 \in T
      BY <1>1
    <2>2. ASSUME NEW n \in T PROVE n + 1 \in T
      <3> HIDE DEF Has
      <3> QED BY <1>2
    <2> HIDE DEF T
    <2> QED BY <2>1, <2>2, Induction DEF T
  <1> HIDE DEF Has
  <1>4. Has(N)
    BY <1>3
  <1> QED BY <1>4 DEF Has

(* end is reached from base by the functions of G in their order.           *)
Reached(end, N, V, base, G) ==
    \E f \in [0..N -> V] : /\ f[0] = base /\ f[N] = end
                           /\ \A k \in 1..N : f[k] = G[k][f[k - 1]]

(* A fold whose steps stay within V goes through its prefixes.              *)
LEMMA FoldPrefixes ==
    ASSUME NEW N \in Nat, NEW V, NEW base \in V, NEW G \in [1..N -> [V -> V]], NEW h,
           FoldsBy(h, N, V, base, G)
    PROVE  Reached(h[1..N], N, V, base, G)
  <1> DEFINE T == {k \in Nat : k <= N => h[1..k] \in V}
  <1>1. ASSUME NEW k \in 1..N, h[1..(k - 1)] \in V
        PROVE  h[1..k] = G[k][h[1..(k - 1)]]
    <2>1. k \in Nat /\ k \in 1..k /\ \A i \in 1..k : i \in 1..N
      OBVIOUS
    <2>2. 1..k \in SUBSET (1..N) /\ 1..k # {}
      BY <2>1
    <2>3. (1..k) \ {k} = 1..(k - 1)
      OBVIOUS
    <2>4. Max(1..k) \in 1..k /\ Max(1..k) >= k
      BY <2>1, <2>2, LargestIndex
    <2>5. Max(1..k) = k
      BY <2>4
    <2> QED BY <1>1, <2>2, <2>3, <2>5 DEF FoldsBy
  <1>2. T = Nat
    <2>1. 0 \in T
      <3>1. 1..0 = {}
        OBVIOUS
      <3> QED BY <3>1 DEF FoldsBy
    <2>2. ASSUME NEW k \in T PROVE k + 1 \in T
      <3> SUFFICES ASSUME k + 1 <= N PROVE h[1..(k + 1)] \in V
        OBVIOUS
      <3>1. k + 1 \in 1..N /\ (k + 1) - 1 = k /\ h[1..k] \in V
        BY <2>2
      <3>2. h[1..(k + 1)] = G[k + 1][h[1..k]]
        BY <1>1, <3>1
      <3> QED BY <3>1, <3>2
    <2> HIDE DEF T
    <2> QED BY <2>1, <2>2, Induction DEF T
  <1> DEFINE f == [k \in 0..N |-> h[1..k]]
  <1>3. \A k \in 0..N : h[1..k] \in V
    BY <1>2
  <1>4. f \in [0..N -> V]
    BY <1>3
  <1>5. f[0] = base /\ f[N] = h[1..N]
    <2>1. 1..0 = {}
      OBVIOUS
    <2> QED BY <2>1 DEF FoldsBy
  <1>6. ASSUME NEW k \in 1..N PROVE f[k] = G[k][f[k - 1]]
    <2>1. k - 1 \in 0..N /\ k \in 0..N
      OBVIOUS
    <2> QED BY <1>1, <1>3, <2>1
  <1> HIDE DEF f
  <1> QED BY <1>4, <1>5, <1>6 DEF Reached


-----------------------------------------------------------------------------
(* Facts about the operators.                                               *)

(* One scan: it is stored, or it has no results, or the buffer is full.     *)
LEMMA StoreOne ==
    ASSUME mMax \in Nat, first \in Nat, NEW stored, NEW n \in Nat, Good(stored, n)
    PROVE  Good(StoreScan(stored, n), n + 1)
  <1> USE DEF Good
  <1>1. /\ stored \in Seq(Nat) /\ Len(stored) \in Nat
        /\ \A k \in 1..Len(stored) : stored[k] \in Nat
    OBVIOUS
  <1>2. After(stored, Len(stored)) \in Nat
    BY <1>1 DEF After
  <1>3. CASE Len(stored) >= mMax
    BY <1>1, <1>3 DEF StoreScan
  <1>4. CASE Len(stored) < mMax /\ n \in empty
    <2>1. StoreScan(stored, n) = stored /\ Caught(stored, n)
      BY <1>4 DEF StoreScan
    <2>2. Caught(stored, n + 1)
      <3>1. ASSUME NEW x \in After(stored, Len(stored))..((n + 1) - 1) PROVE x \in empty
        <4>1. x = n \/ x \in After(stored, Len(stored))..(n - 1)
          BY <1>2
        <4> QED BY <1>4, <2>1, <4>1 DEF Caught
      <3> QED BY <1>2, <2>1, <3>1 DEF Caught
    <2> QED BY <2>1, <2>2
  <1>5. CASE Len(stored) < mMax /\ n \notin empty
    <2> DEFINE t == Append(stored, n)
    <2>1. StoreScan(stored, n) = t /\ Caught(stored, n)
      BY <1>1, <1>5 DEF StoreScan
    <2>2. /\ t \in Seq(Nat) /\ Len(t) = Len(stored) + 1 /\ t[Len(stored) + 1] = n
          /\ \A k \in 1..Len(stored) : t[k] = stored[k]
      BY <1>1
    <2> HIDE DEF t
    <2>3. \A k \in 0..Len(stored) : After(t, k) = After(stored, k)
      BY <1>1, <2>2 DEF After
    <2>4. Gapless(t)
      <3> SUFFICES ASSUME NEW k \in 1..Len(t)
                   PROVE  /\ t[k] >= After(t, k - 1)
                          /\ After(t, k - 1)..(t[k] - 1) \subseteq empty
        BY DEF Gapless
      <3>1. k - 1 \in 0..Len(stored)
        BY <1>1, <2>2
      <3>2. CASE k \in 1..Len(stored)
        BY <2>2, <2>3, <3>1, <3>2 DEF Gapless
      <3>3. CASE k = Len(stored) + 1
        <4>1. k - 1 = Len(stored) /\ t[k] = n
          BY <1>1, <2>2, <3>3
        <4> QED BY <1>2, <2>1, <2>3, <3>1, <4>1 DEF Caught
      <3> QED BY <1>1, <2>2, <3>2, <3>3
    <2>5. After(t, Len(t)) = n + 1
      BY <1>1, <2>2 DEF After
    <2>6. Caught(t, n + 1)
      BY <2>5 DEF Caught
    <2> QED BY <1>1, <1>5, <2>1, <2>2, <2>4, <2>6
  <1> QED BY <1>1, <1>3, <1>4, <1>5

(* handleResponse goes through the scans of a reply one by one.             *)
LEMMA StoresOneByOne ==
    ASSUME mMax \in Nat, mScans \in Seq(Nat), NEW s \in Seq(Nat)
    PROVE  \E f \in [0..Len(s) -> Seq(Nat)] :
              /\ f[0] = mScans /\ f[Len(s)] = FoldLeft(StoreScan, mScans, s)
              /\ \A k \in 1..Len(s) : f[k] = StoreScan(f[k - 1], s[k])
  <1> DEFINE V == Seq(Nat)
  <1> DEFINE N == Len(s)
  <1> DEFINE G == [i \in 1..N |-> [v \in V |-> StoreScan(v, s[i])]]
  <1> DEFINE Def(h) == h = [t \in SUBSET DOMAIN s |->
                    IF t = {} THEN mScans ELSE StoreScan(h[t \ {Max(t)}], s[Max(t)])]
  <1> DEFINE fold == CHOOSE h : Def(h)
  <1>1. FoldLeft(StoreScan, mScans, s) = fold[DOMAIN s]
    BY DEF FoldLeft, MapThenFoldSet
  <1>2. N \in Nat /\ DOMAIN s = 1..N /\ \A i \in 1..N : s[i] \in Nat
    OBVIOUS
  <1>3. \A v \in V, n \in Nat : StoreScan(v, n) \in V
    BY DEF StoreScan
  <1>4. G \in [1..N -> [V -> V]]
    BY <1>2, <1>3
  <1>5. PICK h \in [SUBSET (1..N) -> V] : FoldsBy(h, N, V, mScans, G)
    <2> HIDE DEF N, G
    <2> QED BY <1>2, <1>4, FoldExists
  <1>6. Def(h)
    <2>1. ASSUME NEW t \in SUBSET (1..N), t # {}
          PROVE  h[t] = StoreScan(h[t \ {Max(t)}], s[Max(t)])
      <3>1. Max(t) \in 1..N
        BY <1>2, <2>1, LargestIndex
      <3>2. h[t \ {Max(t)}] \in V
        OBVIOUS
      <3> QED BY <1>5, <2>1, <3>1, <3>2 DEF FoldsBy
    <2>2. h[{}] = mScans
      BY <1>5 DEF FoldsBy
    <2> HIDE DEF N
    <2> QED BY <1>2, <2>1, <2>2
  <1>7. Def(fold)
    <2> HIDE DEF Def
    <2> QED BY <1>6
  <1>8. FoldsBy(fold, N, V, mScans, G)
    <2> HIDE DEF fold
    <2>1. ASSUME NEW t \in SUBSET (1..N), t # {}, fold[t \ {Max(t)}] \in V
          PROVE  fold[t] = G[Max(t)][fold[t \ {Max(t)}]]
      <3>1. Max(t) \in 1..N
        BY <1>2, <2>1, LargestIndex
      <3>2. fold[t] = StoreScan(fold[t \ {Max(t)}], s[Max(t)])
        BY <1>2, <1>7, <2>1
      <3> QED BY <2>1, <3>1, <3>2
    <2>2. fold[{}] = mScans
      BY <1>7
    <2> QED BY <2>1, <2>2 DEF FoldsBy
  <1>9. Reached(fold[1..N], N, V, mScans, G)
    <2> HIDE DEF N, G, fold, V
    <2> QED BY <1>2, <1>4, <1>8, FoldPrefixes DEF V
  <1>10. PICK f \in [0..N -> V] : /\ f[0] = mScans /\ f[N] = fold[1..N]
                                  /\ \A k \in 1..N : f[k] = G[k][f[k - 1]]
    BY <1>9 DEF Reached
  <1>11. ASSUME NEW k \in 1..N PROVE f[k] = StoreScan(f[k - 1], s[k])
    <2>1. f[k - 1] \in V
      <3>1. k - 1 \in 0..N
        BY <1>2
      <3> QED BY <3>1
    <2>2. f[k] = G[k][f[k - 1]]
      BY <1>10
    <2> HIDE DEF N
    <2> QED BY <2>1, <2>2
  <1> HIDE DEF fold
  <1> QED BY <1>1, <1>2, <1>10, <1>11

(* A reply with the scans from n on leaves a good buffer.                   *)
LEMMA StoresGood ==
    ASSUME mMax \in Nat, first \in Nat, NEW n \in Nat, Good(mScans, n), NEW s \in Seq(Nat),
           \A k \in 1..Len(s) : s[k] = n + k - 1
    PROVE  Good(FoldLeft(StoreScan, mScans, s), n + Len(s))
  <1>1. PICK f \in [0..Len(s) -> Seq(Nat)] :
              /\ f[0] = mScans /\ f[Len(s)] = FoldLeft(StoreScan, mScans, s)
              /\ \A k \in 1..Len(s) : f[k] = StoreScan(f[k - 1], s[k])
    BY StoresOneByOne DEF Good
  <1>2. Len(s) \in Nat
    OBVIOUS
  <1> DEFINE T == {k \in Nat : k <= Len(s) => Good(f[k], n + k)}
  <1>3. 0 \in T
    BY <1>1
  <1>4. ASSUME NEW k \in T PROVE k + 1 \in T
    <2> SUFFICES ASSUME k + 1 <= Len(s) PROVE Good(f[k + 1], n + (k + 1))
      OBVIOUS
    <2>1. k \in Nat /\ k + 1 \in 1..Len(s) /\ (k + 1) - 1 = k /\ Good(f[k], n + k)
      BY <1>2, <1>4
    <2>2. s[k + 1] = n + k
      BY <2>1
    <2>3. f[k + 1] = StoreScan(f[k], n + k)
      BY <1>1, <2>1, <2>2
    <2>4. Good(StoreScan(f[k], n + k), (n + k) + 1)
      <3>1. n + k \in Nat
        BY <2>1
      <3> QED BY <2>1, <3>1, StoreOne
    <2>5. (n + k) + 1 = n + (k + 1)
      BY <2>1
    <2> QED BY <2>3, <2>4, <2>5
  <1>5. T = Nat
    <2>1. T \subseteq Nat /\ \A k \in T : k + 1 \in T
      BY <1>4
    <2> HIDE DEF T
    <2> QED BY <1>3, <2>1, Induction
  <1>6. Len(s) \in T
    BY <1>2, <1>5
  <1> HIDE DEF T
  <1> QED BY <1>1, <1>2, <1>6 DEF T

(* Replies without scans.                                                   *)
LEMMA BareIs ==
    ASSUME TypeOK, NEW kind \in {"valid", "ack", "error"}
    PROVE  /\ Bare(kind) \in Reply /\ Bare(kind).kind = kind /\ Bare(kind).to = request + 1
           /\ ~Bare(kind).data /\ Bare(kind).scans = <<>>
  <1>1. request + 1 \in Nat /\ <<>> \in Seq(Nat)
    BY DEF TypeOK
  <1> QED BY <1>1 DEF Bare, Reply

(* The driver's answer: the n oldest scans in order, and an acknowledgement.*)
LEMMA AnswerIs ==
    ASSUME TypeOK, NEW n \in Nat
    PROVE  /\ Answer(n) \in Seq(Reply) /\ Len(Answer(n)) = 2
           /\ Answer(n)[1].kind = "valid" /\ Answer(n)[2].kind = "ack"
           /\ Answer(n)[1].to = request + 1 /\ Answer(n)[2].to = request + 1
           /\ Answer(n)[1].data
           /\ Answer(n)[1].scans \in Seq(Nat) /\ Len(Answer(n)[1].scans) = n
           /\ \A k \in 1..n : Answer(n)[1].scans[k] = next + k - 1
  <1> DEFINE f == [k \in 1..n |-> next + k - 1]
  <1> DEFINE v == [kind |-> "valid", to |-> request + 1, data |-> TRUE, scans |-> f,
                   complete |-> next + n > scans]
  <1>1. next \in Nat /\ request \in Nat /\ scans \in Nat
    BY DEF TypeOK
  <1>2. f \in Seq(Nat) /\ Len(f) = n /\ \A k \in 1..n : f[k] = next + k - 1
    <2>1. f \in [1..n -> Nat]
      BY <1>1
    <2> QED BY <2>1
  <1> HIDE DEF f
  <1>3. v \in Reply /\ v.kind = "valid" /\ v.to = request + 1 /\ v.scans = f /\ v.data
    BY <1>1, <1>2 DEF Reply
  <1>4. Answer(n) = <<v, Bare("ack")>>
    BY DEF Answer, f
  <1>5. Bare("ack") \in Reply /\ Bare("ack").kind = "ack" /\ Bare("ack").to = request + 1
    BY BareIs
  <1> HIDE DEF v
  <1> QED BY <1>2, <1>3, <1>4, <1>5

-----------------------------------------------------------------------------
(* Every step keeps the invariant.                                          *)

(* A step that leaves the scans, the replies and the driver alone.          *)
LEMMA CallerSteps ==
    ASSUME ScansInv,
           \/ \E max \in Maxes : wifi_get_cached_gscan_results(max)
           \/ RoundBegins \/ LoopEnds \/ RequestNotBuilt \/ CallbackNotAllocated \/ SendFails
           \/ RequestFailed \/ LoopBreaks \/ RoundEnds \/ DriverScans \/ UNCHANGED vars
    PROVE  ScansInv'
  <1> USE DEF ScansInv, command, driver
  <1>1. ASSUME NEW max \in Maxes, wifi_get_cached_gscan_results(max)
        PROVE  ScansInv'
    <2>1. /\ pc = "idle" /\ queue = <<>> /\ UNCHANGED <<err, queue, request, driver>>
          /\ pc' = "loop" /\ result' = "none" /\ rounds' = 0 /\ mMax' = max /\ max \in Nat
          /\ mScans' = <<>> /\ mCompleted' = FALSE /\ prev' = 0
          /\ calls' = calls + 1 /\ first' = next /\ next \in Nat
      BY <1>1, ParametersAssumption DEF wifi_get_cached_gscan_results, QueueInv, TypeOK
    <2>2. TypeOK'
      <3>1. 0 \in 0..MaxRounds /\ calls + 1 \in Nat /\ <<>> \in Seq(Nat) /\ 0 \in Nat
        BY ParametersAssumption DEF TypeOK
      <3> QED BY <2>1, <3>1 DEF TypeOK
    <2>3. QueueInv'
      BY <2>1 DEF QueueInv
    <2>4. OrderInv'
      <3>1. Len(mScans') = 0 /\ mScans' \in Seq(Nat) /\ Fetched' = <<>>
            /\ Len(<<>>) = 0 /\ next - 0 = next /\ next..(next - 1) = {} /\ 0 <= mMax'
        BY <2>1 DEF Fetched
      <3>2. After(mScans, Len(mScans))' = next
        BY <2>1, <3>1 DEF After
      <3>3. Good(mScans, next)'
        BY <2>1, <3>1, <3>2 DEF Good, Gapless, Caught
      <3> QED BY <2>1, <3>1, <3>3 DEF OrderInv, Good, Gapless, Caught, After
    <2> QED BY <2>2, <2>3, <2>4
  <1>2. ASSUME UNCHANGED <<mMax, mScans, queue, first, next>>, empty \subseteq empty',
               pc = "receive" <=> pc' = "receive"
        PROVE  OrderInv'
    <2>1. Fetched' = Fetched
      BY <1>2 DEF Fetched
    <2>2. Good(mScans, next - Len(Fetched)) => Good(mScans, next - Len(Fetched))'
      BY <1>2, <2>1 DEF Good, Gapless, Caught, After
    <2> QED BY <1>2, <2>1, <2>2 DEF OrderInv, Answered
  <1>3. CASE UNCHANGED vars
    <2>1. TypeOK' /\ QueueInv'
      BY <1>3 DEF vars, TypeOK, QueueInv, Answered, Ended
    <2>2. OrderInv'
      BY <1>2, <1>3 DEF vars
    <2> QED BY <2>1, <2>2
  <1>4. CASE DriverScans
    <2>1. TypeOK' /\ QueueInv'
      BY <1>4 DEF DriverScans, TypeOK, QueueInv, Answered, Ended
    <2>2. OrderInv'
      BY <1>2, <1>4 DEF DriverScans
    <2> QED BY <2>1, <2>2
  <1>5. CASE \/ RoundBegins \/ LoopEnds \/ RequestNotBuilt \/ CallbackNotAllocated \/ SendFails
             \/ RequestFailed \/ LoopBreaks \/ RoundEnds
    <2>1. /\ UNCHANGED <<mMax, mScans, mCompleted, queue, request, first, next, scans, empty,
                         calls>>
          /\ pc # "receive" /\ pc' # "receive" /\ queue = <<>>
      BY <1>5 DEF RoundBegins, LoopEnds, RequestNotBuilt, CallbackNotAllocated, SendFails,
                  RequestFailed, LoopBreaks, RoundEnds, Returns, QueueInv
    <2>2. TypeOK'
      <3>1. CASE RoundBegins \/ RoundEnds
        <4>1. Len(mScans) \in Nat /\ (rounds < MaxRounds => rounds + 1 \in 0..MaxRounds)
          BY ParametersAssumption DEF TypeOK
        <4>2. RoundEnds => rounds < MaxRounds
          BY DEF RoundEnds, QueueInv
        <4>3. rounds' \in 0..MaxRounds /\ prev' \in Nat
          BY <3>1, <4>1, <4>2 DEF RoundBegins, RoundEnds, TypeOK
        <4> QED BY <3>1, <4>3 DEF RoundBegins, RoundEnds, TypeOK
      <3>2. CASE LoopEnds \/ RequestNotBuilt \/ CallbackNotAllocated \/ SendFails
                 \/ RequestFailed \/ LoopBreaks
        BY <3>2 DEF LoopEnds, RequestNotBuilt, CallbackNotAllocated, SendFails,
                    RequestFailed, LoopBreaks, Returns, TypeOK
      <3> QED BY <1>5, <3>1, <3>2
    <2>3. OrderInv'
      BY <1>2, <2>1
    <2>4. QueueInv'
      BY <1>5, <2>1 DEF RoundBegins, LoopEnds, RequestNotBuilt, CallbackNotAllocated, SendFails,
         RequestFailed, LoopBreaks, RoundEnds, Returns, QueueInv, GoesRound
    <2> QED BY <2>2, <2>3, <2>4
  <1> QED BY <1>1, <1>3, <1>4, <1>5

(* A request is sent, and the replies to it are all that is pending.        *)
LEMMA SendsKeeps ==
    ASSUME ScansInv, Sends
    PROVE  ScansInv'
  <1> USE DEF ScansInv, command, driver
  <1>1. /\ pc = "create" /\ queue = <<>> /\ rounds < MaxRounds
        /\ request' = request + 1 /\ err' = 1 /\ pc' = "receive"
        /\ UNCHANGED <<rounds, mMax, mScans, mCompleted, prev, result, first, scans, empty,
                       calls>>
    BY DEF Sends, QueueInv
  <1>2. request \in Nat /\ next \in Nat /\ mMax \in Nat /\ Fetched = <<>>
    BY <1>1 DEF TypeOK, Fetched
  <1>3. Good(mScans, next)
    BY <1>2 DEF OrderInv
  <1>4. ASSUME NEW n \in Nat, next' = next + n, queue' \in Seq(Reply), Len(queue') = 2,
               queue'[1].kind = "valid", queue'[2].kind = "ack",
               queue'[1].to = request + 1, queue'[2].to = request + 1,
               queue'[1].scans \in Seq(Nat), Len(queue'[1].scans) = n,
               \A k \in 1..n : queue'[1].scans[k] = next + k - 1,
               ~queue'[1].data => queue'[1].scans = <<>>
        PROVE  ScansInv'
    <2>1. TypeOK'
      BY <1>1, <1>2, <1>4 DEF TypeOK
    <2>2. QueueInv'
      <3>1. \A k \in DOMAIN queue' : queue'[k].to = request'
        BY <1>1, <1>4
      <3> QED BY <1>1, <1>4, <3>1 DEF QueueInv, Answered
    <2>3. Fetched' = queue'[1].scans
      BY <1>1, <1>4 DEF Fetched
    <2>4. OrderInv'
      <3>1. next' - n = next /\ n <= next'
        BY <1>2, <1>4
      <3>2. Len(Fetched') = n
        BY <1>4, <2>3
      <3>3. next' - Len(Fetched') = next /\ Len(Fetched') <= next'
        BY <3>1, <3>2
      <3>4. \A k \in 1..n : Fetched'[k] = next' - n + k - 1
        BY <1>4, <2>3, <3>1
      <3>5. Good(mScans, next - Len(Fetched))'
        BY <1>1, <1>3, <3>3 DEF Good, Gapless, Caught, After
      <3> QED BY <1>4, <3>2, <3>3, <3>4, <3>5 DEF OrderInv
    <2> QED BY <2>1, <2>2, <2>4
  <1>5. ASSUME NEW n \in 0..Min({Chunk, Held}), queue' = queue \o Answer(n), next' = next + n
        PROVE  ScansInv'
    <2>1. n \in Nat
      OBVIOUS
    <2>2. /\ Answer(n) \in Seq(Reply) /\ Len(Answer(n)) = 2
          /\ Answer(n)[1].kind = "valid" /\ Answer(n)[2].kind = "ack"
          /\ Answer(n)[1].to = request + 1 /\ Answer(n)[2].to = request + 1
          /\ Answer(n)[1].data
          /\ Answer(n)[1].scans \in Seq(Nat) /\ Len(Answer(n)[1].scans) = n
          /\ \A k \in 1..n : Answer(n)[1].scans[k] = next + k - 1
      BY <2>1, AnswerIs
    <2>3. queue' = Answer(n)
      BY <1>1, <1>5, <2>2
    <2> QED BY <1>4, <1>5, <2>1, <2>2, <2>3
  <1>6. ASSUME queue' = queue \o <<Bare("valid"), Bare("ack")>>, UNCHANGED next
        PROVE  ScansInv'
    <2>1. /\ Bare("valid") \in Reply /\ Bare("ack") \in Reply
          /\ Bare("valid").kind = "valid" /\ Bare("ack").kind = "ack"
          /\ Bare("valid").to = request + 1 /\ Bare("ack").to = request + 1
          /\ Bare("valid").scans = <<>>
      BY BareIs
    <2>2. queue' = <<Bare("valid"), Bare("ack")>>
      BY <1>1, <1>6, <2>1
    <2>3. /\ queue' \in Seq(Reply) /\ Len(queue') = 2
          /\ queue'[1] = Bare("valid") /\ queue'[2] = Bare("ack")
      BY <2>1, <2>2
    <2>4. next' = next + 0 /\ Len(<<>>) = 0 /\ <<>> \in Seq(Nat) /\ 0 \in Nat /\ 1..0 = {}
      BY <1>2, <1>6
    <2> QED BY <1>4, <2>1, <2>3, <2>4
  <1>7. ASSUME queue' = Append(queue, Bare("error")), UNCHANGED next
        PROVE  ScansInv'
    <2>1. /\ Bare("error") \in Reply /\ Bare("error").kind = "error"
          /\ Bare("error").to = request + 1
      BY BareIs
    <2>2. queue' = <<Bare("error")>>
      BY <1>1, <1>7
    <2>3. /\ queue' \in Seq(Reply) /\ Len(queue') = 1 /\ DOMAIN queue' = {1}
          /\ queue'[1] = Bare("error")
      BY <2>1, <2>2
    <2>4. TypeOK'
      BY <1>1, <1>2, <1>7, <2>3 DEF TypeOK
    <2>5. Ended' /\ ~Answered'
      BY <2>1, <2>3 DEF Ended, Answered
    <2>6. QueueInv'
      BY <1>1, <2>1, <2>3, <2>5 DEF QueueInv
    <2>7. Fetched' = <<>>
      BY <2>3 DEF Fetched
    <2>8. OrderInv'
      <3>1. Len(<<>>) = 0 /\ next' - Len(Fetched') = next /\ Len(Fetched') <= next'
        BY <1>2, <1>7, <2>7
      <3>2. Good(mScans, next - Len(Fetched))'
        BY <1>1, <1>3, <3>1 DEF Good, Gapless, Caught, After
      <3> QED BY <2>5, <2>7, <3>1, <3>2 DEF OrderInv
    <2> QED BY <2>4, <2>6, <2>8
  <1> QED BY <1>5, <1>6, <1>7 DEF Sends

(* The scans of a reply are stored behind the ones that came before them.   *)
LEMMA ReceivesValidKeeps ==
    ASSUME ScansInv, ReceivesValid
    PROVE  ScansInv'
  <1> USE DEF ScansInv
  <1> DEFINE s == queue[1].scans
  <1>1. /\ pc = "receive" /\ pc' = "receive" /\ Answered /\ ~Ended /\ Head(queue) = queue[1]
        /\ queue' = Tail(queue) /\ handleResponse(queue[1])
        /\ UNCHANGED <<rounds, mMax, prev, err, result, request, first, next, scans,
                       empty, calls>>
        /\ queue \in Seq(Reply)
    BY DEF ReceivesValid, QueueInv, Answered, Ended, TypeOK, driver
  <1>2. /\ Len(queue) = 2 /\ queue[1] \in Reply /\ queue[2].kind = "ack"
        /\ queue' \in Seq(Reply) /\ Len(queue') = 1 /\ DOMAIN queue' = {1}
        /\ queue'[1] = queue[2] /\ DOMAIN queue = {1, 2}
    <2>1. queue \in Seq(Reply) /\ Len(queue) = 2 /\ queue[2].kind = "ack"
      BY <1>1 DEF Answered
    <2>2. DOMAIN queue = 1..2 /\ queue[1] \in Reply /\ queue # <<>>
      BY <2>1
    <2>3. /\ queue' \in Seq(Reply) /\ Len(queue') = Len(queue) - 1
          /\ \A i \in 1..Len(queue') : queue'[i] = queue[i + 1]
      BY <1>1, <2>1, <2>2, HeadTailProperties, Zenon
    <2>4. Len(queue') = 1 /\ DOMAIN queue' = 1..1
      BY <2>1, <2>3
    <2>5. queue'[1] = queue[2]
      <3>1. 1 \in 1..Len(queue') /\ 1 + 1 = 2
        BY <2>4
      <3> QED BY <2>3, <3>1
    <2>6. 1..2 = {1, 2} /\ 1..1 = {1}
      OBVIOUS
    <2> QED BY <2>1, <2>2, <2>3, <2>4, <2>5, <2>6
  <1>3. /\ s \in Seq(Nat) /\ Len(s) \in Nat /\ queue[1].complete \in BOOLEAN
        /\ mMax \in Nat /\ first \in Nat /\ next \in Nat /\ mScans \in Seq(Nat)
    BY <1>2 DEF Reply, TypeOK
  <1>4. Fetched = s
    BY <1>1, <1>2 DEF Fetched
  <1>5. /\ next - Len(s) \in Nat /\ Good(mScans, next - Len(s))
        /\ \A k \in 1..Len(s) : s[k] = (next - Len(s)) + k - 1
        /\ ~queue[1].data => s = <<>>
    <2>1. /\ \A k \in 1..Len(s) : s[k] = next - Len(s) + k - 1
          /\ Len(s) <= next /\ Good(mScans, next - Len(s))
          /\ ~queue[1].data => s = <<>>
      BY <1>1, <1>4 DEF OrderInv
    <2>2. next - Len(s) \in Nat
      BY <1>3, <2>1
    <2> QED BY <2>1, <2>2, Zenon
  <1> HIDE DEF s
  <1>6. Good(mScans', next) /\ mCompleted' \in BOOLEAN
    <2>1. CASE queue[1].data
      <3>1. mScans' = FoldLeft(StoreScan, mScans, s) /\ mCompleted' = queue[1].complete
        BY <1>1, <2>1 DEF handleResponse, s
      <3>2. Good(FoldLeft(StoreScan, mScans, s), (next - Len(s)) + Len(s))
        BY <1>3, <1>5, StoresGood
      <3>3. (next - Len(s)) + Len(s) = next
        BY <1>3
      <3> QED BY <1>3, <3>1, <3>2, <3>3
    <2>2. CASE ~queue[1].data
      <3>1. UNCHANGED <<mScans, mCompleted>>
        BY <1>1, <2>2 DEF handleResponse
      <3>2. next - Len(s) = next
        BY <1>3, <1>5, <2>2
      <3> QED BY <1>5, <3>1, <3>2 DEF TypeOK
    <2> QED BY <2>1, <2>2
  <1>7. TypeOK'
    <2>1. mScans' \in Seq(Nat)
      BY <1>6 DEF Good
    <2> QED BY <1>1, <1>2, <1>6, <2>1 DEF TypeOK
  <1>8. QueueInv'
    BY <1>1, <1>2 DEF QueueInv, Ended
  <1>9. OrderInv'
    <2>1. Fetched' = <<>> /\ ~Answered' /\ Len(<<>>) = 0
      BY <1>2 DEF Fetched, Answered
    <2>2. next' - Len(Fetched') = next
      BY <1>1, <1>3, <2>1
    <2>3. Good(mScans, next - Len(Fetched))'
      BY <1>1, <1>6, <2>2 DEF Good, Gapless, Caught, After
    <2> QED BY <1>1, <1>3, <2>1, <2>3 DEF OrderInv
  <1> QED BY <1>7, <1>8, <1>9

(* The last reply to a request ends the wait and leaves the socket empty.   *)
LEMMA ReceivesEndKeeps ==
    ASSUME ScansInv, ReceivesEnd
    PROVE  ScansInv'
  <1> USE DEF ScansInv, command, driver
  <1>1. /\ pc = "receive" /\ pc' = "judge" /\ Ended /\ Head(queue) = queue[1]
        /\ queue' = Tail(queue) /\ rounds < MaxRounds
        /\ err' = IF queue[1].kind = "ack" THEN 0 ELSE -1
        /\ UNCHANGED <<rounds, mMax, mScans, mCompleted, prev, result, request,
                       first, next, scans, empty, calls>>
    BY DEF ReceivesEnd, QueueInv, Answered, Ended, TypeOK
  <1>2. queue' = <<>>
    BY <1>1 DEF Ended, TypeOK
  <1>3. TypeOK'
    <2>1. err' \in {-1, 0, 1}
      BY <1>1
    <2>2. queue' \in Seq(Reply)
      BY <1>2
    <2> QED BY <1>1, <2>1, <2>2 DEF TypeOK
  <1>4. QueueInv'
    BY <1>1, <1>2 DEF QueueInv
  <1>5. OrderInv'
    <2>1. Fetched = <<>> /\ Fetched' = <<>>
      BY <1>1, <1>2 DEF Fetched, Ended
    <2>2. Good(mScans, next - Len(Fetched))'
      BY <1>1, <2>1 DEF OrderInv, Good, Gapless, Caught, After
    <2> QED BY <1>1, <2>1, <2>2 DEF OrderInv
  <1> QED BY <1>3, <1>4, <1>5

(* The invariant holds of every sequence of calls.                          *)
LEMMA ScansAlways == Spec => []ScansInv
  <1>1. Init => ScansInv
    <2> SUFFICES ASSUME Init PROVE ScansInv
      OBVIOUS
    <2>1. TypeOK
      <3>1. 0 \in 0..MaxRounds /\ 0 \in Nat /\ 1 \in Nat
        BY ParametersAssumption
      <3>2. mScans \in Seq(Nat) /\ queue \in Seq(Reply)
        BY DEF Init
      <3> QED BY <3>1, <3>2 DEF Init, TypeOK
    <2>2. QueueInv
      BY DEF Init, QueueInv
    <2>3. OrderInv
      <3>1. Fetched = <<>> /\ Len(mScans) = 0 /\ mMax = 0 /\ mScans \in Seq(Nat) /\ next = 1
        BY DEF Init, Fetched
      <3>2. Good(mScans, next - Len(Fetched))
        BY <3>1 DEF Good, Gapless
      <3> QED BY <3>1, <3>2 DEF Init, OrderInv
    <2> QED BY <2>1, <2>2, <2>3 DEF ScansInv
  <1>2. ScansInv /\ [Next]_vars => ScansInv'
    BY CallerSteps, SendsKeeps, ReceivesValidKeeps, ReceivesEndKeeps DEF Next, ExecuteSteps
  <1> QED BY <1>1, <1>2, PTL DEF Spec

-----------------------------------------------------------------------------
(* handleResponse never writes past the caller's buffer, whatever the       *)
(* driver sends.                                                            *)
THEOREM BufferKept == Spec => []StaysInBuffer
  <1>1. ScansInv => StaysInBuffer
    BY DEF ScansInv, OrderInv, Good, StaysInBuffer
  <1> QED BY <1>1, ScansAlways, PTL

(* Without a check of sequence numbers, every reply that requestResponse    *)
(* reads is still one to the request it sent.                               *)
THEOREM RepliesMatch == Spec => []RepliesToThisRequest
  <1>1. ScansInv => RepliesToThisRequest
    BY DEF ScansInv, QueueInv, RepliesToThisRequest
  <1> QED BY <1>1, ScansAlways, PTL

(* A call returns scans in order, and leaves out between them only scans    *)
(* without results; across its rounds, also when the driver sends more than *)
(* fits, a reply without vendor data or none.                               *)
THEOREM ScansInOrder == Spec => []NoScanSkipped
  <1>1. ScansInv => NoScanSkipped
    BY DEF ScansInv, OrderInv, Good, Gapless, NoScanSkipped
  <1> QED BY <1>1, ScansAlways, PTL

(* Whatever the driver hands over while the buffer has room, and forgets,   *)
(* reaches the caller if it has results.                                    *)
THEOREM HandedOverScansKept == Spec => []NoScanLost
  <1>1. ScansInv => NoScanLost
    <2> SUFFICES ASSUME ScansInv, pc # "receive", Len(mScans) < mMax
                 PROVE  After(mScans, Len(mScans))..(next - 1) \subseteq empty
      BY DEF NoScanLost
    <2>1. Fetched = <<>> /\ next \in Nat
      BY DEF ScansInv, TypeOK, Fetched
    <2>2. Good(mScans, next)
      BY <2>1 DEF ScansInv, OrderInv
    <2> QED BY <2>2 DEF Good, Caught
  <1> QED BY <1>1, ScansAlways, PTL
=============================================================================
