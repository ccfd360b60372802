----------------------------- MODULE FifoProofs -----------------------------
(***************************************************************************)
(* The pointers of fifo.c implement the queues of FifoQueues, for every    *)
(* set of pages and lists.                                                 *)
(*                                                                         *)
(* Chain, the queue that the pointers stand for, is defined by following   *)
(* prev from last, and what it yields is a matter of induction.  The       *)
(* library's induction theorems are of no use to the provers; Least takes  *)
(* the place of them, and ChainIs is the only fact about Chain that the    *)
(* rest needs: a sequence that last and prev lead along is Chain.  The     *)
(* invariant says that there is such a sequence for every list, with next, *)
(* first, numentries and the list fields in agreement and no page twice;   *)
(* what each operation does to the sequence is then a calculation.         *)
(***************************************************************************)
EXTENDS Fifo, TotalProofs

-----------------------------------------------------------------------------
(* Induction, and what Chain yields.                                        *)

\* Induction over the positions of a sequence of n elements.
LEMMA UpTo ==
    ASSUME NEW n \in Nat, NEW S, n > 0 => 1 \in S,
           \A i \in 1 .. n : i + 1 <= n /\ i \in S => i + 1 \in S
    PROVE  1 .. n \subseteq S
<1> SUFFICES ASSUME ~(1 .. n \subseteq S) PROVE FALSE
  OBVIOUS
<1>1. (1 .. n) \ S \in SUBSET Nat /\ (1 .. n) \ S # {}
  OBVIOUS
<1>2. PICK m \in (1 .. n) \ S : \A k \in (1 .. n) \ S : m <= k
  BY <1>1, Least
<1>3. CASE m = 1
  BY <1>2, <1>3
<1>4. CASE m # 1
  <2>1. m - 1 \in 1 .. n /\ m - 1 \in S
    BY <1>2, <1>4
  <2> QED  BY <1>2, <2>1
<1> QED  BY <1>3, <1>4

\* The sequence s is what Chain(q) reads from last along prev.
Reads(q, s) ==
    /\ s \in Seq(Pages) /\ Len(s) = numentries[q]
    /\ s # <<>> => s[1] = last[q]
    /\ \A i \in 1 .. Len(s) - 1 : s[i + 1] = prev[s[i]]

\* Chain(q) is that sequence.
LEMMA ChainIs ==
    ASSUME NEW q, NEW s, Reads(q, s)
    PROVE  Chain(q) = s
<1> DEFINE n == numentries[q]
           Eq(f) == f = [i \in 1 .. n |-> IF i = 1 THEN last[q] ELSE prev[f[i - 1]]]
<1>1. n \in Nat /\ s = [i \in 1 .. n |-> s[i]]
  BY DEF Reads
<1>2. \A i \in 1 .. n : s[i] = IF i = 1 THEN last[q] ELSE prev[s[i - 1]]
  <2> SUFFICES ASSUME NEW i \in 1 .. n PROVE s[i] = IF i = 1 THEN last[q] ELSE prev[s[i - 1]]
    OBVIOUS
  <2>1. CASE i = 1
    BY <1>1, <2>1 DEF Reads
  <2>2. CASE i # 1
    <3>1. i - 1 \in 1 .. Len(s) - 1 /\ (i - 1) + 1 = i
      BY <1>1, <2>2 DEF Reads
    <3> QED  BY <2>2, <3>1 DEF Reads
  <2> QED  BY <2>1, <2>2
<1>3. Eq(s)
  BY <1>1, <1>2
<1> DEFINE at == CHOOSE f : Eq(f)
<1>4. Eq(at)
  BY <1>3, Zenon
<1>5. Chain(q) = [i \in 1 .. n |-> at[i]]
  BY Zenon DEF Chain
<1> HIDE DEF at
<1>6. \A i \in 1 .. n : at[i] = IF i = 1 THEN last[q] ELSE prev[at[i - 1]]
  BY <1>4
<1>7. \A i \in 1 .. n : at[i] = s[i]
  <2> DEFINE S == {i \in 1 .. n : at[i] = s[i]}
  <2>1. n > 0 => 1 \in S
    BY <1>1, <1>2, <1>6
  <2>2. ASSUME NEW i \in 1 .. n, i + 1 <= n, i \in S PROVE i + 1 \in S
    <3>1. i + 1 \in 1 .. n /\ i + 1 # 1 /\ (i + 1) - 1 = i
      BY <1>1, <2>2
    <3>2. at[i + 1] = prev[at[i]] /\ s[i + 1] = prev[s[i]]
      BY <1>2, <1>6, <3>1
    <3> QED  BY <2>2, <3>1, <3>2
  <2> HIDE DEF S
  <2>3. 1 .. n \subseteq S
    BY <1>1, <2>1, <2>2, UpTo
  <2> QED  BY <2>3 DEF S
<1> QED  BY <1>1, <1>5, <1>7

-----------------------------------------------------------------------------
(* The inductive invariant.                                                 *)

\* The links of q are those of the sequence s: WellLinked, and no page twice.
Links(q, s) ==
    /\ Reads(q, s)
    /\ s = <<>> => first[q] = NULL /\ last[q] = NULL
    /\ s # <<>> => first[q] = s[Len(s)] /\ prev[s[Len(s)]] = NULL /\ next[s[1]] = NULL
    /\ \A i \in 1 .. Len(s) - 1 : next[s[i + 1]] = s[i]
    /\ \A i \in 1 .. Len(s) : list[s[i]] = q
    /\ \A i, j \in 1 .. Len(s) : s[i] = s[j] => i = j
    /\ \A p \in Pages : list[p] = q => \E i \in 1 .. Len(s) : s[i] = p

LinkTypes ==
    /\ first \in [Queues -> Pages \cup {NULL}]
    /\ last \in [Queues -> Pages \cup {NULL}]
    /\ numentries \in [Queues -> Nat]
    /\ next \in [Pages -> Pages \cup {NULL}]
    /\ prev \in [Pages -> Pages \cup {NULL}]
    /\ list \in [Pages -> Queues \cup {NULL}]
    /\ \A p \in Pages : list[p] = NULL => prev[p] = NULL

FifoInv ==
    /\ ~failed /\ LinkTypes
    /\ \A q \in Queues : \E s \in Seq(Pages) : Links(q, s)

\* A step that leaves the pages of q and its ends alone leaves its links alone.
LEMMA LinksKept ==
    ASSUME NEW q, NEW s, Links(q, s),
           UNCHANGED <<first[q], last[q], numentries[q]>>,
           \A p \in Pages : list[p] = q => /\ list'[p] = q
                                           /\ prev'[p] = prev[p] /\ next'[p] = next[p],
           \A p \in Pages : list'[p] = q => list[p] = q
    PROVE  Links(q, s)'
<1>1. s \in Seq(Pages) /\ \A i \in 1 .. Len(s) : s[i] \in Pages /\ list[s[i]] = q
  BY DEF Links, Reads
<1>2. \A i \in 1 .. Len(s) : /\ list'[s[i]] = q
                            /\ prev'[s[i]] = prev[s[i]] /\ next'[s[i]] = next[s[i]]
  BY <1>1
<1>3. Reads(q, s)'
  BY <1>1, <1>2 DEF Links, Reads
<1>4. s # <<>> => Len(s) \in 1 .. Len(s) /\ 1 \in 1 .. Len(s)
  BY <1>1
<1>5. \A i \in 1 .. Len(s) - 1 : i + 1 \in 1 .. Len(s)
  BY <1>1
<1> QED  BY <1>2, <1>3, <1>4, <1>5 DEF Links

\* The newest page is linked in before first.
LEMMA Enqueued ==
    ASSUME LinkTypes, NEW q \in Queues, NEW s, Links(q, s), NEW p \in Pages, list[p] = NULL,
           next' = [next EXCEPT ![p] = first[q]],
           prev' = [x \in Pages |-> IF x = first[q] THEN p ELSE prev[x]],
           last' = IF first[q] = NULL THEN [last EXCEPT ![q] = p] ELSE last,
           first' = [first EXCEPT ![q] = p],
           list' = [list EXCEPT ![p] = q],
           numentries' = [numentries EXCEPT ![q] = @ + 1]
    PROVE  Links(q, Append(s, p))'
<1> DEFINE t == Append(s, p)
           n == Len(s)
<1>1. /\ s \in Seq(Pages) /\ n \in Nat /\ t \in Seq(Pages) /\ Len(t) = n + 1
      /\ \A i \in 1 .. n : t[i] = s[i]
      /\ t[n + 1] = p /\ t # <<>>
  <2>1. s \in Seq(Pages)
    BY DEF Links, Reads
  <2> QED  BY <2>1
<1>2. \A i \in 1 .. n : s[i] \in Pages /\ s[i] # p
  <2>1. \A i \in 1 .. n : list[s[i]] = q
    BY DEF Links
  <2>2. q # NULL
    BY FifoAssumption
  <2> QED  BY <1>1, <2>1, <2>2
<1>3. s # <<>> => n \in 1 .. n /\ 1 \in 1 .. n /\ first[q] = s[n] /\ first[q] # NULL /\ first[q] # p
  BY <1>1, <1>2, FifoAssumption DEF Links
<1>4. s = <<>> => n = 0 /\ first[q] = NULL
  BY <1>1 DEF Links
<1>5. prev'[p] = NULL
  BY <1>3, <1>4, FifoAssumption DEF LinkTypes
<1>6. \A i \in 1 .. n - 1 : prev'[s[i]] = prev[s[i]] /\ prev[s[i]] = s[i + 1]
  <2> SUFFICES ASSUME NEW i \in 1 .. n - 1 PROVE prev'[s[i]] = prev[s[i]] /\ prev[s[i]] = s[i + 1]
    OBVIOUS
  <2>1. s[i] # s[n]
    BY <1>1 DEF Links
  <2>2. s # <<>> /\ s[i] # first[q] /\ s[i] \in Pages
    BY <1>1, <1>2, <1>3, <2>1
  <2> QED  BY <1>1, <2>2 DEF Links, Reads
<1>7. n > 0 => prev'[s[n]] = p
  BY <1>1, <1>2, <1>3, <1>4
<1>8. \A i \in 1 .. n : next'[s[i]] = next[s[i]] /\ list'[s[i]] = q
  BY <1>1, <1>2 DEF LinkTypes, Links
<1>9. next'[p] = first[q] /\ list'[p] = q /\ first'[q] = p /\ numentries'[q] = n + 1
  BY <1>1 DEF LinkTypes, Links, Reads
<1>10. last'[q] = t[1]
  <2>1. CASE s = <<>>
    BY <1>1, <1>4, <2>1 DEF LinkTypes
  <2>2. CASE s # <<>>
    BY <1>1, <1>3, <2>2 DEF Links, Reads
  <2> QED  BY <2>1, <2>2
<1> HIDE DEF t, n
<1>11. \A i \in 1 .. Len(t) - 1 : prev'[t[i]] = t[i + 1]
  <2> SUFFICES ASSUME NEW i \in 1 .. n PROVE prev'[t[i]] = t[i + 1]
    BY <1>1
  <2>1. CASE i = n
    BY <1>1, <1>7, <2>1
  <2>2. CASE i # n
    BY <1>1, <1>6, <2>2
  <2> QED  BY <2>1, <2>2
<1>12. \A i \in 1 .. Len(t) - 1 : next'[t[i + 1]] = t[i]
  <2> SUFFICES ASSUME NEW i \in 1 .. n PROVE next'[t[i + 1]] = t[i]
    BY <1>1
  <2>1. CASE i = n
    BY <1>1, <1>3, <1>9, <2>1, <1>4
  <2>2. CASE i # n
    BY <1>1, <1>8, <2>2 DEF Links, n
  <2> QED  BY <2>1, <2>2
<1>13. next'[t[1]] = NULL
  <2>1. CASE s = <<>>
    BY <1>1, <1>4, <1>9, <2>1
  <2>2. CASE s # <<>>
    BY <1>1, <1>3, <1>8, <2>2 DEF Links
  <2> QED  BY <2>1, <2>2
<1>14. \A i \in 1 .. Len(t) : list'[t[i]] = q
  BY <1>1, <1>8, <1>9
<1>15. \A i, j \in 1 .. Len(t) : t[i] = t[j] => i = j
  BY <1>1, <1>2 DEF Links, n
<1>16. ASSUME NEW x \in Pages, list'[x] = q PROVE \E i \in 1 .. Len(t) : t[i] = x
  <2>1. CASE x = p
    BY <1>1, <2>1
  <2>2. CASE x # p
    <3>1. list[x] = q
      BY <1>16, <2>2 DEF LinkTypes
    <3>2. PICK i \in 1 .. n : s[i] = x
      BY <3>1 DEF Links, n
    <3> QED  BY <1>1, <3>2
  <2> QED  BY <2>1, <2>2
<1>17. Reads(q, t)'
  BY <1>1, <1>9, <1>10, <1>11 DEF Reads
<1> QED  BY <1>1, <1>5, <1>9, <1>12, <1>13, <1>14, <1>15, <1>16, <1>17 DEF Links, t

\* The oldest page is taken off the end.
LEMMA Popped ==
    ASSUME LinkTypes, NEW q \in Queues, NEW s, Links(q, s), last[q] # NULL, PopLast(q)
    PROVE  /\ s # <<>> /\ s[1] = last[q]
           /\ Links(q, Tail(s))'
<1> DEFINE t == Tail(s)
           n == Len(s)
           p == last[q]
           l == prev[p]
<1>1. s \in Seq(Pages) /\ n \in Nat /\ s # <<>> /\ n > 0 /\ s[1] = p
  BY DEF Links, Reads
<1>2. /\ t \in Seq(Pages) /\ Len(t) = n - 1
      /\ \A i \in 1 .. n - 1 : t[i] = s[i + 1]
      /\ n = 1 <=> t = <<>>
  <2>1. t \in Seq(Pages) /\ Len(t) = n - 1 /\ \A i \in 1 .. n - 1 : t[i] = s[i + 1]
    BY <1>1
  <2>2. t = <<>> <=> Len(t) = 0
    <3> HIDE DEF t
    <3> QED  BY <2>1
  <2> QED  BY <1>1, <2>1, <2>2
<1>3. \A i \in 1 .. n : s[i] \in Pages /\ s[i] # NULL /\ list[s[i]] = q
  <2>1. \A i \in 1 .. n : list[s[i]] = q
    BY DEF Links
  <2> QED  BY <1>1, <2>1, FifoAssumption
<1>4. IF n = 1 THEN l = NULL ELSE l = s[2] /\ l # NULL
  <2>1. CASE n = 1
    BY <1>1, <2>1 DEF Links
  <2>2. CASE n # 1
    <3>1. 1 \in 1 .. n - 1 /\ 2 \in 1 .. n
      <4> HIDE DEF n
      <4> QED  BY <1>1, <2>2
    <3>2. \A i \in 1 .. n - 1 : s[i + 1] = prev[s[i]]
      BY DEF Links, Reads
    <3>3. s[1 + 1] = prev[s[1]]
      BY <3>1, <3>2
    <3> QED  BY <1>1, <1>3, <2>2, <3>1, <3>3
  <2> QED  BY <2>1, <2>2
<1>5. \A i \in 2 .. n : s[i] # p
  BY <1>1 DEF Links
<1>6. /\ last'[q] = l /\ numentries'[q] = n - 1
      /\ first'[q] = IF n = 1 THEN NULL ELSE first[q]
      /\ \A x \in Pages : /\ next'[x] = IF x \in {l, p} THEN NULL ELSE next[x]
                          /\ prev'[x] = IF x = p THEN NULL ELSE prev[x]
                          /\ list'[x] = IF x = p THEN NULL ELSE list[x]
  BY <1>1, <1>4 DEF PopLast, LinkTypes, Links, Reads
<1> HIDE DEF t, n, l, p
<1>7. \A i \in 1 .. Len(t) - 1 : t[i + 1] = prev'[t[i]]
  <2> SUFFICES ASSUME NEW i \in 1 .. n - 2 PROVE t[i + 1] = prev'[t[i]]
    BY <1>1, <1>2
  <2>1. i \in 1 .. n - 1 /\ i + 1 \in 1 .. n - 1 /\ i + 1 \in 2 .. n /\ i + 1 \in 1 .. n
    BY <1>1
  <2>2. s[i + 1] \in Pages /\ s[i + 1] # p /\ s[(i + 1) + 1] = prev[s[i + 1]]
    BY <1>3, <1>5, <2>1 DEF Links, Reads, n
  <2> QED  BY <1>2, <1>6, <2>1, <2>2
<1>8. \A i \in 1 .. Len(t) - 1 : next'[t[i + 1]] = t[i]
  <2> SUFFICES ASSUME NEW i \in 1 .. n - 2 PROVE next'[t[i + 1]] = t[i]
    BY <1>1, <1>2
  <2>1. /\ i \in 1 .. n - 1 /\ i + 1 \in 1 .. n - 1 /\ (i + 1) + 1 \in 2 .. n
        /\ (i + 1) + 1 \in 1 .. n /\ (i + 1) + 1 # 2 /\ 2 \in 1 .. n /\ n # 1
    BY <1>1
  <2>2. /\ s[(i + 1) + 1] \in Pages /\ s[(i + 1) + 1] # p /\ s[(i + 1) + 1] # s[2]
        /\ next[s[(i + 1) + 1]] = s[i + 1]
    BY <1>3, <1>5, <2>1 DEF Links, n
  <2> QED  BY <1>2, <1>4, <1>6, <2>1, <2>2
<1>9. t # <<>> => first'[q] = t[Len(t)] /\ prev'[t[Len(t)]] = NULL /\ next'[t[1]] = NULL
  <2> SUFFICES ASSUME n # 1
               PROVE  first'[q] = t[Len(t)] /\ prev'[t[Len(t)]] = NULL /\ next'[t[1]] = NULL
    BY <1>2
  <2>1. t[n - 1] = s[n] /\ t[1] = s[2] /\ Len(t) = n - 1
    BY <1>1, <1>2
  <2>2. /\ n \in 1 .. n /\ s[n] \in Pages /\ s[n] # p /\ s[2] \in Pages
        /\ first[q] = s[n] /\ prev[s[n]] = NULL
    <3>1. first[q] = s[n] /\ prev[s[n]] = NULL
      BY <1>1 DEF Links, n
    <3>2. n \in 1 .. n /\ n \in 2 .. n /\ 2 \in 1 .. n
      BY <1>1
    <3> QED  BY <1>3, <1>5, <3>1, <3>2
  <2> QED  BY <1>4, <1>6, <2>1, <2>2
<1>10. t = <<>> => first'[q] = NULL /\ last'[q] = NULL
  BY <1>2, <1>4, <1>6
<1>11. t # <<>> => t[1] = last'[q]
  BY <1>1, <1>2, <1>4, <1>6
<1>12. \A i \in 1 .. Len(t) : list'[t[i]] = q
  <2> SUFFICES ASSUME NEW i \in 1 .. n - 1 PROVE list'[t[i]] = q
    BY <1>2
  <2>1. i + 1 \in 2 .. n /\ i + 1 \in 1 .. n
    BY <1>1
  <2> QED  BY <1>2, <1>3, <1>5, <1>6, <2>1
<1>13. \A i, j \in 1 .. Len(t) : t[i] = t[j] => i = j
  <2> SUFFICES ASSUME NEW i \in 1 .. n - 1, NEW j \in 1 .. n - 1, t[i] = t[j] PROVE i = j
    BY <1>2
  <2>1. i + 1 \in 1 .. n /\ j + 1 \in 1 .. n /\ s[i + 1] = s[j + 1]
    BY <1>1, <1>2
  <2>2. i + 1 = j + 1
    BY <2>1 DEF Links, n
  <2> QED  BY <2>2
<1>14. ASSUME NEW x \in Pages, list'[x] = q PROVE \E i \in 1 .. Len(t) : t[i] = x
  <2>1. x # p /\ list[x] = q
    BY <1>6, <1>14, FifoAssumption
  <2>2. PICK i \in 1 .. n : s[i] = x
    BY <2>1 DEF Links, n
  <2>3. i # 1 /\ i - 1 \in 1 .. n - 1 /\ (i - 1) + 1 = i
    BY <1>1, <2>1, <2>2
  <2> QED  BY <1>2, <2>2, <2>3
<1>15. Reads(q, t)'
  BY <1>2, <1>6, <1>7, <1>11 DEF Reads
<1>16. Links(q, t)'
  BY <1>8, <1>9, <1>10, <1>12, <1>13, <1>14, <1>15 DEF Links
<1> QED  BY <1>1, <1>16 DEF t, p

\* A page is unlinked wherever it is, and the others keep their order.
LEMMA Unlinked ==
    ASSUME LinkTypes, NEW q \in Queues, NEW s, Links(q, s),
           NEW k \in 1 .. Len(s), Unlink(q, s[k])
    PROVE  Links(q, [j \in 1 .. Len(s) - 1 |-> IF j < k THEN s[j] ELSE s[j + 1]])'
<1> DEFINE t == [j \in 1 .. Len(s) - 1 |-> IF j < k THEN s[j] ELSE s[j + 1]]
           n == Len(s)
           p == s[k]
           Old(j) == IF j < k THEN j ELSE j + 1
<1>1. s \in Seq(Pages) /\ n \in Nat /\ s # <<>> /\ n > 0 /\ k \in 1 .. n
  BY DEF Links, Reads
<1>2. \A i \in 1 .. n : s[i] \in Pages /\ s[i] # NULL /\ list[s[i]] = q
  <2>1. \A i \in 1 .. n : list[s[i]] = q
    BY DEF Links
  <2> QED  BY <1>1, <2>1, FifoAssumption
<1>3. \A i \in 1 .. n - 1 : prev[s[i]] = s[i + 1] /\ next[s[i + 1]] = s[i]
  BY DEF Links, Reads
<1>4. \A i, j \in 1 .. n : s[i] = s[j] => i = j
  BY DEF Links
<1>5. last[q] = s[1] /\ first[q] = s[n] /\ prev[s[n]] = NULL /\ next[s[1]] = NULL
  BY <1>1 DEF Links, Reads
<1>6. /\ t \in Seq(Pages) /\ Len(t) = n - 1
      /\ \A j \in 1 .. n - 1 : Old(j) \in 1 .. n /\ Old(j) # k /\ t[j] = s[Old(j)]
  <2>1. \A j \in 1 .. n - 1 : Old(j) \in 1 .. n /\ Old(j) # k /\ t[j] = s[Old(j)]
    BY <1>1
  <2>2. t \in [1 .. n - 1 -> Pages] /\ n - 1 \in Nat
    BY <1>1, <1>2
  <2>3. t \in Seq(Pages) /\ Len(t) = n - 1
    <3> HIDE DEF t
    <3> QED  BY <2>2
  <2> QED  BY <2>1, <2>3
<1>7. t = <<>> <=> n = 1
  <2>1. t \in Seq(Pages) /\ Len(t) = n - 1
    BY <1>6
  <2> HIDE DEF t
  <2>2. t = <<>> <=> Len(t) = 0
    BY <2>1
  <2> QED  BY <1>1, <2>1, <2>2
<1>8. /\ first'[q] = IF k = n THEN next[p] ELSE s[n]
      /\ last'[q] = IF k = 1 THEN prev[p] ELSE s[1]
      /\ numentries'[q] = n - 1
  <2>1. s[n] = p <=> k = n
    BY <1>1, <1>4
  <2>2. s[1] = p <=> k = 1
    BY <1>1, <1>4
  <2>3. numentries[q] = n
    BY DEF Links, Reads
  <2> QED  BY <1>5, <2>1, <2>2, <2>3 DEF Unlink, LinkTypes
<1>9. \A x \in Pages :
        /\ x # p => next'[x] = IF x = prev[p] THEN next[p] ELSE next[x]
        /\ x # p => prev'[x] = IF x = next[p] THEN prev[p] ELSE prev[x]
        /\ list'[x] = IF x = p THEN NULL ELSE list[x]
  BY DEF Unlink, LinkTypes
<1>10. /\ prev[p] = IF k = n THEN NULL ELSE s[k + 1]
       /\ next[p] = IF k = 1 THEN NULL ELSE s[k - 1]
  <2>1. prev[p] = IF k = n THEN NULL ELSE s[k + 1]
    BY <1>1, <1>3, <1>5
  <2>2. CASE k # 1
    <3>1. k - 1 \in 1 .. n - 1 /\ (k - 1) + 1 = k
      BY <1>1, <2>2
    <3> QED  BY <1>3, <2>1, <2>2, <3>1
  <2> QED  BY <1>5, <2>1, <2>2
<1> HIDE DEF t, n, p
\* What the links of the pages that stay become.
<1>11. ASSUME NEW i \in 1 .. n, i # k
       PROVE  /\ prev'[s[i]] = IF i + 1 = k THEN prev[p] ELSE prev[s[i]]
              /\ next'[s[i]] = IF i - 1 = k THEN next[p] ELSE next[s[i]]
              /\ list'[s[i]] = q
  <2>1. s[i] \in Pages /\ s[i] # NULL /\ s[i] # p
    BY <1>1, <1>2, <1>4, <1>11 DEF p
  <2>2. s[i] = next[p] <=> i + 1 = k
    <3>1. CASE k = 1
      BY <1>10, <1>11, <2>1, <3>1
    <3>2. CASE k # 1
      <4>1. k - 1 \in 1 .. n
        BY <1>1, <3>2
      <4>2. s[i] = s[k - 1] <=> i = k - 1
        BY <1>4, <4>1
      <4> QED  BY <1>1, <1>10, <3>2, <4>2
    <3> QED  BY <3>1, <3>2
  <2>3. s[i] = prev[p] <=> i - 1 = k
    <3>1. CASE k = n
      BY <1>1, <1>10, <1>11, <2>1, <3>1
    <3>2. CASE k # n
      <4>1. k + 1 \in 1 .. n
        BY <1>1, <3>2
      <4>2. s[i] = s[k + 1] <=> i = k + 1
        BY <1>4, <4>1
      <4> QED  BY <1>1, <1>10, <3>2, <4>2
    <3> QED  BY <3>1, <3>2
  <2> QED  BY <1>2, <1>9, <2>1, <2>2, <2>3
<1>12. \A i \in 1 .. Len(t) - 1 : t[i + 1] = prev'[t[i]] /\ next'[t[i + 1]] = t[i]
  <2> SUFFICES ASSUME NEW i \in 1 .. n - 2
               PROVE  t[i + 1] = prev'[t[i]] /\ next'[t[i + 1]] = t[i]
    BY <1>1, <1>6
  <2>1. i \in 1 .. n - 1 /\ i + 1 \in 1 .. n - 1
    BY <1>1
  <2>2. CASE i + 1 < k
    <3>1. /\ t[i] = s[i] /\ t[i + 1] = s[i + 1] /\ i \in 1 .. n /\ i + 1 \in 1 .. n
          /\ i # k /\ i + 1 # k
      BY <1>1, <1>6, <2>1, <2>2
    <3>2. (i + 1) - 1 # k
      BY <1>1, <2>2
    <3> QED  BY <1>3, <1>11, <2>1, <3>1, <3>2
  <2>3. CASE i + 1 = k
    <3>1. /\ t[i] = s[i] /\ t[i + 1] = s[k + 1] /\ i \in 1 .. n /\ k + 1 \in 1 .. n
          /\ i # k /\ k + 1 # k /\ k # n /\ k # 1 /\ (k + 1) - 1 = k /\ k - 1 = i
      BY <1>1, <1>6, <2>1, <2>3
    <3> QED  BY <1>10, <1>11, <2>3, <3>1
  <2>4. CASE i >= k
    <3>1. /\ t[i] = s[i + 1] /\ t[i + 1] = s[(i + 1) + 1]
          /\ i + 1 \in 1 .. n /\ (i + 1) + 1 \in 1 .. n /\ i + 1 # k /\ (i + 1) + 1 # k
          /\ ((i + 1) + 1) - 1 # k
      BY <1>1, <1>6, <2>1, <2>4
    <3> QED  BY <1>3, <1>11, <2>1, <3>1
  <2> QED  BY <1>1, <2>2, <2>3, <2>4
<1>13. ASSUME n # 1 PROVE /\ t[1] = last'[q] /\ first'[q] = t[Len(t)]
                          /\ prev'[t[Len(t)]] = NULL /\ next'[t[1]] = NULL
  <2>1. 1 \in 1 .. n - 1 /\ n - 1 \in 1 .. n - 1 /\ Len(t) = n - 1
    BY <1>1, <1>6, <1>13
  <2>2. t[1] = last'[q] /\ next'[t[1]] = NULL
    <3>1. CASE k = 1
      <4>1. t[1] = s[2] /\ 2 \in 1 .. n /\ 2 # k /\ 2 - 1 = k /\ k + 1 = 2 /\ k # n
        BY <1>1, <1>6, <1>13, <2>1, <3>1
      <4> QED  BY <1>8, <1>10, <1>11, <3>1, <4>1
    <3>2. CASE k # 1
      <4>1. t[1] = s[1] /\ 1 \in 1 .. n /\ 1 # k /\ 1 - 1 # k
        BY <1>1, <1>6, <2>1, <3>2
      <4> QED  BY <1>5, <1>8, <1>11, <3>2, <4>1
    <3> QED  BY <3>1, <3>2
  <2>3. t[n - 1] = first'[q] /\ prev'[t[n - 1]] = NULL
    <3>1. CASE k = n
      <4>1. /\ t[n - 1] = s[n - 1] /\ n - 1 \in 1 .. n /\ n - 1 # k
            /\ (n - 1) + 1 = k /\ k - 1 = n - 1 /\ k # 1
        BY <1>1, <1>6, <1>13, <2>1, <3>1
      <4> QED  BY <1>8, <1>10, <1>11, <3>1, <4>1
    <3>2. CASE k # n
      <4>1. t[n - 1] = s[n] /\ n \in 1 .. n /\ n # k /\ n + 1 # k
        <5>1. n - 1 >= k /\ (n - 1) + 1 = n
          BY <1>1, <3>2
        <5> QED  BY <1>1, <1>6, <2>1, <3>2, <5>1
      <4> QED  BY <1>5, <1>8, <1>11, <3>2, <4>1
    <3> QED  BY <3>1, <3>2
  <2> QED  BY <2>1, <2>2, <2>3
<1>14. n = 1 => first'[q] = NULL /\ last'[q] = NULL
  <2> SUFFICES ASSUME n = 1 PROVE first'[q] = NULL /\ last'[q] = NULL
    OBVIOUS
  <2>1. k = 1 /\ k = n
    BY <1>1
  <2> QED  BY <1>8, <1>10, <2>1
<1>15. \A i \in 1 .. Len(t) : list'[t[i]] = q
  BY <1>6, <1>11
<1>16. \A i, j \in 1 .. Len(t) : t[i] = t[j] => i = j
  <2> SUFFICES ASSUME NEW i \in 1 .. n - 1, NEW j \in 1 .. n - 1, t[i] = t[j] PROVE i = j
    BY <1>6
  <2>1. Old(i) = Old(j)
    BY <1>4, <1>6
  <2> QED  BY <1>1, <2>1
<1>17. ASSUME NEW x \in Pages, list'[x] = q PROVE \E i \in 1 .. Len(t) : t[i] = x
  <2>1. x # p /\ list[x] = q
    BY <1>9, <1>17, FifoAssumption
  <2>2. PICK i \in 1 .. n : s[i] = x
    BY <2>1 DEF Links, n
  <2>3. i # k
    BY <2>1, <2>2 DEF p
  <2>4. CASE i < k
    <3>1. i \in 1 .. n - 1 /\ Old(i) = i
      BY <1>1, <2>4
    <3> QED  BY <1>6, <2>2, <3>1
  <2>5. CASE i > k
    <3>1. i - 1 \in 1 .. n - 1 /\ Old(i - 1) = i
      BY <1>1, <2>5
    <3> QED  BY <1>6, <2>2, <3>1
  <2> QED  BY <1>1, <2>3, <2>4, <2>5
<1>18. Reads(q, t)'
  BY <1>6, <1>7, <1>8, <1>12, <1>13 DEF Reads
<1>19. Links(q, t)'
  BY <1>7, <1>12, <1>13, <1>14, <1>15, <1>16, <1>17, <1>18 DEF Links
<1> QED  BY <1>19 DEF t

-----------------------------------------------------------------------------
(* Every operation keeps the invariant, and is the operation of FifoQueues  *)
(* on the sequences that the links stand for.                               *)

\* Linking a page in keeps the types.
LEMMA EnqueueTypes ==
    ASSUME LinkTypes, NEW q \in Queues, NEW s, Links(q, s), NEW p \in Pages, list[p] = NULL,
           next' = [next EXCEPT ![p] = first[q]],
           prev' = [x \in Pages |-> IF x = first[q] THEN p ELSE prev[x]],
           last' = IF first[q] = NULL THEN [last EXCEPT ![q] = p] ELSE last,
           first' = [first EXCEPT ![q] = p],
           list' = [list EXCEPT ![p] = q],
           numentries' = [numentries EXCEPT ![q] = @ + 1]
    PROVE  LinkTypes'
<1>1. first[q] # NULL => list[first[q]] = q
  <2> SUFFICES ASSUME first[q] # NULL PROVE list[first[q]] = q
    OBVIOUS
  <2>1. s \in Seq(Pages) /\ s # <<>>
    BY DEF Links, Reads
  <2>2. Len(s) \in 1 .. Len(s)
    BY <2>1
  <2> QED  BY <2>1, <2>2 DEF Links
<1>2. /\ first' \in [Queues -> Pages \cup {NULL}] /\ last' \in [Queues -> Pages \cup {NULL}]
      /\ numentries' \in [Queues -> Nat] /\ next' \in [Pages -> Pages \cup {NULL}]
      /\ prev' \in [Pages -> Pages \cup {NULL}] /\ list' \in [Pages -> Queues \cup {NULL}]
  BY DEF LinkTypes
<1>3. ASSUME NEW x \in Pages, list'[x] = NULL PROVE prev'[x] = NULL
  <2>1. x # p /\ list[x] = NULL
    BY <1>3, FifoAssumption DEF LinkTypes
  <2>2. x # first[q]
    BY <1>1, <2>1, FifoAssumption
  <2> QED  BY <2>1, <2>2 DEF LinkTypes
<1> QED  BY <1>2, <1>3 DEF LinkTypes

\* Taking the oldest page keeps them.
LEMMA PopTypes ==
    ASSUME LinkTypes, NEW q \in Queues, last[q] # NULL, numentries[q] > 0, PopLast(q)
    PROVE  LinkTypes'
<1>1. last[q] \in Pages /\ prev[last[q]] \in Pages \cup {NULL}
  BY DEF LinkTypes
<1>2. /\ first' \in [Queues -> Pages \cup {NULL}] /\ last' \in [Queues -> Pages \cup {NULL}]
      /\ numentries' \in [Queues -> Nat] /\ next' \in [Pages -> Pages \cup {NULL}]
      /\ prev' \in [Pages -> Pages \cup {NULL}] /\ list' \in [Pages -> Queues \cup {NULL}]
  BY <1>1 DEF LinkTypes, PopLast
<1>3. \A x \in Pages : list'[x] = NULL => prev'[x] = NULL
  BY <1>1 DEF LinkTypes, PopLast
<1> QED  BY <1>2, <1>3 DEF LinkTypes

\* So does taking a page out.
LEMMA UnlinkTypes ==
    ASSUME LinkTypes, NEW q \in Queues, NEW s, Links(q, s), numentries[q] > 0,
           NEW k \in 1 .. Len(s), Unlink(q, s[k])
    PROVE  LinkTypes'
<1>1. s \in Seq(Pages) /\ s[k] \in Pages /\ Len(s) \in Nat
  BY DEF Links, Reads
<1>2. prev[s[k]] \in Pages \cup {NULL} /\ next[s[k]] \in Pages \cup {NULL}
  BY <1>1 DEF LinkTypes
<1>3. /\ first' \in [Queues -> Pages \cup {NULL}] /\ last' \in [Queues -> Pages \cup {NULL}]
      /\ numentries' \in [Queues -> Nat] /\ next' \in [Pages -> Pages \cup {NULL}]
      /\ prev' \in [Pages -> Pages \cup {NULL}] /\ list' \in [Pages -> Queues \cup {NULL}]
  BY <1>1, <1>2 DEF LinkTypes, Unlink
<1>4. next[s[k]] # NULL => list[next[s[k]]] = q
  <2>1. CASE k = 1
    BY <2>1 DEF Links
  <2>2. CASE k # 1
    <3>1. k - 1 \in 1 .. Len(s) - 1 /\ (k - 1) + 1 = k /\ k - 1 \in 1 .. Len(s)
      BY <1>1, <2>2
    <3>2. next[s[(k - 1) + 1]] = s[k - 1] /\ list[s[k - 1]] = q
      BY <3>1 DEF Links
    <3> QED  BY <3>1, <3>2
  <2> QED  BY <2>1, <2>2
<1>5. ASSUME NEW x \in Pages, list'[x] = NULL PROVE prev'[x] = NULL
  <2>1. CASE x = s[k]
    BY <2>1 DEF Unlink
  <2>2. CASE x # s[k]
    <3>1. list[x] = NULL
      BY <1>1, <1>5, <2>2 DEF Unlink, LinkTypes
    <3>2. x # next[s[k]]
      BY <1>4, <3>1, FifoAssumption
    <3> QED  BY <2>2, <3>1, <3>2 DEF Unlink, LinkTypes
  <2> QED  BY <2>1, <2>2
<1> QED  BY <1>3, <1>5 DEF LinkTypes

\* In the next state it is, as well.
LEMMA ChainNext == (\A q, s : Reads(q, s) => Chain(q) = s)'
<1>1. \A q, s : Reads(q, s) => Chain(q) = s
  BY ChainIs
<1> QED  BY <1>1, PTL

\* The sequence that the links of q stand for.
LEMMA LinksChain ==
    ASSUME NEW q, NEW s, Links(q, s)
    PROVE  Chain(q) = s /\ s \in Seq(Pages)
BY ChainIs DEF Links, Reads

\* And in the next state.
LEMMA LinksChainNext ==
    ASSUME NEW q, NEW s, Links(q, s)'
    PROVE  Chain(q)' = s
<1>1. Reads(q, s)'
  BY DEF Links
<1>2. (Reads(q, s) => Chain(q) = s)'
  BY ChainNext
<1> QED  BY <1>1, <1>2

\* A step that touches no page of another list gives q the sequence t, and leaves
\* the other lists as they are.
LEMMA OneList ==
    ASSUME FifoInv, NEW q \in Queues, NEW t, Links(q, t)', t \in Seq(Pages), LinkTypes',
           UNCHANGED failed,
           \A r \in Queues \ {q} :
             /\ first'[r] = first[r] /\ last'[r] = last[r] /\ numentries'[r] = numentries[r]
             /\ \A p \in Pages : list[p] = r => /\ list'[p] = r
                                                /\ prev'[p] = prev[p] /\ next'[p] = next[p]
             /\ \A p \in Pages : list'[p] = r => list[p] = r
    PROVE  /\ FifoInv'
           /\ Chain(q)' = t
           /\ \A r \in Queues \ {q} : Chain(r)' = Chain(r)
<1>1. ASSUME NEW r \in Queues \ {q}
      PROVE  /\ \E s \in Seq(Pages) : Links(r, s)'
             /\ Chain(r)' = Chain(r)
  <2>1. PICK s \in Seq(Pages) : Links(r, s)
    BY DEF FifoInv
  <2>2. Links(r, s)'
    BY <2>1, LinksKept
  <2> QED  BY <2>1, <2>2, LinksChain, LinksChainNext
<1>2. \A r \in Queues : \E s \in Seq(Pages) : Links(r, s)'
  BY <1>1
<1>3. FifoInv'
  BY <1>2 DEF FifoInv
<1> QED  BY <1>1, <1>3, LinksChainNext

\* The mapping changes at q only.
LEMMA OneQueue ==
    ASSUME NEW q \in Queues, NEW t, Chain(q)' = t,
           \A r \in Queues \ {q} : Chain(r)' = Chain(r)
    PROVE  [r \in Queues |-> Chain(r)]' = [[r \in Queues |-> Chain(r)] EXCEPT ![q] = t]
OBVIOUS

\* enqueue_fifo appends, and its asserts hold.
LEMMA EnqueueStep ==
    ASSUME FifoInv, NEW q \in Queues, NEW p \in Pages, enqueue_fifo(q, p)
    PROVE  FifoInv' /\ Abstract!Enqueue(q, p)
<1>1. PICK s \in Seq(Pages) : Links(q, s)
  BY DEF FifoInv
<1>2. LinkTypes /\ list[p] = NULL
  BY DEF FifoInv, enqueue_fifo
<1>3. first[q] # NULL => list[first[q]] = q /\ prev[first[q]] = NULL /\ first[q] \in Pages
  <2> SUFFICES ASSUME first[q] # NULL
               PROVE  list[first[q]] = q /\ prev[first[q]] = NULL /\ first[q] \in Pages
    OBVIOUS
  <2>1. s # <<>>
    BY <1>1 DEF Links
  <2>2. Len(s) \in 1 .. Len(s)
    BY <1>1, <2>1
  <2> QED  BY <1>1, <1>2, <2>1, <2>2 DEF Links, LinkTypes
<1>4. EnqueueAsserts(q, p)
  <2>1. first[q] = NULL => s = <<>>
    <3> SUFFICES ASSUME s # <<>> PROVE first[q] # NULL
      OBVIOUS
    <3>1. Len(s) \in 1 .. Len(s) /\ s[Len(s)] \in Pages
      BY <1>1
    <3> QED  BY <1>1, <3>1, FifoAssumption DEF Links
  <2>2. s = <<>> => last[q] = NULL /\ numentries[q] = 0
    BY <1>1 DEF Links, Reads
  <2> QED  BY <1>2, <1>3, <2>1, <2>2 DEF EnqueueAsserts, LinkTypes
<1>5. /\ next' = [next EXCEPT ![p] = first[q]]
      /\ prev' = [x \in Pages |-> IF x = first[q] THEN p ELSE prev[x]]
      /\ last' = IF first[q] = NULL THEN [last EXCEPT ![q] = p] ELSE last
      /\ first' = [first EXCEPT ![q] = p]
      /\ list' = [list EXCEPT ![p] = q]
      /\ numentries' = [numentries EXCEPT ![q] = @ + 1]
      /\ ret' = NULL /\ UNCHANGED failed
  BY <1>4 DEF enqueue_fifo
<1>6. Links(q, Append(s, p))' /\ LinkTypes'
  BY <1>1, <1>2, <1>5, Enqueued, EnqueueTypes
<1>7. ASSUME NEW r \in Queues \ {q}
      PROVE  /\ first'[r] = first[r] /\ last'[r] = last[r] /\ numentries'[r] = numentries[r]
             /\ \A x \in Pages : list[x] = r => /\ list'[x] = r
                                                /\ prev'[x] = prev[x] /\ next'[x] = next[x]
             /\ \A x \in Pages : list'[x] = r => list[x] = r
  <2>1. first'[r] = first[r] /\ last'[r] = last[r] /\ numentries'[r] = numentries[r]
    BY <1>2, <1>5 DEF LinkTypes
  <2>2. ASSUME NEW x \in Pages, list[x] = r
        PROVE  list'[x] = r /\ prev'[x] = prev[x] /\ next'[x] = next[x]
    <3>1. x # p /\ x # first[q]
      BY <1>2, <1>3, <2>2, FifoAssumption
    <3> QED  BY <1>2, <1>5, <2>2, <3>1 DEF LinkTypes
  <2>3. ASSUME NEW x \in Pages, list'[x] = r PROVE list[x] = r
    BY <1>2, <1>5, <2>3 DEF LinkTypes
  <2> QED  BY <2>1, <2>2, <2>3
<1>8. /\ FifoInv' /\ Chain(q)' = Append(s, p)
      /\ \A r \in Queues \ {q} : Chain(r)' = Chain(r)
  <2>1. PICK t : t = Append(s, p)
    OBVIOUS
  <2>2. t \in Seq(Pages) /\ Links(q, t)'
    BY <1>1, <1>6, <2>1
  <2>3. /\ FifoInv' /\ Chain(q)' = t
        /\ \A r \in Queues \ {q} : Chain(r)' = Chain(r)
    BY <1>5, <1>6, <1>7, <2>2, OneList
  <2> QED  BY <2>1, <2>3
<1>9. Chain(q) = s
  BY <1>1, LinksChain
<1>10. \A r \in Queues : ~\E i \in DOMAIN Chain(r) : Chain(r)[i] = p
  <2> SUFFICES ASSUME NEW r \in Queues, NEW i \in DOMAIN Chain(r), Chain(r)[i] = p PROVE FALSE
    OBVIOUS
  <2>1. PICK c \in Seq(Pages) : Links(r, c)
    BY DEF FifoInv
  <2>2. Chain(r) = c /\ DOMAIN c = 1 .. Len(c)
    BY <2>1, LinksChain
  <2>3. list[c[i]] = r
    BY <2>1, <2>2 DEF Links
  <2> QED  BY <1>2, <2>2, <2>3, FifoAssumption
<1>11. [r \in Queues |-> Chain(r)]'
         = [[r \in Queues |-> Chain(r)] EXCEPT ![q] = Append(Chain(q), p)]
  BY <1>8, <1>9, OneQueue
<1> QED  BY <1>5, <1>8, <1>10, <1>11 DEF Abstract!Enqueue, Abstract!On

\* A list that has a last page has entries, so that no dequeue fails.
LEMMA NotEmpty ==
    ASSUME FifoInv, NEW q \in Queues, last[q] # NULL \/ \E p \in Pages : list[p] = q
    PROVE  numentries[q] > 0
<1>1. PICK s \in Seq(Pages) : Links(q, s)
  BY DEF FifoInv
<1>2. s # <<>>
  BY <1>1 DEF Links
<1>3. Len(s) > 0
  BY <1>1, <1>2
<1> QED  BY <1>1, <1>3 DEF Links, Reads

\* A dequeue takes the page that has been on the list for longest.
LEMMA PopStep ==
    ASSUME FifoInv, NEW q \in Queues, last[q] # NULL, PopLast(q), UNCHANGED failed
    PROVE  FifoInv' /\ Abstract!Dequeue(q)
<1>1. PICK s \in Seq(Pages) : Links(q, s)
  BY DEF FifoInv
<1>2. LinkTypes /\ numentries[q] > 0
  BY NotEmpty DEF FifoInv
<1>3. s # <<>> /\ s[1] = last[q] /\ Links(q, Tail(s))' /\ LinkTypes'
  BY <1>1, <1>2, Popped, PopTypes
<1>4. PICK p, l : p = last[q] /\ l = prev[p]
  OBVIOUS
<1>5. p \in Pages /\ list[p] = q /\ (l # NULL => l \in Pages /\ list[l] = q)
  <2>1. 1 \in 1 .. Len(s)
    BY <1>1, <1>3
  <2>2. p \in Pages /\ list[p] = q
    BY <1>1, <1>3, <1>4, <2>1 DEF Links
  <2>3. CASE Len(s) = 1
    BY <1>1, <1>3, <1>4, <2>2, <2>3 DEF Links
  <2>4. CASE Len(s) # 1
    <3>1. 1 \in 1 .. Len(s) - 1 /\ 1 + 1 \in 1 .. Len(s)
      <4>1. PICK n : n = Len(s) /\ n \in Nat
        BY <1>1
      <4>2. 1 \in 1 .. n - 1 /\ 1 + 1 \in 1 .. n
        BY <2>1, <2>4, <4>1
      <4> QED  BY <4>1, <4>2
    <3>2. s[1 + 1] = prev[s[1]] /\ list[s[1 + 1]] = q /\ s[1 + 1] \in Pages
      BY <1>1, <3>1 DEF Links, Reads
    <3> QED  BY <1>3, <1>4, <2>2, <3>2
  <2> QED  BY <2>3, <2>4
<1>6. /\ last' = [last EXCEPT ![q] = l]
      /\ first' = IF l = NULL THEN [first EXCEPT ![q] = NULL] ELSE first
      /\ next' = [x \in Pages |-> IF x \in {l, p} THEN NULL ELSE next[x]]
      /\ prev' = [prev EXCEPT ![p] = NULL]
      /\ list' = [list EXCEPT ![p] = NULL]
      /\ numentries' = [numentries EXCEPT ![q] = @ - 1]
      /\ ret' = p
  BY <1>4 DEF PopLast
<1>7. ASSUME NEW r \in Queues \ {q}
      PROVE  /\ first'[r] = first[r] /\ last'[r] = last[r] /\ numentries'[r] = numentries[r]
             /\ \A x \in Pages : list[x] = r => /\ list'[x] = r
                                                /\ prev'[x] = prev[x] /\ next'[x] = next[x]
             /\ \A x \in Pages : list'[x] = r => list[x] = r
  <2>1. first'[r] = first[r] /\ last'[r] = last[r] /\ numentries'[r] = numentries[r]
    BY <1>2, <1>6 DEF LinkTypes
  <2>2. ASSUME NEW x \in Pages, list[x] = r
        PROVE  list'[x] = r /\ prev'[x] = prev[x] /\ next'[x] = next[x]
    <3>1. x # p /\ x # l
      BY <1>5, <2>2, FifoAssumption
    <3> QED  BY <1>2, <1>6, <2>2, <3>1 DEF LinkTypes
  <2>3. ASSUME NEW x \in Pages, list'[x] = r PROVE list[x] = r
    BY <1>2, <1>6, <2>3, FifoAssumption DEF LinkTypes
  <2> QED  BY <2>1, <2>2, <2>3
<1>8. /\ FifoInv' /\ Chain(q)' = Tail(s)
      /\ \A r \in Queues \ {q} : Chain(r)' = Chain(r)
  <2>1. PICK t : t = Tail(s)
    OBVIOUS
  <2>2. t \in Seq(Pages) /\ Links(q, t)'
    BY <1>1, <1>3, <2>1
  <2>3. /\ FifoInv' /\ Chain(q)' = t
        /\ \A r \in Queues \ {q} : Chain(r)' = Chain(r)
    BY <1>3, <1>7, <2>2, OneList
  <2> QED  BY <2>1, <2>3
<1>9. Chain(q) = s
  BY <1>1, LinksChain
<1>10. [r \in Queues |-> Chain(r)]'
         = [[r \in Queues |-> Chain(r)] EXCEPT ![q] = Tail(Chain(q))]
  BY <1>8, <1>9, OneQueue
<1>11. ret' = Head(s)
  BY <1>1, <1>3, <1>4, <1>6
<1> QED  BY <1>3, <1>8, <1>9, <1>10, <1>11 DEF Abstract!Dequeue

\* page_list_remove_page and page_list_tryremove_page take that page out.
LEMMA RemoveStep ==
    ASSUME FifoInv, NEW q \in Queues, NEW p \in Pages, list[p] = q, Unlink(q, p),
           UNCHANGED failed
    PROVE  FifoInv' /\ Abstract!Remove(q, p)
<1>1. PICK s \in Seq(Pages) : Links(q, s)
  BY DEF FifoInv
<1>2. LinkTypes /\ numentries[q] > 0
  BY NotEmpty DEF FifoInv
<1>3. PICK k \in 1 .. Len(s) : s[k] = p
  BY <1>1 DEF Links
<1>4. PICK t : t = [j \in 1 .. Len(s) - 1 |-> IF j < k THEN s[j] ELSE s[j + 1]]
  OBVIOUS
<1>5. Links(q, t)' /\ LinkTypes'
  BY <1>1, <1>2, <1>3, <1>4, Unlinked, UnlinkTypes
<1>6. t \in Seq(Pages)
  BY <1>5 DEF Links, Reads
<1>7. /\ prev[p] # NULL => prev[p] \in Pages /\ list[prev[p]] = q
      /\ next[p] # NULL => next[p] \in Pages /\ list[next[p]] = q
  <2>1. Len(s) \in Nat
    BY <1>1
  <2>2. prev[p] # NULL => list[prev[p]] = q
    <3>1. CASE k = Len(s)
      BY <1>1, <1>3, <3>1 DEF Links
    <3>2. CASE k # Len(s)
      <4>1. k \in 1 .. Len(s) - 1 /\ k + 1 \in 1 .. Len(s)
        BY <2>1, <3>2
      <4> QED  BY <1>1, <1>3, <4>1 DEF Links, Reads
    <3> QED  BY <3>1, <3>2
  <2>3. next[p] # NULL => list[next[p]] = q
    <3>1. CASE k = 1
      BY <1>1, <1>3, <3>1 DEF Links
    <3>2. CASE k # 1
      <4>1. k - 1 \in 1 .. Len(s) - 1 /\ k - 1 \in 1 .. Len(s) /\ (k - 1) + 1 = k
        BY <2>1, <3>2
      <4>2. next[s[(k - 1) + 1]] = s[k - 1] /\ list[s[k - 1]] = q
        BY <1>1, <4>1 DEF Links
      <4> QED  BY <1>3, <4>1, <4>2
    <3> QED  BY <3>1, <3>2
  <2> QED  BY <1>2, <2>2, <2>3 DEF LinkTypes
<1>8. ASSUME NEW r \in Queues \ {q}
      PROVE  /\ first'[r] = first[r] /\ last'[r] = last[r] /\ numentries'[r] = numentries[r]
             /\ \A x \in Pages : list[x] = r => /\ list'[x] = r
                                                /\ prev'[x] = prev[x] /\ next'[x] = next[x]
             /\ \A x \in Pages : list'[x] = r => list[x] = r
  <2>1. first'[r] = first[r] /\ last'[r] = last[r] /\ numentries'[r] = numentries[r]
    BY <1>2 DEF LinkTypes, Unlink
  <2>2. ASSUME NEW x \in Pages, list[x] = r
        PROVE  list'[x] = r /\ prev'[x] = prev[x] /\ next'[x] = next[x]
    <3>1. x # p /\ x # prev[p] /\ x # next[p]
      BY <1>7, <2>2, FifoAssumption
    <3> QED  BY <1>2, <2>2, <3>1 DEF LinkTypes, Unlink
  <2>3. ASSUME NEW x \in Pages, list'[x] = r PROVE list[x] = r
    BY <1>2, <2>3, FifoAssumption DEF LinkTypes, Unlink
  <2> QED  BY <2>1, <2>2, <2>3
<1>9. /\ FifoInv' /\ Chain(q)' = t
      /\ \A r \in Queues \ {q} : Chain(r)' = Chain(r)
  BY <1>5, <1>6, <1>8, OneList
<1>10. Chain(q) = s
  BY <1>1, LinksChain
<1>11. [r \in Queues |-> Chain(r)]' = [[r \in Queues |-> Chain(r)] EXCEPT ![q] = t]
  BY <1>9, OneQueue
<1>12. k \in DOMAIN s /\ ret' = NULL
  BY <1>1 DEF Unlink
<1>13. PICK Q, Q1 : Q = [r \in Queues |-> Chain(r)] /\ Q1 = [r \in Queues |-> Chain(r)]'
  OBVIOUS
<1>14. Q[q] = s /\ Q1 = [Q EXCEPT ![q] = t]
  BY <1>10, <1>11, <1>13
<1>15. Q1 = [Q EXCEPT ![q] = [j \in 1 .. Len(Q[q]) - 1 |->
                                IF j < k THEN Q[q][j] ELSE Q[q][j + 1]]]
  BY <1>4, <1>14
<1>16. k \in DOMAIN Q[q] /\ Q[q][k] = p
  BY <1>3, <1>12, <1>14
<1>17. Abstract!Remove(q, p)
  BY <1>12, <1>13, <1>15, <1>16 DEF Abstract!Remove
<1> QED  BY <1>9, <1>17

-----------------------------------------------------------------------------
(* The theorems.                                                            *)

\* The lists are empty at first.
LEMMA InitFifo == Init => FifoInv /\ Abstract!Init
<1> SUFFICES ASSUME Init PROVE FifoInv /\ Abstract!Init
  OBVIOUS
<1>1. ASSUME NEW q \in Queues PROVE Links(q, <<>>)
  <2>1. <<>> \in Seq(Pages) /\ Len(<<>>) = 0 /\ 1 .. 0 = {}
    OBVIOUS
  <2>2. numentries[q] = 0 /\ first[q] = NULL /\ last[q] = NULL
    BY DEF Init
  <2>3. \A p \in Pages : list[p] # q
    BY FifoAssumption DEF Init
  <2> QED  BY <2>1, <2>2, <2>3 DEF Links, Reads
<1>2. LinkTypes
  BY DEF Init, LinkTypes
<1>3. \A q \in Queues : Chain(q) = <<>>
  BY <1>1, LinksChain
<1>4. FifoInv
  <2>1. <<>> \in Seq(Pages) /\ ~failed
    BY DEF Init
  <2> QED  BY <1>1, <1>2, <2>1 DEF FifoInv
<1>5. Abstract!Init
  BY <1>3 DEF Abstract!Init, Init
<1> QED  BY <1>4, <1>5

\* Every step of fifo.c keeps the links and is a step of the queues or none.
LEMMA NextFifo ==
    FifoInv /\ [Next]_vars
      => FifoInv' /\ [Abstract!Next]_<<[q \in Queues |-> Chain(q)], ret>>
<1> SUFFICES ASSUME FifoInv, [Next]_vars
             PROVE  FifoInv' /\ [Abstract!Next]_<<[q \in Queues |-> Chain(q)], ret>>
  OBVIOUS
<1>1. CASE UNCHANGED <<links, ret, failed>>
  <2>1. UNCHANGED <<first, last, numentries, next, prev, list, ret, failed>>
    BY <1>1 DEF links
  <2>2. FifoInv'
    BY <2>1 DEF FifoInv, LinkTypes, Links, Reads
  <2>3. \A q \in Queues : Chain(q)' = Chain(q)
    BY <2>1 DEF Chain
  <2> QED  BY <2>1, <2>2, <2>3
<1>2. ASSUME NEW q \in Queues, dequeue_fifo(q) \/ VectorTake(q)
      PROVE  FifoInv' /\ Abstract!Dequeue(q)
  <2>1. last[q] # NULL
    BY <1>2 DEF dequeue_fifo, VectorTake
  <2>2. numentries[q] > 0
    BY <2>1, NotEmpty
  <2>3. PopLast(q) /\ UNCHANGED failed
    BY <1>2, <2>2 DEF dequeue_fifo, VectorTake
  <2> QED  BY <2>1, <2>3, PopStep
<1>3. ASSUME NEW q \in Queues, NEW p \in Pages,
             page_list_tryremove_page(q, p) \/ page_list_remove_page(q, p)
      PROVE  FifoInv' /\ Abstract!Remove(q, p)
  <2>1. list[p] = q
    BY <1>3 DEF page_list_tryremove_page, page_list_remove_page
  <2>2. numentries[q] > 0
    BY <2>1, NotEmpty
  <2>3. Unlink(q, p) /\ UNCHANGED failed
    BY <1>3, <2>2 DEF page_list_tryremove_page, page_list_remove_page
  <2> QED  BY <2>1, <2>3, RemoveStep
<1>4. CASE \E q \in Queues : VectorLock(q) \/ VectorUnlock(q)
  <2>1. UNCHANGED <<links, ret, failed>>
    BY <1>4 DEF VectorLock, VectorUnlock
  <2> QED  BY <1>1, <2>1
<1>5. CASE UNCHANGED vars
  <2>1. UNCHANGED <<links, ret, failed>>
    BY <1>5 DEF vars, links
  <2> QED  BY <1>1, <2>1
<1>6. \/ UNCHANGED vars
      \/ \E q \in Queues : VectorLock(q) \/ VectorUnlock(q)
      \/ \E q \in Queues : dequeue_fifo(q) \/ VectorTake(q)
      \/ \E q \in Queues, p \in Pages : \/ enqueue_fifo(q, p) \/ page_list_remove_page(q, p)
                                        \/ page_list_tryremove_page(q, p)
  BY DEF Next
<1>7. ASSUME NEW q \in Queues, NEW p \in Pages, enqueue_fifo(q, p)
      PROVE  FifoInv' /\ Abstract!Enqueue(q, p)
  BY <1>7, EnqueueStep
<1> QED  BY <1>2, <1>3, <1>4, <1>5, <1>6, <1>7 DEF Abstract!Next

\* The links of every list are those of one sequence of pages, whose length is
\* numentries, and no assertion of fifo.c fails: after any number of enqueues,
\* dequeues, vector dequeues and removals from the middle.
THEOREM WellLinkedHolds == Spec => []WellLinked
<1>1. FifoInv => WellLinked
  <2> SUFFICES ASSUME FifoInv PROVE WellLinked
    OBVIOUS
  <2>1. ASSUME NEW q \in Queues
        PROVE  LET c == Chain(q)
                   n == numentries[q]
               IN  /\ IF n = 0 THEN first[q] = NULL /\ last[q] = NULL
                      ELSE /\ \A i \in 1 .. n : c[i] \in Pages
                           /\ c[n] = first[q] /\ prev[c[n]] = NULL /\ next[c[1]] = NULL
                           /\ \A i \in 1 .. n - 1 : next[c[i + 1]] = c[i]
                   /\ {c[i] : i \in 1 .. n} = {p \in Pages : list[p] = q}
    <3>1. PICK s \in Seq(Pages) : Links(q, s)
      BY DEF FifoInv
    <3>2. Chain(q) = s /\ numentries[q] = Len(s)
      <4>1. numentries[q] = Len(s)
        BY <3>1 DEF Links, Reads
      <4> QED  BY <3>1, <4>1, LinksChain
    <3>3. \A i \in 1 .. Len(s) : s[i] \in Pages
      BY <3>1
    <3>4. {s[i] : i \in 1 .. Len(s)} = {p \in Pages : list[p] = q}
      BY <3>1, <3>3 DEF Links
    <3>5. IF Len(s) = 0 THEN first[q] = NULL /\ last[q] = NULL
          ELSE /\ s[Len(s)] = first[q] /\ prev[s[Len(s)]] = NULL /\ next[s[1]] = NULL
               /\ \A i \in 1 .. Len(s) - 1 : next[s[i + 1]] = s[i]
      <4>1. s = <<>> <=> Len(s) = 0
        BY <3>1
      <4> QED  BY <3>1, <4>1 DEF Links
    <3> QED  BY <3>2, <3>3, <3>4, <3>5
  <2> QED  BY <2>1 DEF WellLinked, FifoInv
<1> QED  BY <1>1, InitFifo, NextFifo, PTL DEF Spec

\* fifo.c implements FifoQueues: whoever reads a list from last along prev sees a
\* queue, in which enqueue_fifo appends, the dequeues take the oldest page and
\* removal keeps the order of the others.
THEOREM FifoImplementsQueues == Spec => RefinesQueues
<1>1. Spec => Abstract!Spec
  BY InitFifo, NextFifo, PTL DEF Spec, Abstract!Spec
<1> QED  BY <1>1 DEF RefinesQueues

=============================================================================
