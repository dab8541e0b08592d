------------------------ MODULE EventStream_proofs ------------------------
(***************************************************************************)
(* Theorems about EventStream.  The first part is about the publisher and  *)
(* the writers: the audit files hold the seqs the rows were published      *)
(* with.  The second, from Watched on, is about the readers: what a        *)
(* history returns, and what a reader has been sent.                       *)
(***************************************************************************)
EXTENDS EventStream, FiniteSetTheorems, TLAPS

(* The writers keep the pace of the ring and are not overlapped by a       *)
(* rewrite of their file (see Windows).                                    *)
Paced == "slow_mirror" \notin Rush /\ "overlap" \notin Rush

Kinds == {"row", "final", "prompted", "waiting_user", "accepted", "succeeded", "failed"}

Row == [kind : Kinds, att : Attempts, seq : Nat]
Filed == [id : Nat, seq : Nat]

TypeOK ==
  /\ run \in [pc : {"turn", "asked", "waiting", "accepting", "queued", "ending", "over"},
              att : Attempts, left : Nat]
  /\ run.pc \in {"asked", "waiting", "accepting", "queued"} => run.att < MaxAttempt
  /\ rows \in Seq(Row)
  /\ memory \in [next : Nat, held : SUBSET Kinds, base : Nat]
  /\ pending \in [Attempts -> Seq(Nat)]
  /\ file \in [Attempts -> Seq(Filed)]

(* No row of a lower attempt than this is published any more. *)
Upcoming == IF run.pc \in {"waiting", "accepting", "queued"} THEN run.att + 1 ELSE run.att

FilesSorted ==
  /\ \A a \in Attempts : \A i, j \in DOMAIN file[a] : i < j => file[a][i].seq < file[a][j].seq
  /\ \A a, b \in Attempts : a < b =>
       \A i \in DOMAIN file[a], j \in DOMAIN file[b] : file[a][i].seq < file[b][j].seq

(* n rows are on file.  The first m rows published are either on file or   *)
(* lost, the others wait in the order of their seqs.                       *)
Mirror(n, m) ==
  /\ m <= Len(rows)
  /\ FileSeqs = 1 .. n
  /\ \A a \in Attempts : \A i \in DOMAIN file[a] : file[a][i].id \in 1 .. m
  /\ IF memory.next = 0 THEN m = Len(rows) ELSE memory.next + m = n + Len(rows) + 1
  /\ \A a \in Attempts : file[a] # <<>> =>
       /\ a <= Upcoming
       /\ \A i \in m+1 .. Len(rows) : a <= rows[i].att

Backlog(n, m) ==
  /\ \A i \in m+1 .. Len(rows) :
       /\ rows[i].seq + m = n + i
       /\ rows[i].att <= Upcoming
       /\ \E k \in DOMAIN pending[rows[i].att] : pending[rows[i].att][k] = i
  /\ \A i, j \in m+1 .. Len(rows) : i < j => rows[i].att <= rows[j].att
  /\ \A a \in Attempts : \A k \in DOMAIN pending[a] :
       /\ pending[a][k] \in m+1 .. Len(rows)
       /\ rows[pending[a][k]].att = a
       /\ pending[a][k] = pending[a][1] + k - 1

IInv ==
  /\ TypeOK
  /\ FilesSorted
  /\ MirrorKeepsSeq
  /\ \E n, m \in Nat : Mirror(n, m) /\ Backlog(n, m)

-----------------------------------------------------------------------------
(* Operators of the model *)

LEMMA KindsFinite == \A S \in SUBSET Kinds : IsFiniteSet(S)
<1>1. IsFiniteSet({})
  BY FS_EmptySet
<1>2. \A S, x : IsFiniteSet(S) => IsFiniteSet(S \cup {x})
  BY FS_AddElement
<1>3. Kinds = {} \cup {"row"} \cup {"final"} \cup {"prompted"} \cup {"waiting_user"}
                 \cup {"accepted"} \cup {"succeeded"} \cup {"failed"}
  BY DEF Kinds
<1>4. IsFiniteSet({} \cup {"row"} \cup {"final"})
  BY <1>1, <1>2
<1>5. IsFiniteSet({} \cup {"row"} \cup {"final"} \cup {"prompted"} \cup {"waiting_user"})
  BY <1>4, <1>2
<1>6. IsFiniteSet(Kinds)
  BY <1>5, <1>2, <1>3
<1> QED BY <1>6, FS_Subset

(* A set made a sequence is a sequence of its members. *)
LEMMA SetToSeqIsSeq ==
  ASSUME NEW S, IsFiniteSet(S)
  PROVE  SetToSeq(S) \in Seq(S)
<1>1. PICK f : f \in Bijection(1 .. Cardinality(S), S)
  BY FS_CardinalityType DEF ExistsBijection
<1>2. f \in [1 .. Cardinality(S) -> S] /\ IsInjective(f)
  BY <1>1 DEF Bijection, Injection
<1>3. SetToSeq(S) \in [1 .. Cardinality(S) -> S]
  BY <1>2 DEF SetToSeq
<1>4. Cardinality(S) \in Nat
  BY FS_CardinalityType
<1> QED BY <1>3, <1>4

LEMMA PassedIsSeq ==
  ASSUME TypeOK, NEW kinds \in Seq(Kinds)
  PROVE  Passed(kinds) \in Seq(Kinds)
<1>1. Front(kinds) \in Seq(Kinds)
  BY DEF Front
<1> DEFINE out == IF Prerequisite(Last(kinds)) \subseteq KindsPublished \cup ToSet(Front(kinds))
                  THEN kinds ELSE Front(kinds)
           all == KindsPublished \cup ToSet(out)
           S == {k \in memory.held : Prerequisite(k) \subseteq all}
<1>2. out \in Seq(Kinds)
  BY <1>1
<1>3. S \subseteq Kinds
  BY DEF TypeOK
<1>4. SetToSeq(S) \in Seq(S)
  BY <1>3, KindsFinite, SetToSeqIsSeq
<1> HIDE DEF S, out
<1>5. SetToSeq(S) \in Seq(Kinds)
  BY <1>3, <1>4
<1>6. out \o SetToSeq(S) \in Seq(Kinds)
  BY <1>2, <1>5
<1> QED BY <1>6 DEF Passed, S, out

LEMMA Concatenated ==
  ASSUME NEW S, NEW s \in Seq(S), NEW t \in Seq(S)
  PROVE  /\ s \o t \in Seq(S)
         /\ Len(s \o t) = Len(s) + Len(t)
         /\ \A k \in 1 .. Len(s) : (s \o t)[k] = s[k]
         /\ \A k \in Len(s)+1 .. Len(s)+Len(t) : (s \o t)[k] = t[k - Len(s)]
  OBVIOUS

LEMMA UpToN ==
  ASSUME NEW n \in Nat
  PROVE  IsFiniteSet(1 .. n) /\ Cardinality(1 .. n) = n
<1>1. Cardinality(1 .. n) = IF 1 > n THEN 0 ELSE n - 1 + 1
  BY FS_Interval
<1>2. IsFiniteSet(1 .. n)
  BY FS_Interval
<1> QED BY <1>1, <1>2

LEMMA MaxOfInterval ==
  ASSUME NEW n \in Nat
  PROVE  Max({0} \cup 1 .. n) = n
<1>1. n \in {0} \cup 1 .. n /\ \A y \in {0} \cup 1 .. n : n >= y
  OBVIOUS
<1>2. \A x \in {0} \cup 1 .. n : (\A y \in {0} \cup 1 .. n : x >= y) => x = n
  OBVIOUS
<1> QED BY <1>1, <1>2 DEF Max

(* Files whose seqs are 1, 2, ... in the order of their rows are written   *)
(* back as they were.                                                      *)
LEMMA ReindexedIsSame ==
  ASSUME TypeOK, FilesSorted, NEW n \in Nat, FileSeqs = 1 .. n
  PROVE  Reindexed(file) = file
<1>1. \A a \in Attempts : \A i \in DOMAIN file[a] : file[a][i].seq \in 1 .. n
  BY DEF FileSeqs
<1>2. ASSUME NEW a \in Attempts, NEW i \in DOMAIN file[a]
      PROVE  Cardinality(UpTo(file, a, i)) = file[a][i].seq
  <2> DEFINE s == file[a][i].seq
             U == UpTo(file, a, i)
             g == [p \in U |-> file[p[1]][p[2]].seq]
  <2>0. s \in Nat /\ s \in 1 .. n
    BY <1>1, <1>2
  <2>1. \A p \in U : /\ p[1] \in Attempts /\ p[2] \in DOMAIN file[p[1]]
                     /\ p = <<p[1], p[2]>>
                     /\ p[1] < a \/ (p[1] = a /\ p[2] <= i)
    BY DEF UpTo, Places
  <2>2. \A b \in Attempts : DOMAIN file[b] \subseteq Nat
    BY DEF TypeOK
  <2>3. ASSUME NEW p \in U PROVE g[p] \in 1 .. s
    <3>1. CASE p[1] < a
      BY <3>1, <2>1, <2>0, <1>1, <1>2 DEF FilesSorted
    <3>2. CASE p[1] = a /\ p[2] < i
      BY <3>2, <2>1, <2>0, <1>1, <1>2 DEF FilesSorted
    <3>3. CASE p[1] = a /\ p[2] = i
      BY <3>3, <2>1, <2>0, <1>1, <1>2
    <3>4. p[2] \in Nat /\ i \in Nat
      BY <2>1, <2>2, <1>2
    <3> QED BY <3>1, <3>2, <3>3, <3>4, <2>1
  <2>4. ASSUME NEW p \in U, NEW q \in U, g[p] = g[q] PROVE p = q
    <3>1. g[p] = file[p[1]][p[2]].seq /\ g[q] = file[q[1]][q[2]].seq
      OBVIOUS
    <3>2. p[1] = q[1]
      <4>1. p[1] \in Nat /\ q[1] \in Nat /\ g[p] \in Nat
        BY <2>1, <2>3, <2>0 DEF Attempts
      <4>2. ~(p[1] < q[1])
        BY <3>1, <2>1, <2>4, <4>1 DEF FilesSorted
      <4>3. ~(q[1] < p[1])
        BY <3>1, <2>1, <2>4, <4>1 DEF FilesSorted
      <4> QED BY <4>1, <4>2, <4>3
    <3>3. p[2] = q[2]
      <4>1. p[2] \in Nat /\ q[2] \in Nat /\ g[p] \in Nat
        BY <2>1, <2>2, <2>3, <2>0
      <4>2. ~(p[2] < q[2])
        BY <3>1, <3>2, <2>1, <2>4, <4>1 DEF FilesSorted
      <4>3. ~(q[2] < p[2])
        BY <3>1, <3>2, <2>1, <2>4, <4>1 DEF FilesSorted
      <4> QED BY <4>1, <4>2, <4>3
    <3> QED BY <3>2, <3>3, <2>1
  <2>5. ASSUME NEW t \in 1 .. s PROVE \E p \in U : g[p] = t
    <3>1. t \in FileSeqs
      BY <2>0
    <3>2a. PICK b \in Attempts : \E j \in DOMAIN file[b] : file[b][j].seq = t
      BY <3>1 DEF FileSeqs
    <3>2. PICK j \in DOMAIN file[b] : file[b][j].seq = t
      BY <3>2a
    <3>3. <<b, j>> \in Places(file)
      BY DEF Places
    <3>4. b \in Nat /\ a \in Nat /\ i \in Nat /\ j \in Nat /\ t \in Nat
      BY <2>2, <1>2, <2>0 DEF Attempts
    <3>5. ~(a < b)
      BY <3>2, <1>2, <2>0, <3>4 DEF FilesSorted
    <3>6. b = a => ~(i < j)
      BY <3>2, <1>2, <2>0, <3>4 DEF FilesSorted
    <3>7. <<b, j>> \in U
      BY <3>3, <3>4, <3>5, <3>6 DEF UpTo
    <3> QED BY <3>2, <3>7
  <2> HIDE DEF U
  <2>6. g \in [U -> 1 .. s]
    BY <2>3
  <2> HIDE DEF g
  <2>7. g \in Bijection(U, 1 .. s)
    BY <2>6, <2>4, <2>5 DEF Bijection, Injection, Surjection, IsInjective
  <2>8. IsFiniteSet(1 .. s) /\ Cardinality(1 .. s) = s
    BY <2>0, UpToN
  <2>9. g \in Injection(U, 1 .. s) /\ g \in Surjection(U, 1 .. s)
    BY <2>7 DEF Bijection
  <2>10. IsFiniteSet(U) /\ Cardinality(U) = Cardinality(1 .. s)
    BY <2>8, <2>9, FS_Injection, FS_CardinalityType
  <2> QED BY <2>10, <2>8 DEF U
<1>3. ASSUME NEW a \in Attempts
      PROVE  [i \in DOMAIN file[a] |->
                [file[a][i] EXCEPT !.seq = Cardinality(UpTo(file, a, i))]] = file[a]
  <2>1. \A i \in DOMAIN file[a] : file[a][i] \in Filed
    BY DEF TypeOK
  <2>2. \A i \in DOMAIN file[a] :
          [file[a][i] EXCEPT !.seq = Cardinality(UpTo(file, a, i))] = file[a][i]
    BY <1>2, <2>1 DEF Filed
  <2>3. file[a] = [i \in DOMAIN file[a] |-> file[a][i]]
    BY DEF TypeOK
  <2> QED BY <2>2, <2>3
<1>4. file = [a \in Attempts |-> file[a]]
  BY DEF TypeOK
<1> QED BY <1>3, <1>4 DEF Reindexed

-----------------------------------------------------------------------------
(* The invariant is kept *)

LEMMA InitIInv == Init => IInv
<1> SUFFICES ASSUME Init PROVE IInv
  OBVIOUS
<1>1. 1 \in Attempts
  BY BoundsAssumption DEF Attempts
<1>2. TypeOK
  BY <1>1, BoundsAssumption DEF Init, TypeOK, Kinds
<1>3. \A a \in Attempts : DOMAIN file[a] = {}
  BY DEF Init
<1>4. FilesSorted /\ MirrorKeepsSeq
  BY <1>3 DEF FilesSorted, MirrorKeepsSeq
<1>5. FileSeqs = {} /\ 1 .. 0 = {}
  BY <1>3 DEF FileSeqs
<1>6. Len(rows) = 0
  BY DEF Init
<1>7. Mirror(0, 0)
  BY <1>3, <1>5, <1>6 DEF Init, Mirror
<1>8. Backlog(0, 0)
  BY <1>6 DEF Init, Backlog
<1> QED BY <1>2, <1>4, <1>7, <1>8 DEF IInv

(* The next seq follows those of all rows that are not lost. *)
LEMMA NextSeqFollows ==
  ASSUME TypeOK, NEW n \in Nat, NEW m \in Nat, Mirror(n, m)
  PROVE  NextSeq \in Nat /\ NextSeq > 0 /\ NextSeq + m = n + Len(rows) + 1
<1>1. memory.next \in Nat /\ Len(rows) \in Nat
  BY DEF TypeOK
<1>2. CASE memory.next > 0
  BY <1>1, <1>2 DEF NextSeq, Mirror
<1>3. CASE memory.next = 0
  <2>1. NextSeq = n + 1
    BY <1>3, MaxOfInterval DEF NextSeq, Mirror
  <2> QED BY <2>1, <1>3, <1>1 DEF Mirror
<1> QED BY <1>1, <1>2, <1>3

LEMMA PublishKeeps ==
  ASSUME IInv, NEW kinds \in Seq(Kinds), NEW a \in Attempts, Publish(kinds, a),
         a = Upcoming, Upcoming' = a,
         run' \in [pc : {"turn", "asked", "waiting", "accepting", "queued", "ending", "over"},
                   att : Attempts, left : Nat],
         run'.pc \in {"asked", "waiting", "accepting", "queued"} => run'.att < MaxAttempt
  PROVE  IInv'
<1>0. PICK n \in Nat, m \in Nat : Mirror(n, m) /\ Backlog(n, m)
  BY DEF IInv
<1> DEFINE out == Passed(kinds)
           L == Len(rows)
           K == Len(out)
           new == [i \in DOMAIN out |-> L + i]
           add == [i \in DOMAIN out |-> [kind |-> out[i], att |-> a, seq |-> NextSeq + i - 1]]
<1>1. TypeOK /\ FilesSorted /\ MirrorKeepsSeq
  BY DEF IInv
<1>2. out \in Seq(Kinds)
  BY <1>1, PassedIsSeq
<1>3. /\ rows' = rows \o add
      /\ memory' = [memory EXCEPT
                      !.next = IF out = <<>> THEN @ ELSE NextSeq + K,
                      !.held = (@ \cup {kinds[i] : i \in DOMAIN kinds})
                                 \ {out[i] : i \in DOMAIN out}]
      /\ pending' = [pending EXCEPT ![a] = @ \o new]
      /\ file' = file
  BY DEF Publish
<1>4. NextSeq \in Nat /\ NextSeq > 0 /\ NextSeq + m = n + L + 1
  BY <1>0, <1>1, NextSeqFollows
<1> HIDE DEF out
<1>5. K \in Nat /\ DOMAIN out = 1 .. K /\ L \in Nat /\ rows \in Seq(Row) /\ m <= L
  BY <1>0, <1>1, <1>2 DEF TypeOK, Mirror
<1>6. add \in Seq(Row) /\ Len(add) = K
  BY <1>2, <1>4, <1>5 DEF Row
<1>7. new \in Seq(Nat) /\ Len(new) = K
  BY <1>5
<1>8. /\ rows' \in Seq(Row)
      /\ Len(rows') = L + K
      /\ \A i \in 1 .. L : rows'[i] = rows[i]
      /\ \A i \in L+1 .. L+K : rows'[i].att = a /\ rows'[i].seq = NextSeq + (i - L) - 1
  <2> HIDE DEF add
  <2>1. /\ rows \o add \in Seq(Row)
        /\ Len(rows \o add) = L + K
        /\ \A i \in 1 .. L : (rows \o add)[i] = rows[i]
        /\ \A i \in L+1 .. L+K : (rows \o add)[i] = add[i - L]
    BY <1>5, <1>6
  <2>2. \A j \in 1 .. K : add[j].att = a /\ add[j].seq = NextSeq + j - 1
    BY <1>5 DEF add
  <2>3. \A i \in L+1 .. L+K : i - L \in 1 .. K
    BY <1>5
  <2> QED BY <1>3, <2>1, <2>2, <2>3
<1>9. /\ pending' \in [Attempts -> Seq(Nat)]
      /\ \A b \in Attempts \ {a} : pending'[b] = pending[b]
      /\ Len(pending'[a]) = Len(pending[a]) + K
      /\ \A k \in 1 .. Len(pending[a]) : pending'[a][k] = pending[a][k]
      /\ \A k \in Len(pending[a])+1 .. Len(pending[a])+K :
           pending'[a][k] = L + (k - Len(pending[a]))
  <2>1. pending \in [Attempts -> Seq(Nat)]
    BY <1>1 DEF TypeOK
  <2>2. pending'[a] = pending[a] \o new
    BY <2>1, <1>3
  <2>3. /\ pending' \in [Attempts -> Seq(Nat)]
        /\ \A b \in Attempts \ {a} : pending'[b] = pending[b]
    <3>1. pending[a] \o new \in Seq(Nat)
      BY <2>1, <1>7
    <3> QED BY <3>1, <2>1, <1>3
  <2>4. \A j \in 1 .. K : new[j] = L + j
    BY <1>5
  <2> HIDE DEF new
  <2>5. /\ Len(pending'[a]) = Len(pending[a]) + K
        /\ \A k \in 1 .. Len(pending[a]) : pending'[a][k] = pending[a][k]
        /\ \A k \in Len(pending[a])+1 .. Len(pending[a])+K :
             pending'[a][k] = new[k - Len(pending[a])]
    <3>1. pending[a] \in Seq(Nat)
      BY <2>1
    <3> DEFINE p == pending[a]
    <3>2. p \in Seq(Nat) /\ new \in Seq(Nat)
      BY <3>1, <1>7
    <3>3. /\ Len(p \o new) = Len(p) + Len(new)
          /\ \A k \in 1 .. Len(p) : (p \o new)[k] = p[k]
          /\ \A k \in Len(p)+1 .. Len(p)+Len(new) : (p \o new)[k] = new[k - Len(p)]
      <4> HIDE DEF p
      <4> QED BY <3>2, Concatenated
    <3> QED BY <3>3, <2>2, <1>7
  <2>6. \A k \in Len(pending[a])+1 .. Len(pending[a])+K : k - Len(pending[a]) \in 1 .. K
    BY <2>1, <1>5
  <2> QED BY <2>3, <2>4, <2>5, <2>6
<1>10. memory' \in [next : Nat, held : SUBSET Kinds, base : Nat]
  <2> DEFINE held == (memory.held \cup {kinds[i] : i \in DOMAIN kinds})
                       \ {out[i] : i \in DOMAIN out}
             next == IF out = <<>> THEN memory.next ELSE NextSeq + K
  <2>1. memory \in [next : Nat, held : SUBSET Kinds, base : Nat]
    BY <1>1 DEF TypeOK
  <2>2. \A i \in DOMAIN kinds : kinds[i] \in Kinds
    OBVIOUS
  <2>3. held \in SUBSET Kinds
    BY <2>1, <2>2
  <2>4. next \in Nat
    BY <2>1, <1>4, <1>5
  <2>5. memory' = [memory EXCEPT !.next = next, !.held = held]
    BY <1>3, <2>1
  <2> HIDE DEF held, next
  <2> QED BY <2>1, <2>3, <2>4, <2>5
<1>11. IF memory'.next = 0 THEN m = L + K ELSE memory'.next + m = n + (L + K) + 1
  <2>1. memory'.next = IF out = <<>> THEN memory.next ELSE NextSeq + K
    BY <1>1, <1>3 DEF TypeOK
  <2>2. CASE out = <<>>
    <3>1. K = 0
      BY <2>2
    <3> QED BY <3>1, <2>1, <2>2, <1>0, <1>5 DEF Mirror
  <2>3. CASE out # <<>>
    BY <2>1, <2>3, <1>4, <1>5
  <2> QED BY <2>2, <2>3
<1> HIDE DEF L, K, new, add
<1>16. Attempts \subseteq Nat
  BY DEF Attempts
<1>p. /\ \A c \in Attempts : Len(pending[c]) \in Nat /\ DOMAIN pending[c] = 1 .. Len(pending[c])
      /\ \A c \in Attempts : DOMAIN pending'[c] = 1 .. Len(pending'[c])
  BY <1>1, <1>9 DEF TypeOK
<1>r. \A i \in 1 .. L : rows[i].att \in Attempts /\ rows[i].att \in Nat
  <2>1. \A i \in 1 .. L : rows[i] \in Row
    BY <1>5 DEF L
  <2> QED BY <2>1, <1>16 DEF Row
<1>b. /\ \A i \in m+1 .. L :
           /\ rows[i].seq + m = n + i
           /\ rows[i].att <= a
           /\ \E k \in DOMAIN pending[rows[i].att] : pending[rows[i].att][k] = i
      /\ \A i, j \in m+1 .. L : i < j => rows[i].att <= rows[j].att
      /\ \A c \in Attempts : \A k \in DOMAIN pending[c] :
           /\ pending[c][k] \in m+1 .. L
           /\ rows[pending[c][k]].att = c
           /\ pending[c][k] = pending[c][1] + k - 1
  BY <1>0 DEF Backlog, L
<1>12. TypeOK'
  BY <1>1, <1>3, <1>8, <1>9, <1>10 DEF TypeOK
<1>13. FilesSorted'
  BY <1>1, <1>3 DEF FilesSorted
<1>14. \A b \in Attempts : \A i \in DOMAIN file[b] : file[b][i].id \in 1 .. L
  BY <1>0, <1>5 DEF Mirror
<1>15. MirrorKeepsSeq'
  <2> SUFFICES ASSUME NEW b \in Attempts, NEW i \in DOMAIN file[b]
               PROVE  file[b][i].seq = rows'[file[b][i].id].seq
    BY <1>3 DEF MirrorKeepsSeq
  <2>1. rows'[file[b][i].id] = rows[file[b][i].id]
    BY <1>8, <1>14
  <2> QED BY <2>1, <1>1 DEF MirrorKeepsSeq
<1>17. \A b \in Attempts : file[b] # <<>> => b <= a
  BY <1>0 DEF Mirror
<1>18. Mirror(n, m)'
  <2>1. FileSeqs' = 1 .. n
    BY <1>0, <1>3 DEF FileSeqs, Mirror
  <2>2. \A b \in Attempts : file'[b] # <<>> =>
          b <= a /\ \A i \in m+1 .. Len(rows') : b <= rows'[i].att
    <3> SUFFICES ASSUME NEW b \in Attempts, file[b] # <<>>, NEW i \in m+1 .. L+K
                 PROVE  b <= a /\ b <= rows'[i].att
      BY <1>3, <1>8, <1>17
    <3>0. b <= a
      BY <1>17
    <3>1. CASE i \in m+1 .. L
      <4>1. \A j \in m+1 .. L : b <= rows[j].att
        BY <1>0 DEF Mirror, L
      <4>2. b <= rows[i].att
        BY <4>1, <3>1
      <4>3. i \in 1 .. L
        BY <3>1, <1>5
      <4>4. rows'[i] = rows[i]
        BY <4>3, <1>8
      <4> QED BY <3>0, <4>2, <4>4
    <3>2. CASE i \in L+1 .. L+K
      <4>1. rows'[i].att = a
        BY <3>2, <1>8
      <4> QED BY <3>0, <4>1
    <3> QED BY <3>1, <3>2, <1>5
  <2>3. \A b \in Attempts : \A i \in DOMAIN file'[b] : file'[b][i].id \in 1 .. m
    BY <1>0, <1>3 DEF Mirror
  <2>4. m <= Len(rows')
    BY <1>5, <1>8
  <2>5. IF memory'.next = 0 THEN m = Len(rows') ELSE memory'.next + m = n + Len(rows') + 1
    BY <1>8, <1>11
  <2> QED BY <2>1, <2>2, <2>3, <2>4, <2>5 DEF Mirror
<1>19. Backlog(n, m)'
  <2>1. ASSUME NEW i \in m+1 .. L+K
        PROVE  /\ rows'[i].seq + m = n + i
               /\ rows'[i].att <= a
               /\ \E k \in DOMAIN pending'[rows'[i].att] : pending'[rows'[i].att][k] = i
    <3>1. CASE i \in m+1 .. L
      <4>1. rows'[i] = rows[i] /\ rows[i].att \in Attempts
        BY <3>1, <1>5, <1>8, <1>r
      <4>2. PICK k \in DOMAIN pending[rows[i].att] : pending[rows[i].att][k] = i
        BY <3>1, <1>b
      <4>3. k \in DOMAIN pending'[rows[i].att] /\ pending'[rows[i].att][k] = i
        <5>1. CASE rows[i].att = a
          <6>1. k \in 1 .. Len(pending[a]) /\ Len(pending[a]) \in Nat
            BY <5>1, <4>2, <1>p
          <6>2. k \in 1 .. Len(pending'[a])
            BY <6>1, <1>5, <1>9
          <6> QED BY <6>1, <6>2, <5>1, <4>2, <1>9, <1>p
        <5>2. CASE rows[i].att # a
          BY <5>2, <4>1, <4>2, <1>9
        <5> QED BY <5>1, <5>2
      <4> QED BY <4>1, <4>3, <3>1, <1>b
    <3>2. CASE i \in L+1 .. L+K
      <4> DEFINE k == Len(pending[a]) + (i - L)
      <4>1. rows'[i].att = a /\ rows'[i].seq = NextSeq + (i - L) - 1
        BY <3>2, <1>8
      <4>2. Len(pending[a]) \in Nat
        BY <1>1 DEF TypeOK
      <4>3. k \in Len(pending[a])+1 .. Len(pending[a])+K
        BY <3>2, <4>2, <1>5
      <4>4. k \in DOMAIN pending'[a]
        BY <4>2, <4>3, <1>5, <1>9
      <4>5. pending'[a][k] = L + (k - Len(pending[a]))
        BY <4>3, <1>9
      <4>6. pending'[a][k] = i
        BY <4>5, <4>2, <3>2, <1>5
      <4>7. rows'[i].seq + m = n + i
        BY <4>1, <1>4, <1>5, <3>2
      <4> HIDE DEF k
      <4> QED BY <4>1, <4>4, <4>6, <4>7, <1>16
    <3> QED BY <3>1, <3>2, <1>5
  <2>2. ASSUME NEW i \in m+1 .. L+K, NEW j \in m+1 .. L+K, i < j
        PROVE  rows'[i].att <= rows'[j].att
    <3>1. CASE j \in m+1 .. L
      <4>1. i \in m+1 .. L
        BY <3>1, <2>2, <1>5
      <4>2. rows'[i] = rows[i] /\ rows'[j] = rows[j]
        BY <3>1, <4>1, <1>5, <1>8
      <4> QED BY <3>1, <4>1, <4>2, <2>2, <1>b
    <3>2. CASE j \in L+1 .. L+K
      BY <3>2, <2>1, <1>8
    <3> QED BY <3>1, <3>2, <1>5
  <2>3. ASSUME NEW b \in Attempts, NEW k \in DOMAIN pending'[b]
        PROVE  /\ pending'[b][k] \in m+1 .. L+K
               /\ rows'[pending'[b][k]].att = b
               /\ pending'[b][k] = pending'[b][1] + k - 1
    <3>1. ASSUME NEW c \in Attempts, NEW l \in DOMAIN pending[c]
          PROVE  /\ pending[c][l] \in m+1 .. L
                 /\ pending[c][l] \in m+1 .. L+K
                 /\ rows'[pending[c][l]].att = c
                 /\ pending[c][l] = pending[c][1] + l - 1
      <4>1. /\ pending[c][l] \in m+1 .. L
            /\ rows[pending[c][l]].att = c
            /\ pending[c][l] = pending[c][1] + l - 1
        BY <1>b
      <4>2. pending[c][l] \in 1 .. L /\ pending[c][l] \in m+1 .. L+K
        BY <4>1, <1>5
      <4> QED BY <4>1, <4>2, <1>8
    <3>2. CASE b # a
      <4>1. pending'[b] = pending[b]
        BY <3>2, <1>9
      <4> QED BY <4>1, <3>1
    <3>3. CASE b = a
      <4>1. Len(pending[a]) \in Nat /\ DOMAIN pending[a] = 1 .. Len(pending[a])
        BY <1>p
      <4>2. k \in 1 .. Len(pending[a]) + K
        BY <3>3, <1>9, <2>3
      <4>3. CASE k \in 1 .. Len(pending[a])
        <5>1. pending'[a][k] = pending[a][k] /\ pending'[a][1] = pending[a][1]
          BY <4>1, <4>3, <1>9
        <5>2. k \in DOMAIN pending[a]
          BY <4>1, <4>3
        <5> HIDE <2>3
        <5> QED BY <5>1, <5>2, <3>1, <3>3
      <4>4. CASE k \in Len(pending[a])+1 .. Len(pending[a])+K
        <5>1. pending'[a][k] = L + (k - Len(pending[a]))
          BY <4>4, <1>9
        <5>2. pending'[a][k] \in L+1 .. L+K
          BY <5>1, <4>1, <4>4, <1>5
        <5>3. pending'[a][k] \in m+1 .. L+K /\ rows'[pending'[a][k]].att = a
          BY <5>2, <1>5, <1>8
        <5>4. pending'[a][k] = pending'[a][1] + k - 1
          <6>1. CASE Len(pending[a]) = 0
            <7>1. pending'[a][1] = L + 1
              BY <6>1, <4>4, <1>5, <1>9
            <7> QED BY <7>1, <6>1, <5>1, <4>4, <1>5
          <6>2. CASE Len(pending[a]) > 0
            <7> DEFINE q == Len(pending[a])
            <7>1. 1 \in DOMAIN pending[a] /\ q \in DOMAIN pending[a] /\ q \in Nat
              BY <6>2, <4>1
            <7>2. /\ pending[a][1] \in m+1 .. L /\ pending[a][q] \in m+1 .. L
                  /\ rows[pending[a][1]].att = a
                  /\ pending[a][q] = pending[a][1] + q - 1
              BY <7>1, <1>b
            <7>3. L \in m+1 .. L
              BY <7>2, <1>5
            <7>4. rows[L].att \in Nat /\ a \in Nat
              BY <7>3, <1>5, <1>16, <1>r
            <7>5. rows[L].att <= a
              BY <7>3, <1>b
            <7>6. a <= rows[L].att
              <8>1. CASE pending[a][1] = L
                BY <8>1, <7>2, <7>4
              <8>2. CASE pending[a][1] < L
                <9>1. pending[a][1] \in m+1 .. L /\ L \in m+1 .. L
                  BY <7>2, <7>3
                <9>2. rows[pending[a][1]].att <= rows[L].att
                  BY <9>1, <8>2, <1>b
                <9> QED BY <9>2, <7>2
              <8> QED BY <8>1, <8>2, <7>2, <1>5
            <7>7. PICK l \in DOMAIN pending[a] : pending[a][l] = L
              BY <7>3, <7>4, <7>5, <7>6, <1>b
            <7>8. L = pending[a][1] + l - 1
              BY <7>7, <3>1
            <7>9. l \in Nat /\ l <= q /\ pending[a][1] \in Nat
              BY <7>7, <7>2, <4>1, <1>5
            <7>10. pending[a][1] + q - 1 = L
              <8> HIDE DEF q
              <8> DEFINE first == pending[a][1]
              <8>1. first + q - 1 <= L
                <9>1. pending[a][q] <= L
                  BY <7>2, <1>5
                <9> QED BY <9>1, <7>2
              <8>2. L = first + l - 1 /\ l \in Nat /\ l <= q /\ first \in Nat
                BY <7>8, <7>9
              <8>3. q \in Nat /\ L \in Nat
                BY <7>1, <1>5
              <8> HIDE DEF first
              <8>4. first + q - 1 = L
                BY <8>1, <8>2, <8>3
              <8> QED BY <8>4 DEF first
            <7>11. pending'[a][1] = pending[a][1]
              BY <7>1, <4>1, <1>9
            <7>12. k \in Nat /\ pending'[a][k] = L + (k - q)
              BY <5>1, <4>4, <7>1, <1>5
            <7> HIDE DEF q
            <7>13. \A f \in Nat : f + q - 1 = L => L + (k - q) = f + k - 1
              BY <7>1, <7>12, <1>5
            <7>14. L + (k - q) = pending[a][1] + k - 1
              BY <7>9, <7>10, <7>13
            <7> QED BY <7>11, <7>12, <7>14
          <6> QED BY <6>1, <6>2, <4>1
        <5> QED BY <5>3, <5>4, <3>3
      <4> QED BY <4>2, <4>3, <4>4, <4>1, <1>5
    <3> QED BY <3>2, <3>3
  <2> QED BY <2>1, <2>2, <2>3, <1>8 DEF Backlog
<1> QED BY <1>12, <1>13, <1>15, <1>18, <1>19 DEF IInv

LEMMA FlushKeeps ==
  ASSUME IInv, Paced, NEW a \in Attempts, Flush(a)
  PROVE  IInv'
<1>0. PICK n \in Nat, m \in Nat : Mirror(n, m) /\ Backlog(n, m)
  BY DEF IInv
<1> DEFINE L == Len(rows)
<1>1. TypeOK /\ FilesSorted /\ MirrorKeepsSeq
  BY DEF IInv
<1>2. /\ pending[a] # <<>>
      /\ \A b \in Attempts : b < a => pending[b] = <<>>
      /\ run' = run /\ rows' = rows /\ memory' = memory
  BY DEF Flush, Paced, Lagging
<1>3. PICK c \in 1 .. Len(pending[a]) :
        /\ file' = [file EXCEPT ![a] = @ \o [i \in 1 .. c |->
                     [id |-> pending[a][i], seq |-> rows[pending[a][i]].seq]]]
        /\ pending' = [pending EXCEPT ![a] = SubSeq(@, c + 1, Len(@))]
  BY DEF Flush
<1>4. /\ Attempts \subseteq Nat /\ L \in Nat /\ m <= L
      /\ \A b \in Attempts : Len(pending[b]) \in Nat /\ DOMAIN pending[b] = 1 .. Len(pending[b])
      /\ \A b \in Attempts : Len(file[b]) \in Nat /\ DOMAIN file[b] = 1 .. Len(file[b])
      /\ c \in Nat /\ c > 0 /\ c <= Len(pending[a])
  <2>1. Attempts \subseteq Nat /\ L \in Nat /\ m <= L
    BY <1>0, <1>1 DEF TypeOK, Mirror, Attempts
  <2>2. \A b \in Attempts : Len(pending[b]) \in Nat /\ DOMAIN pending[b] = 1 .. Len(pending[b])
    BY <1>1 DEF TypeOK
  <2>3. \A b \in Attempts : Len(file[b]) \in Nat /\ DOMAIN file[b] = 1 .. Len(file[b])
    BY <1>1 DEF TypeOK
  <2>4. c \in Nat /\ c > 0 /\ c <= Len(pending[a])
    BY <2>2, <1>3
  <2> QED BY <2>1, <2>2, <2>3, <2>4
<1>5. \A i \in 1 .. L : rows[i].att \in Attempts /\ rows[i].seq \in Nat
  <2>1. \A i \in 1 .. L : rows[i] \in Row
    BY <1>1, <1>4 DEF TypeOK
  <2> QED BY <2>1 DEF Row
<1>b. /\ \A i \in m+1 .. L :
           /\ rows[i].seq + m = n + i
           /\ rows[i].att <= Upcoming
           /\ \E k \in DOMAIN pending[rows[i].att] : pending[rows[i].att][k] = i
      /\ \A i, j \in m+1 .. L : i < j => rows[i].att <= rows[j].att
      /\ \A b \in Attempts : \A k \in DOMAIN pending[b] :
           /\ pending[b][k] \in m+1 .. L
           /\ rows[pending[b][k]].att = b
           /\ pending[b][k] = pending[b][1] + k - 1
  BY <1>0 DEF Backlog
<1> HIDE DEF L
<1>6. 1 \in DOMAIN pending[a]
  BY <1>4
<1>7. m+1 \in m+1 .. L /\ m+1 \in 1 .. L
  BY <1>4, <1>6, <1>b
\* The oldest row that waits is the first of this writer.
<1>8. rows[m+1].att = a /\ pending[a][1] = m+1
  <2> DEFINE b == rows[m+1].att
  <2>1. b \in Attempts
    BY <1>5, <1>7
  <2>2. PICK l \in DOMAIN pending[b] : pending[b][l] = m+1
    BY <1>7, <1>b
  <2>3. pending[b] # <<>>
    BY <2>2
  <2>4. ~(b < a)
    BY <2>1, <2>3, <1>2
  <2>5. pending[a][1] \in m+1 .. L /\ rows[pending[a][1]].att = a
    BY <1>6, <1>b
  <2>6. b <= a
    <3>1. CASE pending[a][1] = m+1
      BY <3>1, <2>5, <2>1, <1>4
    <3>2. CASE pending[a][1] > m+1
      <4>1. m+1 < pending[a][1]
        BY <3>2, <2>5, <1>4
      <4>2. rows[m+1].att <= rows[pending[a][1]].att
        BY <4>1, <2>5, <1>7, <1>b
      <4> QED BY <4>2, <2>5
    <3> QED BY <3>1, <3>2, <2>5, <1>4
  <2>7. b = a
    BY <2>1, <2>4, <2>6, <1>4
  <2>8. l \in DOMAIN pending[a] /\ pending[a][l] = m+1
    BY <2>2, <2>7
  <2>9. m+1 = pending[a][1] + l - 1 /\ l \in Nat /\ l > 0
    <3>1. l \in 1 .. Len(pending[a])
      BY <2>8, <1>4
    <3>2. pending[a][l] = pending[a][1] + l - 1
      BY <2>8, <1>b
    <3> QED BY <3>1, <3>2, <2>8, <1>4
  <2>10. pending[a][1] = m+1
    BY <2>9, <2>5, <1>4
  <2> QED BY <2>7, <2>10
<1>9. \A k \in 1 .. Len(pending[a]) :
        pending[a][k] = m+k /\ m+k \in m+1 .. L /\ rows[m+k].att = a /\ rows[m+k].seq = n+k
  <2> SUFFICES ASSUME NEW k \in 1 .. Len(pending[a])
               PROVE  pending[a][k] = m+k /\ m+k \in m+1 .. L /\ rows[m+k].att = a
                      /\ rows[m+k].seq = n+k
    OBVIOUS
  <2>1. k \in DOMAIN pending[a] /\ k \in Nat
    BY <1>4
  <2>2. pending[a][k] = m+1 + k - 1
    BY <2>1, <1>8, <1>b
  <2>3. pending[a][k] = m+k
    BY <2>1, <2>2
  <2>4. m+k \in m+1 .. L /\ rows[m+k].att = a
    BY <2>1, <2>3, <1>b
  <2>5. rows[m+k].seq + m = n + (m+k)
    BY <2>4, <1>b
  <2>6. m+k \in 1 .. L
    BY <2>4, <1>4
  <2>7. rows[m+k].seq = n+k
    <3> DEFINE s == rows[m+k].seq
    <3>1. s \in Nat /\ s + m = n + (m+k)
      BY <2>5, <2>6, <1>5
    <3> HIDE DEF s
    <3>2. s = n+k
      BY <3>1, <2>1
    <3> QED BY <3>2 DEF s
  <2> QED BY <2>3, <2>4, <2>7
<1> DEFINE add == [i \in 1 .. c |-> [id |-> pending[a][i], seq |-> rows[pending[a][i]].seq]]
<1>10. add \in Seq(Filed) /\ Len(add) = c /\ \A i \in 1 .. c : add[i] = [id |-> m+i, seq |-> n+i]
  <2>1. \A i \in 1 .. c : [id |-> pending[a][i], seq |-> rows[pending[a][i]].seq]
                             = [id |-> m+i, seq |-> n+i]
    BY <1>4, <1>9
  <2>2. \A i \in 1 .. c : [id |-> m+i, seq |-> n+i] \in Filed
    BY DEF Filed
  <2>3. \A i \in 1 .. c : add[i] = [id |-> m+i, seq |-> n+i]
    BY <2>1
  <2>4. c \in Nat /\ add = [i \in 1 .. c |-> [id |-> m+i, seq |-> n+i]]
    BY <2>1, <1>4
  <2>5. /\ [i \in 1 .. c |-> [id |-> m+i, seq |-> n+i]] \in Seq(Filed)
        /\ Len([i \in 1 .. c |-> [id |-> m+i, seq |-> n+i]]) = c
    BY <2>2, <2>4
  <2> HIDE DEF add
  <2> QED BY <2>3, <2>4, <2>5
<1> HIDE DEF add
<1>11. /\ file' \in [Attempts -> Seq(Filed)]
       /\ \A b \in Attempts \ {a} : file'[b] = file[b]
       /\ Len(file'[a]) = Len(file[a]) + c
       /\ DOMAIN file'[a] = 1 .. Len(file[a]) + c
       /\ \A i \in 1 .. Len(file[a]) : file'[a][i] = file[a][i]
       /\ \A i \in Len(file[a])+1 .. Len(file[a])+c :
            file'[a][i].id = m + (i - Len(file[a])) /\ file'[a][i].seq = n + (i - Len(file[a]))
  <2>1. file \in [Attempts -> Seq(Filed)] /\ file' = [file EXCEPT ![a] = @ \o add]
    BY <1>1, <1>3 DEF TypeOK, add
  <2> DEFINE f == file[a]
  <2>2. file'[a] = f \o add /\ f \in Seq(Filed)
    BY <2>1
  <2>3. /\ f \o add \in Seq(Filed)
        /\ Len(f \o add) = Len(f) + c
        /\ \A k \in 1 .. Len(f) : (f \o add)[k] = f[k]
        /\ \A k \in Len(f)+1 .. Len(f)+c : (f \o add)[k] = add[k - Len(f)]
    <3> HIDE DEF f
    <3> QED BY <2>2, <1>10, Concatenated
  <2>4. \A k \in Len(f)+1 .. Len(f)+c : k - Len(f) \in 1 .. c
    BY <2>2, <1>4
  <2>5. DOMAIN (f \o add) = 1 .. Len(f) + c
    BY <2>3
  <2> HIDE DEF f
  <2>6. \A k \in Len(f)+1 .. Len(f)+c :
          (f \o add)[k].id = m + (k - Len(f)) /\ (f \o add)[k].seq = n + (k - Len(f))
    BY <2>3, <2>4, <1>10
  <2>7. /\ file' \in [Attempts -> Seq(Filed)]
        /\ \A b \in Attempts \ {a} : file'[b] = file[b]
    BY <2>1, <2>3 DEF f
  <2> QED BY <2>2, <2>3, <2>5, <2>6, <2>7 DEF f
<1>12. /\ pending' \in [Attempts -> Seq(Nat)]
       /\ \A b \in Attempts \ {a} : pending'[b] = pending[b]
       /\ DOMAIN pending'[a] = 1 .. Len(pending[a]) - c
       /\ \A k \in 1 .. Len(pending[a]) - c : pending'[a][k] = pending[a][k+c]
  <2>1. pending \in [Attempts -> Seq(Nat)]
    BY <1>1 DEF TypeOK
  <2> DEFINE p == pending[a]
             s == SubSeq(p, c + 1, Len(p))
  <2>2. p \in Seq(Nat) /\ pending' = [pending EXCEPT ![a] = s]
    BY <2>1, <1>3
  <2>3. /\ s \in Seq(Nat)
        /\ Len(s) = Len(p) - c
        /\ \A k \in 1 .. Len(p) - c : s[k] = p[k+c]
    <3>1. c \in Nat /\ c <= Len(p) /\ Len(p) \in Nat
      BY <1>4
    <3> HIDE DEF p
    <3> QED BY <3>1, <2>2
  <2> HIDE DEF s
  <2>4. DOMAIN s = 1 .. Len(p) - c
    BY <2>3
  <2> QED BY <2>1, <2>2, <2>3, <2>4
<1>13. TypeOK'
  BY <1>1, <1>2, <1>11, <1>12 DEF TypeOK
<1>14. \A b \in Attempts : \A i \in DOMAIN file[b] :
         file[b][i].id \in 1 .. m /\ file[b][i].seq \in 1 .. n
  BY <1>0 DEF Mirror, FileSeqs
<1>15. \A b \in Attempts : b > a => file[b] = <<>>
  <2>1. \A b \in Attempts : file[b] # <<>> => b <= rows[m+1].att
    BY <1>0, <1>7 DEF Mirror, L
  <2> QED BY <2>1, <1>4, <1>8
<1>16. a <= Upcoming
  BY <1>7, <1>8, <1>b
\* Each row of the file of a is an old one or one of the c new ones.
<1>17. \A i \in DOMAIN file'[a] :
         \/ i \in DOMAIN file[a] /\ file'[a][i] = file[a][i]
         \/ \E k \in 1 .. c : /\ i = Len(file[a]) + k
                              /\ file'[a][i].id = m+k /\ file'[a][i].seq = n+k
  <2> SUFFICES ASSUME NEW i \in DOMAIN file'[a], i \notin DOMAIN file[a]
               PROVE  \E k \in 1 .. c : /\ i = Len(file[a]) + k
                                        /\ file'[a][i].id = m+k /\ file'[a][i].seq = n+k
    BY <1>4, <1>11
  <2>1. i \in Len(file[a])+1 .. Len(file[a])+c
    BY <1>4, <1>11
  <2>2. i - Len(file[a]) \in 1 .. c /\ i = Len(file[a]) + (i - Len(file[a]))
    BY <2>1, <1>4
  <2> QED BY <2>1, <2>2, <1>11
<1>18. FilesSorted'
  <2>1. ASSUME NEW b \in Attempts, NEW i \in DOMAIN file'[b], NEW j \in DOMAIN file'[b], i < j
        PROVE  file'[b][i].seq < file'[b][j].seq
    <3>1. CASE b # a
      BY <3>1, <2>1, <1>1, <1>11 DEF FilesSorted
    <3>2. CASE b = a
      <4>1. CASE j \in DOMAIN file[a] /\ file'[a][j] = file[a][j]
        <5>1. i \in 1 .. Len(file[a]) /\ j \in 1 .. Len(file[a])
          BY <4>1, <3>2, <2>1, <1>4, <1>11
        <5>2. file'[a][i] = file[a][i] /\ i \in DOMAIN file[a]
          BY <5>1, <1>4, <1>11
        <5> QED BY <5>2, <4>1, <3>2, <2>1, <1>1 DEF FilesSorted
      <4>2. ASSUME NEW k \in 1 .. c, j = Len(file[a]) + k, file'[a][j].seq = n+k
            PROVE  file'[a][i].seq < file'[a][j].seq
        <5>1. CASE i \in DOMAIN file[a] /\ file'[a][i] = file[a][i]
          <6>1. file[a][i].seq \in 1 .. n
            BY <5>1, <1>14
          <6> QED BY <6>1, <5>1, <4>2
        <5>2. ASSUME NEW l \in 1 .. c, i = Len(file[a]) + l, file'[a][i].seq = n+l
              PROVE  file'[a][i].seq < file'[a][j].seq
          BY <5>2, <4>2, <2>1, <1>4
        <5> QED BY <5>1, <5>2, <3>2, <1>17
      <4> QED BY <4>1, <4>2, <3>2, <1>17
    <3> QED BY <3>1, <3>2
  <2>2. ASSUME NEW b \in Attempts, NEW d \in Attempts, b < d,
               NEW i \in DOMAIN file'[b], NEW j \in DOMAIN file'[d]
        PROVE  file'[b][i].seq < file'[d][j].seq
    <3>1. CASE b = a
      <4>1. file[d] = <<>> /\ file'[d] = file[d]
        BY <3>1, <2>2, <1>4, <1>11, <1>15
      <4> QED BY <4>1, <2>2
    <3>2. CASE d = a
      <4>1. file'[b] = file[b] /\ file[b][i].seq \in 1 .. n
        BY <3>2, <2>2, <1>4, <1>11, <1>14
      <4>2. CASE j \in DOMAIN file[a] /\ file'[a][j] = file[a][j]
        BY <4>1, <4>2, <3>2, <2>2, <1>1 DEF FilesSorted
      <4>3. ASSUME NEW k \in 1 .. c, file'[a][j].seq = n+k
            PROVE  file'[b][i].seq < file'[d][j].seq
        BY <4>1, <4>3, <3>2
      <4> QED BY <4>2, <4>3, <3>2, <1>17
    <3>3. CASE b # a /\ d # a
      BY <3>3, <2>2, <1>1, <1>11 DEF FilesSorted
    <3> QED BY <3>1, <3>2, <3>3
  <2> QED BY <2>1, <2>2 DEF FilesSorted
<1>19. MirrorKeepsSeq'
  <2> SUFFICES ASSUME NEW b \in Attempts, NEW i \in DOMAIN file'[b]
               PROVE  file'[b][i].seq = rows[file'[b][i].id].seq
    BY <1>2 DEF MirrorKeepsSeq
  <2>1. CASE b \in Attempts \ {a}
    BY <2>1, <1>1, <1>11 DEF MirrorKeepsSeq
  <2>2. CASE b = a
    <3>1. CASE i \in DOMAIN file[a] /\ file'[a][i] = file[a][i]
      BY <3>1, <2>2, <1>1 DEF MirrorKeepsSeq
    <3>2. ASSUME NEW k \in 1 .. c, file'[a][i].id = m+k, file'[a][i].seq = n+k
          PROVE  file'[b][i].seq = rows[file'[b][i].id].seq
      <4>1. k \in 1 .. Len(pending[a])
        BY <1>4
      <4> QED BY <4>1, <3>2, <2>2, <1>9
    <3> QED BY <3>1, <3>2, <2>2, <1>17
  <2> QED BY <2>1, <2>2
<1>20. m+c \in Nat /\ n+c \in Nat /\ m+c <= L
  <2>1. c \in 1 .. Len(pending[a])
    OBVIOUS
  <2>2. m+c \in m+1 .. L
    BY <2>1, <1>9
  <2> QED BY <2>2, <1>4
<1>21. Mirror(n+c, m+c)'
  <2>1. FileSeqs' = 1 .. n+c
    <3>1. ASSUME NEW t \in FileSeqs' PROVE t \in 1 .. n+c
      <4>1. PICK b \in Attempts : \E i \in DOMAIN file'[b] : t = file'[b][i].seq
        BY <3>1 DEF FileSeqs
      <4>2. PICK i \in DOMAIN file'[b] : t = file'[b][i].seq
        BY <4>1
      <4>3. CASE b \in Attempts \ {a}
        <5>1. t \in 1 .. n
          BY <4>2, <4>3, <1>11, <1>14
        <5> QED BY <5>1, <1>4
      <4>4. CASE b = a
        <5>1. CASE i \in DOMAIN file[a] /\ file'[a][i] = file[a][i]
          <6>1. t \in 1 .. n
            BY <5>1, <4>2, <4>4, <1>14
          <6> QED BY <6>1, <1>4
        <5>2. ASSUME NEW k \in 1 .. c, file'[a][i].seq = n+k
              PROVE  t \in 1 .. n+c
          BY <5>2, <4>2, <4>4, <1>4
        <5> QED BY <5>1, <5>2, <4>4, <1>17
      <4> QED BY <4>3, <4>4
    <3>2. ASSUME NEW t \in 1 .. n+c PROVE t \in FileSeqs'
      <4>1. CASE t \in 1 .. n
        <5>1. t \in FileSeqs
          BY <4>1, <1>0 DEF Mirror
        <5>2. PICK b \in Attempts : \E i \in DOMAIN file[b] : t = file[b][i].seq
          BY <5>1 DEF FileSeqs
        <5>3. PICK i \in DOMAIN file[b] : t = file[b][i].seq
          BY <5>2
        <5>4. i \in DOMAIN file'[b] /\ file'[b][i] = file[b][i]
          <6>1. CASE b = a
            <7>1. i \in 1 .. Len(file[a]) /\ i \in 1 .. Len(file[a]) + c
              BY <6>1, <5>3, <1>4
            <7> QED BY <7>1, <6>1, <1>11
          <6>2. CASE b \in Attempts \ {a}
            BY <6>2, <1>11
          <6> QED BY <6>1, <6>2
        <5> QED BY <5>3, <5>4 DEF FileSeqs
      <4>2. CASE t \in n+1 .. n+c
        <5> DEFINE i == Len(file[a]) + (t - n)
        <5>1. i \in Len(file[a])+1 .. Len(file[a])+c /\ t = n + (i - Len(file[a]))
          BY <4>2, <1>4
        <5>2. i \in DOMAIN file'[a] /\ file'[a][i].seq = t
          <6> HIDE DEF i
          <6>1. i \in 1 .. Len(file[a]) + c /\ t \in Nat
            BY <5>1, <1>4, <4>2
          <6>2. file'[a][i].seq = n + (i - Len(file[a]))
            BY <5>1, <1>11
          <6> QED BY <6>1, <6>2, <5>1, <1>11
        <5> HIDE DEF i
        <5> QED BY <5>2 DEF FileSeqs
      <4> QED BY <4>1, <4>2, <1>4
    <3> QED BY <3>1, <3>2
  <2>2. ASSUME NEW b \in Attempts, NEW i \in DOMAIN file'[b]
        PROVE  file'[b][i].id \in 1 .. m+c
    <3>1. CASE b \in Attempts \ {a}
      <4>1. file'[b][i].id \in 1 .. m
        BY <3>1, <1>11, <1>14
      <4> QED BY <4>1, <1>4
    <3>2. CASE b = a
      <4>1. CASE i \in DOMAIN file[a] /\ file'[a][i] = file[a][i]
        <5>1. file'[b][i].id \in 1 .. m
          BY <4>1, <3>2, <1>14
        <5> QED BY <5>1, <1>4
      <4>2. ASSUME NEW k \in 1 .. c, file'[a][i].id = m+k
            PROVE  file'[b][i].id \in 1 .. m+c
        BY <4>2, <3>2, <1>4
      <4> QED BY <4>1, <4>2, <3>2, <1>17
    <3> QED BY <3>1, <3>2
  <2>3. IF memory.next = 0 THEN m+c = L ELSE memory.next + (m+c) = (n+c) + L + 1
    <3>1. memory.next # 0 /\ memory.next + m = n + L + 1 /\ memory.next \in Nat
      BY <1>0, <1>1, <1>4, <1>7 DEF Mirror, TypeOK, L
    <3> QED BY <3>1, <1>4
  <2>4. ASSUME NEW b \in Attempts, file'[b] # <<>>
        PROVE  b <= Upcoming /\ \A i \in m+c+1 .. L : b <= rows[i].att
    <3>1. CASE b = a
      <4>1. ASSUME NEW i \in m+c+1 .. L PROVE a <= rows[i].att
        <5>1. i \in m+1 .. L /\ m+1 < i
          BY <4>1, <1>4
        <5>2. rows[m+1].att <= rows[i].att
          BY <5>1, <1>7, <1>b
        <5> QED BY <5>2, <1>8
      <4> QED BY <4>1, <3>1, <1>16
    <3>2. CASE b \in Attempts \ {a}
      <4>1. file[b] # <<>>
        BY <3>2, <2>4, <1>11
      <4>2. b <= Upcoming /\ \A i \in m+1 .. L : b <= rows[i].att
        BY <4>1, <1>0 DEF Mirror, L
      <4>3. \A i \in m+c+1 .. L : i \in m+1 .. L
        BY <1>4
      <4> QED BY <4>2, <4>3
    <3> QED BY <3>1, <3>2
  <2>5. Upcoming' = Upcoming /\ Len(rows') = L
    BY <1>2 DEF Upcoming, L
  <2> QED BY <2>1, <2>2, <2>3, <2>4, <2>5, <1>2, <1>20 DEF Mirror, L
<1>22. Backlog(n+c, m+c)'
  <2>0. \A i \in m+c+1 .. L : i \in m+1 .. L /\ i \in Nat /\ i > m+c
    BY <1>4
  <2>1. ASSUME NEW i \in m+c+1 .. L
        PROVE  /\ rows[i].seq + (m+c) = (n+c) + i
               /\ rows[i].att <= Upcoming
               /\ \E k \in DOMAIN pending'[rows[i].att] : pending'[rows[i].att][k] = i
    <3>1. rows[i].att \in Attempts /\ rows[i].seq \in Nat
      <4>1. i \in 1 .. L
        BY <2>0, <1>4
      <4> QED BY <4>1, <1>5
    <3>0. rows[i].seq + (m+c) = (n+c) + i /\ rows[i].att <= Upcoming
      <4>1. rows[i].seq + m = n + i /\ rows[i].att <= Upcoming
        BY <2>0, <1>b
      <4> DEFINE s == rows[i].seq
      <4>2. s \in Nat /\ s + m = n + i
        BY <4>1, <3>1
      <4> HIDE DEF s
      <4>3. s + (m+c) = (n+c) + i
        BY <4>2, <2>0, <1>4
      <4> QED BY <4>1, <4>3 DEF s
    <3>2. PICK k \in DOMAIN pending[rows[i].att] : pending[rows[i].att][k] = i
      BY <2>0, <1>b
    <3>3. CASE rows[i].att = a
      <4>1. k \in 1 .. Len(pending[a]) /\ i = m+k
        BY <3>2, <3>3, <1>4, <1>9
      <4>2. k - c \in 1 .. Len(pending[a]) - c /\ (k - c) + c = k
        BY <4>1, <2>0, <1>4
      <4>3. pending'[a][k - c] = i /\ k - c \in DOMAIN pending'[a]
        BY <4>2, <3>2, <3>3, <1>12
      <4> QED BY <4>3, <3>0, <3>3
    <3>4. CASE rows[i].att # a
      <4>1. pending'[rows[i].att] = pending[rows[i].att]
        BY <3>1, <3>4, <1>12
      <4> QED BY <4>1, <3>0, <3>2
    <3> QED BY <3>3, <3>4
  <2>2. \A i, j \in m+c+1 .. L : i < j => rows[i].att <= rows[j].att
    BY <2>0, <1>b
  <2>3. ASSUME NEW b \in Attempts, NEW k \in DOMAIN pending'[b]
        PROVE  /\ pending'[b][k] \in m+c+1 .. L
               /\ rows[pending'[b][k]].att = b
               /\ pending'[b][k] = pending'[b][1] + k - 1
    <3>1. CASE b = a
      <4>1. k \in 1 .. Len(pending[a]) - c /\ 1 \in 1 .. Len(pending[a]) - c
        BY <3>1, <2>3, <1>4, <1>12
      <4>2. k+c \in 1 .. Len(pending[a]) /\ 1+c \in 1 .. Len(pending[a])
        BY <4>1, <1>4
      <4>3. /\ pending'[a][k] = m+(k+c) /\ pending'[a][1] = m+(1+c)
            /\ m+(k+c) \in m+1 .. L /\ rows[m+(k+c)].att = a
        BY <4>1, <4>2, <1>9, <1>12
      <4>4. m+(k+c) \in m+c+1 .. L /\ m+(k+c) = m+(1+c) + k - 1
        BY <4>1, <4>3, <1>4
      <4> QED BY <4>3, <4>4, <3>1
    <3>2. CASE b \in Attempts \ {a}
      <4>1. pending'[b] = pending[b]
        BY <3>2, <1>12
      <4>2. /\ pending[b][k] \in m+1 .. L
            /\ rows[pending[b][k]].att = b
            /\ pending[b][k] = pending[b][1] + k - 1
        BY <4>1, <2>3, <1>b
      <4>3. ~(pending[b][k] \in m+1 .. m+c)
        <5> SUFFICES ASSUME pending[b][k] \in m+1 .. m+c PROVE FALSE
          OBVIOUS
        <5>1. pending[b][k] - m \in 1 .. Len(pending[a]) /\ m + (pending[b][k] - m) = pending[b][k]
          <6>1. \A p \in m+1 .. m+c : p - m \in 1 .. Len(pending[a]) /\ m + (p - m) = p
            BY <1>4
          <6> QED BY <6>1
        <5>2. rows[pending[b][k]].att = a
          BY <5>1, <1>9
        <5> QED BY <5>2, <4>2, <3>2
      <4>4. pending[b][k] \in m+c+1 .. L
        BY <4>2, <4>3, <1>4
      <4> QED BY <4>1, <4>2, <4>4
    <3> QED BY <3>1, <3>2
  <2>4. Upcoming' = Upcoming /\ Len(rows') = L
    BY <1>2 DEF Upcoming, L
  <2> QED BY <2>1, <2>2, <2>3, <2>4, <1>2 DEF Backlog
<1> QED BY <1>13, <1>18, <1>19, <1>20, <1>21, <1>22 DEF IInv

(* A crash forgets what the writers had not appended; the seqs go on from  *)
(* what is on file.                                                        *)
LEMMA CrashKeeps ==
  ASSUME IInv, Crash
  PROVE  IInv'
<1>0. PICK n \in Nat, m \in Nat : Mirror(n, m) /\ Backlog(n, m)
  BY DEF IInv
<1> DEFINE L == Len(rows)
<1>1. TypeOK /\ FilesSorted /\ MirrorKeepsSeq
  BY DEF IInv
<1>2. /\ rows' = rows /\ file' = file
      /\ memory' = [next |-> 0, held |-> {}, base |-> L]
      /\ pending' = [a \in Attempts |-> <<>>]
      /\ run' = [run EXCEPT !.pc = CASE run.pc \in {"turn", "asked", "ending"} -> "over"
                                     [] run.pc = "accepting"                   -> "queued"
                                     [] OTHER                                  -> @]
  BY DEF Crash
<1>3. L \in Nat /\ m <= L /\ L + 1 > L
  BY <1>0, <1>1 DEF TypeOK, Mirror
<1>4. /\ run' \in [pc : {"turn", "asked", "waiting", "accepting", "queued", "ending", "over"},
                   att : Attempts, left : Nat]
      /\ run'.pc \in {"asked", "waiting", "accepting", "queued"} => run'.att < MaxAttempt
      /\ Upcoming' = Upcoming
  BY <1>1, <1>2 DEF TypeOK, Upcoming
<1>5. TypeOK'
  BY <1>1, <1>2, <1>3, <1>4 DEF TypeOK
<1>6. FilesSorted' /\ MirrorKeepsSeq'
  BY <1>1, <1>2 DEF FilesSorted, MirrorKeepsSeq
<1>7. L+1 .. L = {}
  BY <1>3
<1>8. Mirror(n, L)'
  <2>1. \A a \in Attempts : \A i \in DOMAIN file[a] : file[a][i].id \in 1 .. L
    BY <1>0, <1>3 DEF Mirror
  <2>2. FileSeqs' = 1 .. n /\ \A a \in Attempts : file[a] # <<>> => a <= Upcoming
    BY <1>0, <1>2 DEF Mirror, FileSeqs
  <2>3. Len(rows') = L /\ memory'.next = 0
    BY <1>2
  <2> QED BY <2>1, <2>2, <2>3, <1>2, <1>3, <1>4, <1>7 DEF Mirror
<1>9. Backlog(n, L)'
  <2>1. Len(rows') = L /\ \A a \in Attempts : DOMAIN pending'[a] = {}
    BY <1>2
  <2> QED BY <2>1, <1>7 DEF Backlog
<1> QED BY <1>3, <1>5, <1>6, <1>8, <1>9 DEF IInv

(* A run that moves on leaves the rows, the writers and the files alone. *)
LEMMA MoveKeeps ==
  ASSUME IInv, UNCHANGED <<rows, memory, pending, file>>,
         run' \in [pc : {"turn", "asked", "waiting", "accepting", "queued", "ending", "over"},
                   att : Attempts, left : Nat],
         run'.pc \in {"asked", "waiting", "accepting", "queued"} => run'.att < MaxAttempt,
         Upcoming <= Upcoming'
  PROVE  IInv'
<1>0. PICK n \in Nat, m \in Nat : Mirror(n, m) /\ Backlog(n, m)
  BY DEF IInv
<1>1. TypeOK /\ FilesSorted /\ MirrorKeepsSeq
  BY DEF IInv
<1>2. /\ Upcoming \in Nat /\ Upcoming' \in Nat /\ Attempts \subseteq Nat
      /\ \A i \in m+1 .. Len(rows) : rows[i].att \in Nat
  <2>1. \A i \in 1 .. Len(rows) : rows[i] \in Row
    BY <1>1 DEF TypeOK
  <2>2. Attempts \subseteq Nat
    BY DEF Attempts
  <2>3. \A i \in m+1 .. Len(rows) : i \in 1 .. Len(rows)
    BY <1>1 DEF TypeOK
  <2>4. run.att \in Nat /\ run'.att \in Nat
    BY <2>2, <1>1 DEF TypeOK
  <2>5. \A i \in m+1 .. Len(rows) : rows[i].att \in Nat
    BY <2>1, <2>2, <2>3 DEF Row
  <2> QED BY <2>2, <2>4, <2>5 DEF Upcoming
<1>3. TypeOK'
  BY <1>1 DEF TypeOK
<1>4. FilesSorted' /\ MirrorKeepsSeq' /\ FileSeqs' = FileSeqs
  BY <1>1 DEF FilesSorted, MirrorKeepsSeq, FileSeqs
<1>5. Mirror(n, m)'
  <2>1. \A a \in Attempts : file[a] # <<>> => a <= Upcoming'
    BY <1>0, <1>2 DEF Mirror
  <2> QED BY <2>1, <1>0, <1>4 DEF Mirror
<1>6. Backlog(n, m)'
  <2>1. \A i \in m+1 .. Len(rows) : rows[i].att <= Upcoming'
    BY <1>0, <1>2 DEF Backlog
  <2> QED BY <2>1, <1>0 DEF Backlog
<1> QED BY <1>3, <1>4, <1>5, <1>6 DEF IInv

(* A reader finds nothing to renumber. *)
LEMMA ReadHistoryChangesNothing ==
  ASSUME IInv, Paced, NEW from, ReadHistory(from)
  PROVE  file' = file /\ pending' = pending
<1>1. TypeOK /\ FilesSorted /\ \E n \in Nat : FileSeqs = 1 .. n
  BY DEF IInv, Mirror
<1>2. Reindexed(file) = file
  BY <1>1, ReindexedIsSame
<1>3. CASE NeedsAudit(from) /\ Reindexes
  <2>1. PICK lost \in Overlapped :
          /\ file' = Reindexed(file)
          /\ pending' = [a \in Attempts |-> IF a \in lost THEN <<>> ELSE pending[a]]
    BY <1>3 DEF ReadHistory
  <2>2. lost = {}
    BY DEF Overlapped, Paced
  <2>3. pending = [a \in Attempts |-> pending[a]]
    BY <1>1 DEF TypeOK
  <2> QED BY <2>1, <2>2, <2>3, <1>2
<1>4. CASE ~(NeedsAudit(from) /\ Reindexes)
  BY <1>4 DEF ReadHistory
<1> QED BY <1>3, <1>4

LEMMA IInvStep ==
  ASSUME Paced, IInv, [Next]_vars
  PROVE  IInv'
<1>0. /\ TypeOK
      /\ Attempts = 1 .. MaxAttempt /\ MaxAttempt \in Nat
      /\ run.att \in Attempts /\ run.att \in Nat
  BY BoundsAssumption DEF IInv, TypeOK, Attempts
<1>1. ASSUME NEW kind \in {"row", "final"}, Emit(kind) PROVE IInv'
  <2>1. /\ Publish(<<kind>>, run.att)
        /\ run' = [run EXCEPT !.left = @ - 1] /\ run.pc = "turn" /\ run.left > 0
    BY <1>1 DEF Emit
  <2>3. /\ run' \in [pc : {"turn", "asked", "waiting", "accepting", "queued", "ending", "over"},
                      att : Attempts, left : Nat]
        /\ run'.pc = "turn" /\ run'.att = run.att
    <3>1. run.left - 1 \in Nat
      BY <2>1, <1>0 DEF TypeOK
    <3> QED BY <3>1, <2>1, <1>0 DEF TypeOK
  <2>2. <<kind>> \in Seq(Kinds)
    BY DEF Kinds
  <2> QED BY <2>1, <2>2, <2>3, <1>0, PublishKeeps DEF Upcoming
<1>2. ASSUME Ask PROVE IInv'
  <2>1. /\ Publish(<<"prompted", "waiting_user">>, run.att)
        /\ run' = [run EXCEPT !.pc = "asked"] /\ run.pc = "turn" /\ run.att < MaxAttempt
    BY <1>2 DEF Ask
  <2>2. <<"prompted", "waiting_user">> \in Seq(Kinds)
    BY DEF Kinds
  <2> QED BY <2>1, <2>2, <1>0, PublishKeeps DEF TypeOK, Upcoming
<1>3. ASSUME Wait PROVE IInv'
  <2>1. /\ run.pc = "asked" /\ run' = [run EXCEPT !.pc = "waiting"]
        /\ UNCHANGED <<rows, memory, pending, file>>
    BY <1>3 DEF Wait, Move
  <2>2. run'.pc = "waiting" /\ run'.att = run.att
    BY <2>1, <1>0 DEF TypeOK
  <2>3. run' \in [pc : {"turn", "asked", "waiting", "accepting", "queued", "ending", "over"},
                   att : Attempts, left : Nat]
    BY <2>1, <1>0 DEF TypeOK
  <2>4. Upcoming <= Upcoming'
    BY <2>1, <2>2, <1>0 DEF Upcoming
  <2> QED BY <2>1, <2>2, <2>3, <2>4, <1>0, MoveKeeps DEF TypeOK
<1>4. ASSUME Reply PROVE IInv'
  <2>1. /\ run.pc = "waiting" /\ run' = [run EXCEPT !.pc = "accepting"]
        /\ UNCHANGED <<rows, memory, pending, file>>
    BY <1>4 DEF Reply, Move
  <2>2. run'.pc = "accepting" /\ run'.att = run.att
    BY <2>1, <1>0 DEF TypeOK
  <2>3. run' \in [pc : {"turn", "asked", "waiting", "accepting", "queued", "ending", "over"},
                   att : Attempts, left : Nat]
    BY <2>1, <1>0 DEF TypeOK
  <2>4. Upcoming <= Upcoming'
    BY <2>1, <2>2, <1>0 DEF Upcoming
  <2> QED BY <2>1, <2>2, <2>3, <2>4, <1>0, MoveKeeps DEF TypeOK
<1>5. ASSUME Accept PROVE IInv'
  <2>1. /\ Publish(<<"accepted">>, run.att + 1)
        /\ run' = [run EXCEPT !.pc = "queued"] /\ run.pc = "accepting"
    BY <1>5 DEF Accept
  <2>2. <<"accepted">> \in Seq(Kinds)
    BY DEF Kinds
  <2>3. run.att + 1 \in Attempts
    BY <2>1, <1>0 DEF TypeOK
  <2> QED BY <2>1, <2>2, <2>3, <1>0, PublishKeeps DEF TypeOK, Upcoming
<1>6. ASSUME StartTurn PROVE IInv'
  <2>1. run.att + 1 \in Attempts
    BY <1>6, <1>0 DEF StartTurn, TypeOK
  <2> QED BY <2>1, <1>6, <1>0, BoundsAssumption, MoveKeeps DEF StartTurn, TypeOK, Upcoming
<1>7. ASSUME End PROVE IInv'
  <2>1. /\ run.pc = "turn" /\ run' = [run EXCEPT !.pc = "ending"]
        /\ UNCHANGED <<rows, memory, pending, file>>
    BY <1>7 DEF End, Move
  <2>2. run'.pc = "ending" /\ run'.att = run.att
    BY <2>1, <1>0 DEF TypeOK
  <2>3. run' \in [pc : {"turn", "asked", "waiting", "accepting", "queued", "ending", "over"},
                   att : Attempts, left : Nat]
    BY <2>1, <1>0 DEF TypeOK
  <2>4. Upcoming <= Upcoming'
    BY <2>1, <2>2, <1>0 DEF Upcoming
  <2> QED BY <2>1, <2>2, <2>3, <2>4, <1>0, MoveKeeps DEF TypeOK
<1>8. ASSUME NEW kind \in {"succeeded", "failed"}, AnnounceEnd(kind) PROVE IInv'
  <2>1. /\ Publish(<<kind>>, run.att)
        /\ run' = [run EXCEPT !.pc = "over"] /\ run.pc = "ending"
    BY <1>8 DEF AnnounceEnd
  <2>2. <<kind>> \in Seq(Kinds)
    BY DEF Kinds
  <2> QED BY <2>1, <2>2, <1>0, PublishKeeps DEF TypeOK, Upcoming
<1>9. ASSUME NEW a \in Attempts, Flush(a) PROVE IInv'
  BY <1>9, FlushKeeps
<1>10. ASSUME Crash PROVE IInv'
  BY <1>10, CrashKeeps
<1>11. ASSUME UNCHANGED <<run, rows, memory, pending, file>> PROVE IInv'
  BY <1>11, <1>0, MoveKeeps DEF TypeOK, Upcoming
<1>12. ASSUME Expire PROVE IInv'
  BY <1>12, <1>11 DEF Expire
<1>13. ASSUME NEW r \in Readers,
              Connect(r) \/ Subscribe(r) \/ Pop(r) \/ CatchUp(r) \/ CheckStatus(r) \/ Disconnect(r)
       PROVE  IInv'
  <2>1. CASE Connect(r)
    BY <2>1, <1>11, ReadHistoryChangesNothing DEF Connect
  <2>2. CASE CatchUp(r)
    BY <2>2, <1>11, ReadHistoryChangesNothing DEF CatchUp
  <2>3. CASE Subscribe(r)
    BY <2>3, <1>11 DEF Subscribe
  <2>4. CASE Pop(r)
    BY <2>4, <1>11 DEF Pop
  <2>5. CASE CheckStatus(r)
    BY <2>5, <1>11 DEF CheckStatus
  <2>6. CASE Disconnect(r)
    BY <2>6, <1>11 DEF Disconnect
  <2> QED BY <1>13, <2>1, <2>2, <2>3, <2>4, <2>5, <2>6
<1>14. CASE UNCHANGED vars
  BY <1>14, <1>11 DEF vars
<1> QED BY <1>1, <1>2, <1>3, <1>4, <1>5, <1>6, <1>7, <1>8, <1>9, <1>10, <1>12, <1>13, <1>14
    DEF Next

-----------------------------------------------------------------------------
(* The files keep the seqs the rows were published with, whatever readers  *)
(* rewrite them and whichever lives appended to them, for any number of    *)
(* readers, attempts, rows and crashes (reindex_fcmp_global_seq,           *)
(* _bootstrap_run).                                                        *)
THEOREM FilesAreFaithful == Paced => (Spec => []MirrorKeepsSeq)
<1> SUFFICES ASSUME Paced PROVE Spec => []MirrorKeepsSeq
  OBVIOUS
<1>1. Init => IInv
  BY InitIInv
<1>2. IInv /\ [Next]_vars => IInv'
  BY IInvStep
<1>3. IInv => MirrorKeepsSeq
  BY DEF IInv
<1> QED BY <1>1, <1>2, <1>3, PTL DEF Spec

(* The rows on file have the seqs 1, 2, ... without a gap, in the order of *)
(* the attempts and, within a file, of its rows (_bootstrap_run,           *)
(* FcmpAuditMirrorWriter).                                                 *)
SeqsWithoutGaps == FilesSorted /\ \E n \in Nat : FileSeqs = 1 .. n

THEOREM FilesAreInOrder == Paced => (Spec => []SeqsWithoutGaps)
<1> SUFFICES ASSUME Paced PROVE Spec => []SeqsWithoutGaps
  OBVIOUS
<1>1. Init => IInv
  BY InitIInv
<1>2. IInv /\ [Next]_vars => IInv'
  BY IInvStep
<1>3. IInv => SeqsWithoutGaps
  BY DEF IInv, Mirror, SeqsWithoutGaps
<1> QED BY <1>1, <1>2, <1>3, PTL DEF Spec

(* A file only grows at its end: no reader that writes one back, and no    *)
(* restart, takes a row away or changes one (reindex_fcmp_global_seq,      *)
(* _append_text_sync).                                                     *)
FilesOnlyGrow == \A a \in Attempts : IsPrefix(file[a], file'[a])

LEMMA SameFilesGrow ==
  ASSUME TypeOK, file' = file
  PROVE  FilesOnlyGrow
<1>1. \A a \in Attempts : Len(file[a]) \in Nat /\ SubSeq(file[a], 1, Len(file[a])) = file[a]
  <2> SUFFICES ASSUME NEW a \in Attempts
               PROVE  Len(file[a]) \in Nat /\ SubSeq(file[a], 1, Len(file[a])) = file[a]
    OBVIOUS
  <2> DEFINE f == file[a]
  <2>1. f \in Seq(Filed)
    BY DEF TypeOK
  <2> HIDE DEF f
  <2>2. Len(f) \in Nat /\ SubSeq(f, 1, Len(f)) = f
    BY <2>1
  <2> QED BY <2>2 DEF f
<1> QED BY <1>1 DEF FilesOnlyGrow, IsPrefix

LEMMA StepGrowsFiles ==
  ASSUME Paced, IInv, [Next]_vars
  PROVE  FilesOnlyGrow
<1>1. TypeOK
  BY DEF IInv
<1>2. ASSUME NEW a \in Attempts, Flush(a) PROVE FilesOnlyGrow
  <2>1. PICK s : file' = [file EXCEPT ![a] = @ \o s] /\ s \in Seq(Filed)
    <3>1. PICK c \in 1 .. Len(pending[a]) :
            file' = [file EXCEPT ![a] = @ \o [i \in 1 .. c |->
                      [id |-> pending[a][i], seq |-> rows[pending[a][i]].seq]]]
      BY <1>2 DEF Flush
    <3>2. c \in Nat /\ c <= Len(pending[a]) /\ DOMAIN pending[a] = 1 .. Len(pending[a])
      BY <1>1 DEF TypeOK
    <3>3. \A i \in 1 .. c : pending[a][i] \in 1 .. Len(rows)
      <4>1. PICK n \in Nat, m \in Nat : Mirror(n, m) /\ Backlog(n, m)
        BY DEF IInv
      <4>2. \A i \in 1 .. c : i \in DOMAIN pending[a]
        BY <3>2
      <4>3. \A i \in 1 .. c : pending[a][i] \in m+1 .. Len(rows)
        BY <4>1, <4>2 DEF Backlog
      <4>4. \A i \in m+1 .. Len(rows) : i \in 1 .. Len(rows)
        BY <1>1 DEF TypeOK
      <4> QED BY <4>3, <4>4
    <3>4. \A i \in 1 .. Len(rows) : rows[i].seq \in Nat /\ i \in Nat
      <4>1. \A i \in 1 .. Len(rows) : rows[i] \in Row
        BY <1>1 DEF TypeOK
      <4> QED BY <4>1 DEF Row
    <3>5. \A i \in 1 .. c : [id |-> pending[a][i], seq |-> rows[pending[a][i]].seq] \in Filed
      BY <3>3, <3>4 DEF Filed
    <3>6. [i \in 1 .. c |-> [id |-> pending[a][i], seq |-> rows[pending[a][i]].seq]]
            \in Seq(Filed)
      BY <3>2, <3>5
    <3> QED BY <3>1, <3>6
  <2> SUFFICES ASSUME NEW b \in Attempts PROVE IsPrefix(file[b], file'[b])
    BY DEF FilesOnlyGrow
  <2> DEFINE f == file[b]
  <2>2. f \in Seq(Filed)
    BY <1>1 DEF TypeOK
  <2>3. CASE b = a
    <3>1. file'[b] = f \o s
      BY <2>1, <2>3, <1>1 DEF TypeOK
    <3> HIDE DEF f
    <3>2. IsPrefix(f, f \o s)
      BY <2>1, <2>2, Concatenated DEF IsPrefix
    <3> QED BY <3>1, <3>2 DEF f
  <2>4. CASE b # a
    <3>1. file'[b] = f
      BY <2>1, <2>4, <1>1 DEF TypeOK
    <3> HIDE DEF f
    <3>2. IsPrefix(f, f)
      BY <2>2 DEF IsPrefix
    <3> QED BY <3>1, <3>2 DEF f
  <2> QED BY <2>3, <2>4
<1>3. ASSUME NEW kinds, NEW a, Publish(kinds, a) PROVE file' = file
  BY <1>3 DEF Publish
<1>4. ASSUME NEW kind, Emit(kind) \/ AnnounceEnd(kind) PROVE file' = file
  BY <1>3, <1>4 DEF Emit, AnnounceEnd
<1>5. CASE Ask \/ Accept
  BY <1>3, <1>5, <1>1, SameFilesGrow DEF Ask, Accept
<1>6. CASE Wait \/ Reply \/ StartTurn \/ End \/ Expire \/ Crash \/ UNCHANGED vars
  <2>1. file' = file
    BY <1>6 DEF Wait, Reply, Move, StartTurn, End, Expire, Crash, vars
  <2> QED BY <2>1, <1>1, SameFilesGrow
<1>7. ASSUME NEW r \in Readers,
             Connect(r) \/ Subscribe(r) \/ Pop(r) \/ CatchUp(r) \/ CheckStatus(r) \/ Disconnect(r)
      PROVE  FilesOnlyGrow
  <2>1. CASE Connect(r) \/ CatchUp(r)
    <3>1. file' = file
      BY <2>1, ReadHistoryChangesNothing DEF Connect, CatchUp
    <3> QED BY <3>1, <1>1, SameFilesGrow
  <2>2. CASE Subscribe(r) \/ Pop(r) \/ CheckStatus(r) \/ Disconnect(r)
    <3>1. file' = file
      BY <2>2 DEF Subscribe, Pop, CheckStatus, Disconnect
    <3> QED BY <3>1, <1>1, SameFilesGrow
  <2> QED BY <1>7, <2>1, <2>2
<1> QED BY <1>1, <1>2, <1>4, <1>5, <1>6, <1>7, SameFilesGrow DEF Next

THEOREM FilesAreAppendOnly == Paced => (Spec => [][FilesOnlyGrow]_vars)
<1> SUFFICES ASSUME Paced PROVE Spec => [][FilesOnlyGrow]_vars
  OBVIOUS
<1>1. Init => IInv
  BY InitIInv
<1>2. IInv /\ [Next]_vars => IInv'
  BY IInvStep
<1>3. IInv /\ [Next]_vars => [FilesOnlyGrow]_vars
  BY StepGrowsFiles
<1> QED BY <1>1, <1>2, <1>3, PTL DEF Spec

-----------------------------------------------------------------------------
(***************************************************************************)
(* What the readers rely on besides (see Windows): no row between a first  *)
(* read and the subscription, files that are read only while the ring has  *)
(* the attempt that runs, and no cursor of an earlier server.              *)
(***************************************************************************)
Watched == Rush \subseteq {"slow_end"}

\* The rows that no crash has lost: their seqs are 1, 2, ...
Kept == Ids \ gone
Numbering ==
  /\ gone \subseteq Ids
  /\ \A i, j \in Kept : i < j => rows[i].seq < rows[j].seq
  /\ {rows[i].seq : i \in Kept} = 1 .. NextSeq - 1
\* They are on file, each with its attempt, or its writer has them.
Stored ==
  /\ \A a \in Attempts : \A k \in DOMAIN file[a] :
       file[a][k].id \in Kept /\ rows[file[a][k].id].att = a
  /\ \A a \in Attempts : \A k \in DOMAIN pending[a] : pending[a][k] \in Kept
  /\ \A i \in Kept : \/ OnFile(i)
                     \/ \E k \in DOMAIN pending[rows[i].att] : pending[rows[i].att][k] = i
\* The ring has the last rows, and those it has not are on file.
RingIsLast ==
  /\ journal \in Seq(Nat)
  /\ \A k \in DOMAIN journal :
       journal[k] = Len(rows) - Len(journal) + k /\ journal[k] \in Kept
  /\ \A i \in Kept : i \in Ring \/ OnFile(i)

Batches == SUBSET (Nat \X Nat)
Client == [pc : {"off", "first", "pop", "catch", "check", "ended"},
           cursor : Nat, queue : Seq(Nat), batch : Batches,
           got : Seq(Nat), idle : Nat, emitted : BOOLEAN, connects : Nat]

\* A reader has been sent the rows up to its cursor.  What it read first is the rest.
Sorted(s) == \A k, l \in DOMAIN s : k < l => s[k] < s[l]
UpToSeq(c) == {i \in Kept : rows[i].seq <= c}
Beyond(c) == {i \in Kept : rows[i].seq > c}
Has(s, c) ==
  /\ c \in Nat /\ c < NextSeq
  /\ s \in Seq(Nat) /\ Sorted(s)
  /\ {s[k] : k \in DOMAIN s} = UpToSeq(c)
Got(rd) == Has(rd.got, rd.cursor) /\ (rd.pc = "first" => rd.batch = Live(Beyond(rd.cursor)))

\* Between a catch-up and the next row taken, its queue has the rows beyond
\* the cursor without a gap, and all of them unless it is full.
NoGap(q, c) ==
  /\ \A k \in DOMAIN q : \A i \in Beyond(c) :
       rows[i].seq < rows[q[k]].seq => \E l \in DOMAIN q : l < k /\ q[l] = i
  /\ Len(q) < QueueSize => \A i \in Beyond(c) : \E l \in DOMAIN q : q[l] = i
QueueOK(rd) ==
  /\ Len(rd.queue) <= QueueSize
  /\ \A k \in DOMAIN rd.queue : rd.queue[k] \in Kept
  /\ rd.pc \in {"pop", "check"} => NoGap(rd.queue, rd.cursor)

Base == IInv /\ Numbering /\ Stored /\ RingIsLast
ReaderOK(r) == Got(reader[r]) /\ QueueOK(reader[r])
Followed == reader \in [Readers -> Client] /\ \A r \in Readers : ReaderOK(r)

-----------------------------------------------------------------------------
(* Seqs *)

LEMMA RowFacts ==
  ASSUME IInv
  PROVE  /\ Len(rows) \in Nat /\ Ids = 1 .. Len(rows)
         /\ \A i \in Ids : i \in Nat /\ rows[i].seq \in Nat /\ rows[i].att \in Attempts
         /\ NextSeq \in Nat /\ NextSeq > 0
         /\ Attempts \subseteq Nat
<1>1. TypeOK
  BY DEF IInv
<1>2. Len(rows) \in Nat /\ Ids = 1 .. Len(rows) /\ \A i \in Ids : rows[i] \in Row
  BY <1>1 DEF TypeOK, Ids
<1>3. NextSeq \in Nat /\ NextSeq > 0
  BY <1>1, NextSeqFollows DEF IInv
<1> QED BY <1>2, <1>3 DEF Row, Attempts

LEMMA KeptFacts ==
  ASSUME IInv, Numbering
  PROVE  /\ \A i \in Kept : i \in Nat /\ i >= 1 /\ i <= Len(rows)
         /\ \A i \in Kept : rows[i].seq \in Nat /\ rows[i].seq >= 1 /\ rows[i].seq < NextSeq
         /\ \A i \in Kept : rows[i].att \in Attempts
         /\ \A s \in 1 .. NextSeq - 1 : \E i \in Kept : rows[i].seq = s
         /\ \A i, j \in Kept : rows[i].seq = rows[j].seq => i = j
         /\ \A i, j \in Kept : rows[i].seq < rows[j].seq <=> i < j
<1>1. \A i \in Kept : i \in Ids
  BY DEF Kept
<1>2. \A i \in Kept : i \in Nat /\ i >= 1 /\ i <= Len(rows)
  BY <1>1, RowFacts
<1>3. \A i \in Kept : rows[i].seq \in {rows[j].seq : j \in Kept}
  OBVIOUS
<1>4. \A i \in Kept : rows[i].seq \in 1 .. NextSeq - 1
  BY <1>3 DEF Numbering
<1>5. \A i \in Kept : rows[i].seq \in Nat /\ rows[i].seq >= 1 /\ rows[i].seq < NextSeq
  BY <1>4, RowFacts
<1>6. \A s \in 1 .. NextSeq - 1 : \E i \in Kept : rows[i].seq = s
  BY DEF Numbering
<1>7. \A i, j \in Kept : i < j => rows[i].seq < rows[j].seq
  BY DEF Numbering
<1>8. \A i, j \in Kept : i < j \/ i = j \/ j < i
  BY <1>2
<1>9. \A i, j \in Kept : rows[i].seq = rows[j].seq => i = j
  BY <1>5, <1>7, <1>8
<1>10. \A i, j \in Kept : rows[i].seq < rows[j].seq <=> i < j
  BY <1>5, <1>7, <1>8
<1> QED BY <1>1, <1>2, <1>5, <1>6, <1>9, <1>10, RowFacts

\* Some rows of consecutive seqs, and how many they are.
LEMMA LiveCounted ==
  ASSUME IInv, Numbering, NEW c \in Nat, NEW d \in Nat, c <= d, d < NextSeq,
         NEW P, P = Live({i \in Kept : c < rows[i].seq /\ rows[i].seq <= d})
  PROVE  IsFiniteSet(P) /\ Cardinality(P) = d - c
<1> DEFINE g == [p \in P |-> p[1]]
<1>1. \A p \in P : \E i \in Kept : p = <<rows[i].seq, i>> /\ c < rows[i].seq /\ rows[i].seq <= d
  BY DEF Live
<1>2. \A i \in Kept : c < rows[i].seq /\ rows[i].seq <= d => <<rows[i].seq, i>> \in P
  BY DEF Live
<1>3. ASSUME NEW p \in P PROVE g[p] \in c+1 .. d
  BY <1>1, <1>3, KeptFacts
<1>4. ASSUME NEW p \in P, NEW q \in P, g[p] = g[q] PROVE p = q
  <2>1. PICK i \in Kept : p = <<rows[i].seq, i>>
    BY <1>1
  <2>2. PICK j \in Kept : q = <<rows[j].seq, j>>
    BY <1>1
  <2>3. rows[i].seq = rows[j].seq
    BY <2>1, <2>2, <1>4
  <2> QED BY <2>1, <2>2, <2>3, KeptFacts
<1>5. ASSUME NEW s \in c+1 .. d PROVE \E p \in P : g[p] = s
  <2>1. s \in 1 .. NextSeq - 1 /\ c < s /\ s <= d
    BY RowFacts
  <2>2. PICK i \in Kept : rows[i].seq = s
    BY <2>1, KeptFacts
  <2>3. <<s, i>> \in P
    BY <2>1, <2>2, <1>2
  <2> QED BY <2>3
<1>6. g \in [P -> c+1 .. d]
  BY <1>3
<1> HIDE DEF g
<1>7. g \in Injection(P, c+1 .. d) /\ g \in Surjection(P, c+1 .. d)
  BY <1>6, <1>4, <1>5 DEF Injection, Surjection, IsInjective
<1>8. IsFiniteSet(c+1 .. d) /\ Cardinality(c+1 .. d) = d - c
  <2>0. c+1 \in Int /\ d \in Int
    OBVIOUS
  <2>1. Cardinality(c+1 .. d) = IF c+1 > d THEN 0 ELSE d - (c+1) + 1
    BY <2>0, FS_Interval
  <2>2. IsFiniteSet(c+1 .. d)
    BY <2>0, FS_Interval
  <2> QED BY <2>1, <2>2
<1> QED BY <1>7, <1>8, FS_Injection, FS_Surjection, FS_CardinalityType

\* A reader that is sent the rows up to seq d has those rows, in their order.
Window(c, d) == {i \in Kept : c < rows[i].seq /\ rows[i].seq <= d}
After(P, c) == {p \in P : p[1] > c}
Advanced(rd, g, d) == [rd EXCEPT !.cursor = d, !.got = g, !.emitted = @ \/ rd.cursor < d]

LEMMA SentRows ==
  ASSUME IInv, Numbering, NEW rd, NEW P, NEW d \in Nat,
         Has(rd.got, rd.cursor), rd.cursor <= d, d < NextSeq,
         After(P, rd.cursor) = Live(Window(rd.cursor, d))
  PROVE  \E g : Has(g, d) /\ Sent(rd, P) = Advanced(rd, g, d)
<1> DEFINE c == rd.cursor
           new == {p \in P : p[1] > rd.cursor}
           Place(p) == Cardinality({q \in new : q[1] <= p[1]})
           ids == [i \in 1 .. Cardinality(new) |-> CHOOSE p \in new : Place(p) = i]
           t == [i \in DOMAIN ids |-> ids[i][2]]
<1>1. /\ c \in Nat /\ c < NextSeq /\ c <= d
      /\ new = Live({i \in Kept : c < rows[i].seq /\ rows[i].seq <= d})
  BY DEF Has, After, Window
<1>2. IsFiniteSet(new) /\ Cardinality(new) = d - c
  BY <1>1, LiveCounted
<1> HIDE DEF c, new
<1>3. /\ \A p \in new : \E i \in Kept : p = <<rows[i].seq, i>> /\ c < rows[i].seq /\ rows[i].seq <= d
      /\ \A i \in Kept : c < rows[i].seq /\ rows[i].seq <= d => <<rows[i].seq, i>> \in new
  BY <1>1 DEF Live
<1>4. ASSUME NEW p \in new PROVE Place(p) = p[1] - c /\ p[1] \in c+1 .. d
  <2>1. PICK j \in Kept : p = <<rows[j].seq, j>> /\ c < rows[j].seq /\ rows[j].seq <= d
    BY <1>3
  <2>2. p[1] = rows[j].seq /\ rows[j].seq \in Nat /\ rows[j].seq < NextSeq
    BY <2>1, KeptFacts
  <2> DEFINE b == rows[j].seq
             Q == {q \in new : q[1] <= b}
             S == Live({i \in Kept : c < rows[i].seq /\ rows[i].seq <= b})
  <2>3. Q \subseteq S
    <3> SUFFICES ASSUME NEW q \in new, q[1] <= b PROVE q \in S
      OBVIOUS
    <3>1. PICK i \in Kept : q = <<rows[i].seq, i>> /\ c < rows[i].seq
      BY <1>3
    <3> QED BY <3>1 DEF Live
  <2>4. S \subseteq Q
    <3> SUFFICES ASSUME NEW i \in Kept, c < rows[i].seq, rows[i].seq <= b
                 PROVE  <<rows[i].seq, i>> \in Q
      BY DEF Live
    <3>1. rows[i].seq \in Nat /\ rows[i].seq <= d
      BY <2>1, <2>2, KeptFacts
    <3> QED BY <3>1, <1>3
  <2>5. Cardinality(Q) = b - c
    <3>1. Q = S
      BY <2>3, <2>4
    <3> HIDE DEF Q
    <3>2. c <= b /\ b < NextSeq /\ b \in Nat
      BY <2>1, <2>2, <1>1
    <3> HIDE DEF b
    <3> QED BY <3>1, <3>2, <1>1, LiveCounted
  <2> QED BY <2>1, <2>2, <2>5, <1>1
<1> HIDE DEF Place
<1>5. ASSUME NEW i \in 1 .. d - c
      PROVE  ids[i] \in new /\ ids[i][1] = c + i
  <2>1. c + i \in 1 .. NextSeq - 1 /\ c < c + i /\ c + i <= d
    BY <1>1, RowFacts
  <2>2. PICK j \in Kept : rows[j].seq = c + i
    BY <2>1, KeptFacts
  <2>3. <<rows[j].seq, j>> \in new
    BY <2>1, <2>2, <1>3
  <2>4. Place(<<rows[j].seq, j>>) = i
    BY <2>2, <2>3, <1>4, <1>1
  <2>5. ids[i] = CHOOSE p \in new : Place(p) = i
    BY <1>2
  <2>6. ids[i] \in new /\ Place(ids[i]) = i
    BY <2>3, <2>4, <2>5
  <2> HIDE DEF ids
  <2>7. ids[i][1] - c = i /\ ids[i][1] \in c+1 .. d
    BY <2>6, <1>4
  <2> QED BY <2>6, <2>7, <1>1
<1>6. DOMAIN ids = 1 .. d - c /\ d - c \in Nat
  BY <1>1, <1>2
<1> HIDE DEF ids
<1>7. ASSUME NEW i \in 1 .. d - c
      PROVE  ids[i][2] \in Kept /\ rows[ids[i][2]].seq = c + i
  <2>1. PICK j \in Kept : ids[i] = <<rows[j].seq, j>>
    BY <1>5, <1>3
  <2>2. ids[i][1] = rows[j].seq /\ ids[i][2] = j
    BY <2>1
  <2> QED BY <2>2, <1>5
<1>8. /\ t \in Seq(Nat) /\ Len(t) = d - c
      /\ \A i \in 1 .. d - c : t[i] \in Kept /\ rows[t[i]].seq = c + i
  BY <1>6, <1>7, KeptFacts
<1> HIDE DEF t
<1> DEFINE s == rd.got
           g == s \o t
           n == Len(s)
<1>9. /\ s \in Seq(Nat) /\ Sorted(s) /\ n \in Nat /\ DOMAIN s = 1 .. n
      /\ {s[k] : k \in DOMAIN s} = UpToSeq(c)
  BY DEF Has, c
<1> HIDE DEF s
<1>10. /\ g \in Seq(Nat) /\ Len(g) = n + (d - c)
       /\ \A k \in 1 .. n : g[k] = s[k]
       /\ \A k \in n+1 .. n + (d - c) : g[k] = t[k - n]
  BY <1>8, <1>9, Concatenated
<1>11. \A k \in 1 .. n : g[k] \in Kept /\ rows[g[k]].seq <= c
  BY <1>9, <1>10 DEF UpToSeq
<1>12. \A k \in n+1 .. n + (d - c) : g[k] \in Kept /\ rows[g[k]].seq = c + (k - n)
  <2>1. \A k \in n+1 .. n + (d - c) : k - n \in 1 .. d - c
    BY <1>6, <1>9
  <2> QED BY <2>1, <1>8, <1>10
<1>13. DOMAIN g = 1 .. n + (d - c)
  BY <1>10, <1>9, <1>6
<1> HIDE DEF g, n
<1>14. Sorted(g)
  <2> SUFFICES ASSUME NEW k \in DOMAIN g, NEW l \in DOMAIN g, k < l PROVE g[k] < g[l]
    BY DEF Sorted
  <2>1. k \in Nat /\ l \in Nat /\ k >= 1 /\ l <= n + (d - c)
    BY <1>13, <1>9, <1>6
  <2>2. CASE l <= n
    <3>1. k \in 1 .. n /\ l \in 1 .. n
      BY <2>1, <2>2, <1>9
    <3> QED BY <3>1, <1>9, <1>10 DEF Sorted
  <2>3. CASE k <= n /\ n < l
    <3>1. k \in 1 .. n /\ l \in n+1 .. n + (d - c)
      BY <2>1, <2>3, <1>9, <1>6
    <3>2. /\ g[k] \in Kept /\ rows[g[k]].seq \in Nat /\ rows[g[k]].seq <= c
          /\ g[l] \in Kept /\ rows[g[l]].seq = c + (l - n)
      BY <3>1, <1>11, <1>12, KeptFacts
    <3>3. rows[g[k]].seq < rows[g[l]].seq
      BY <3>2, <2>1, <2>3, <1>1, <1>9
    <3> QED BY <3>2, <3>3, KeptFacts
  <2>4. CASE n < k
    <3>1. k \in n+1 .. n + (d - c) /\ l \in n+1 .. n + (d - c)
      BY <2>1, <2>4, <1>9, <1>6
    <3>2. g[k] \in Kept /\ g[l] \in Kept /\ rows[g[k]].seq < rows[g[l]].seq
      BY <3>1, <1>12, <1>1, <1>9
    <3> QED BY <3>2, KeptFacts
  <2> QED BY <2>1, <2>2, <2>3, <2>4, <1>9
<1>15. {g[k] : k \in DOMAIN g} = UpToSeq(d)
  <2>1. ASSUME NEW k \in DOMAIN g PROVE g[k] \in UpToSeq(d)
    <3>1. k \in 1 .. n \/ k \in n+1 .. n + (d - c)
      BY <1>13, <1>9, <1>6
    <3>2. CASE k \in 1 .. n
      BY <3>2, <1>11, <1>1, KeptFacts DEF UpToSeq
    <3>3. CASE k \in n+1 .. n + (d - c)
      <4>1. c + (k - n) <= d
        BY <3>3, <1>1, <1>9
      <4> QED BY <4>1, <3>3, <1>12 DEF UpToSeq
    <3> QED BY <3>1, <3>2, <3>3
  <2>2. ASSUME NEW i \in UpToSeq(d) PROVE \E k \in DOMAIN g : g[k] = i
    <3>1. i \in Kept /\ rows[i].seq \in Nat /\ rows[i].seq <= d
      BY KeptFacts DEF UpToSeq
    <3>2. CASE rows[i].seq <= c
      <4>1. PICK k \in 1 .. n : s[k] = i
        BY <3>1, <3>2, <1>9 DEF UpToSeq
      <4>2. k \in DOMAIN g
        BY <1>13, <1>9, <1>6
      <4> QED BY <4>1, <4>2, <1>10
    <3>3. CASE c < rows[i].seq
      <4> DEFINE k == n + (rows[i].seq - c)
      <4>1. k \in n+1 .. n + (d - c) /\ c + (k - n) = rows[i].seq
        <5> DEFINE x == rows[i].seq
        <5>1. x \in Nat /\ c < x /\ x <= d /\ n \in Nat /\ c \in Nat /\ k = n + (x - c)
          BY <3>1, <3>3, <1>1, <1>9
        <5> HIDE DEF x, k
        <5>2. k \in n+1 .. n + (d - c) /\ c + (k - n) = x
          BY <5>1
        <5> QED BY <5>2 DEF x
      <4>2. g[k] \in Kept /\ rows[g[k]].seq = rows[i].seq
        BY <4>1, <1>12
      <4>3. g[k] = i
        BY <4>2, <3>1, KeptFacts
      <4>4. k \in DOMAIN g
        BY <4>1, <1>13, <1>9, <1>6
      <4> QED BY <4>3, <4>4
    <3> QED BY <3>1, <3>2, <3>3, <1>1
  <2> QED BY <2>1, <2>2
<1>16. Has(g, d)
  BY <1>10, <1>14, <1>15 DEF Has, g
<1>17. {p[1] : p \in new} = c+1 .. d
  <2>1. \A x \in c+1 .. d : x - c \in 1 .. d - c /\ c + (x - c) = x
    BY <1>1
  <2>2. \A x \in c+1 .. d : ids[x - c] \in new /\ ids[x - c][1] = x
    BY <2>1, <1>5
  <2> QED BY <2>2, <1>4
<1>18. Max({c} \cup {p[1] : p \in new}) = d
  <2>1. d \in {c} \cup c+1 .. d /\ \A y \in {c} \cup c+1 .. d : d >= y
    BY <1>1
  <2>2. \A x \in {c} \cup c+1 .. d : (\A y \in {c} \cup c+1 .. d : x >= y) => x = d
    BY <1>1
  <2> QED BY <2>1, <2>2, <1>17 DEF Max
<1>19. (new # {}) <=> (c < d)
  <2>1. CASE c < d
    <3>1. d \in c+1 .. d
      BY <2>1, <1>1
    <3> QED BY <2>1, <3>1, <1>17
  <2>2. CASE ~(c < d)
    <3>1. \A x \in c+1 .. d : FALSE
      BY <2>2, <1>1
    <3> QED BY <2>2, <3>1, <1>17
  <2> QED BY <2>1, <2>2
<1>20. Sent(rd, P) = [rd EXCEPT !.cursor = d, !.got = g, !.emitted = @ \/ c < d]
  <2>1. Sent(rd, P) = [rd EXCEPT !.cursor = Max({@} \cup {p[1] : p \in new}), !.got = @ \o t,
                                !.emitted = @ \/ new # {}]
    BY DEF Sent, new, ids, t, Place
  <2>2. Sent(rd, P) = [rd EXCEPT !.cursor = Max({c} \cup {p[1] : p \in new}), !.got = g,
                                !.emitted = @ \/ c < d]
    BY <2>1, <1>19 DEF c, s, g
  <2> QED BY <2>2, <1>18
<1>21. Sent(rd, P) = Advanced(rd, g, d)
  BY <1>20 DEF c, Advanced
<1> QED BY <1>16, <1>21

-----------------------------------------------------------------------------
(* Histories *)

LEMMA LivePairs ==
  ASSUME NEW S
  PROVE  /\ \A p \in Live(S) : \E i \in S : p = <<rows[i].seq, i>>
         /\ \A i \in S : <<rows[i].seq, i>> \in Live(S)
  BY DEF Live

LEMMA LiveWithin ==
  ASSUME NEW S, NEW Q, \A i \in S : <<rows[i].seq, i>> \in Q
  PROVE  Live(S) \subseteq Q
  BY DEF Live

\* Two histories of rows that are not lost never disagree.
LEMMA MergeLive ==
  ASSUME IInv, Numbering, NEW A \in SUBSET Kept, NEW B \in SUBSET Kept
  PROVE  Merge(Live(A), Live(B)) = Live(A \cup B)
<1>1. ASSUME NEW q \in Merge(Live(A), Live(B)) PROVE q \in Live(A \cup B)
  BY DEF Merge, Live
<1>2. ASSUME NEW i \in A \cup B PROVE <<rows[i].seq, i>> \in Merge(Live(A), Live(B))
  <2> DEFINE q == <<rows[i].seq, i>>
  <2>1. CASE i \in A
    BY <2>1 DEF Merge, Live
  <2>2. CASE i \notin A
    <3>1. i \in B /\ i \in Kept /\ q \in Live(B)
      BY <2>2 DEF Live
    <3>2. ASSUME NEW p \in Live(A), p[1] = q[1] PROVE FALSE
      <4>1. PICK j \in A : p = <<rows[j].seq, j>>
        BY DEF Live
      <4>2. rows[j].seq = rows[i].seq /\ j \in Kept
        BY <3>2, <4>1
      <4> QED BY <4>1, <4>2, <3>1, <2>2, KeptFacts
    <3> QED BY <3>1, <3>2 DEF Merge
  <2> QED BY <2>1, <2>2
<1>3. Live(A \cup B) \subseteq Merge(Live(A), Live(B))
  BY <1>2, LiveWithin
<1> QED BY <1>1, <1>3

\* The ring has the rows from a seq on.
LEMMA RingFacts ==
  ASSUME Base
  PROVE  /\ Ring \subseteq Kept
         /\ Ring # {} =>
              \E a \in 1 .. NextSeq - 1 : \A i \in Kept : i \in Ring <=> rows[i].seq >= a
<1> DEFINE J == Len(journal)
<1>1. /\ IInv /\ Numbering
      /\ J \in Nat /\ DOMAIN journal = 1 .. J
      /\ \A k \in 1 .. J : journal[k] = Len(rows) - J + k /\ journal[k] \in Kept
  BY DEF Base, RingIsLast
<1>2. Ring \subseteq Kept
  BY <1>1 DEF Ring
<1>3. ASSUME Ring # {}
      PROVE  \E a \in 1 .. NextSeq - 1 : \A i \in Kept : i \in Ring <=> rows[i].seq >= a
  <2>1. 1 \in 1 .. J
    BY <1>1, <1>3 DEF Ring
  <2> DEFINE j == journal[1]
  <2>2. j \in Kept /\ j = Len(rows) - J + 1 /\ Len(rows) \in Nat
    BY <2>1, <1>1, RowFacts
  <2> HIDE DEF J
  <2>3. \A i \in Kept : i \in Ring <=> i >= j
    <3> SUFFICES ASSUME NEW i \in Kept PROVE i \in Ring <=> i >= j
      OBVIOUS
    <3>1. i \in Nat /\ i <= Len(rows)
      BY <1>1, KeptFacts
    <3>2. ASSUME i \in Ring PROVE i >= j
      <4>1. PICK k \in 1 .. J : journal[k] = i
        BY <3>2, <1>1 DEF Ring
      <4> QED BY <4>1, <2>2, <1>1
    <3>3. ASSUME i >= j PROVE i \in Ring
      <4> DEFINE k == i - (Len(rows) - J)
      <4>1. k \in 1 .. J /\ Len(rows) - J + k = i
        BY <3>1, <3>3, <2>2, <1>1
      <4>2. journal[k] = i
        BY <4>1, <1>1
      <4> QED BY <4>1, <4>2, <1>1 DEF Ring
    <3> QED BY <3>2, <3>3
  <2>4. \A i \in Kept : i >= j <=> rows[i].seq >= rows[j].seq
    <3> SUFFICES ASSUME NEW i \in Kept PROVE i >= j <=> rows[i].seq >= rows[j].seq
      OBVIOUS
    <3>1. /\ i \in Nat /\ j \in Nat /\ rows[i].seq \in Nat /\ rows[j].seq \in Nat
          /\ rows[i].seq < rows[j].seq <=> i < j
      BY <1>1, <2>2, KeptFacts
    <3> QED BY <3>1
  <2>5. rows[j].seq \in 1 .. NextSeq - 1
    BY <1>1, <2>2, KeptFacts, RowFacts
  <2> QED BY <2>3, <2>4, <2>5
<1> QED BY <1>2, <1>3

\* A ring that reaches down to a seq has all rows from there on.
LEMMA RingSuffices ==
  ASSUME Base, NEW from \in Nat, ~NeedsAudit(from)
  PROVE  RingFrom(from) = {i \in Kept : rows[i].seq >= from}
<1>1. IInv /\ Numbering /\ Ring # {} /\ ~(from < Floor(from))
  BY DEF Base, NeedsAudit
<1>2. PICK a \in 1 .. NextSeq - 1 : \A i \in Kept : i \in Ring <=> rows[i].seq >= a
  BY <1>1, RingFacts
<1>3. Ring \subseteq Kept /\ a \in Nat /\ NextSeq \in Nat
  BY <1>1, RingFacts, RowFacts
<1> SUFFICES ASSUME NEW i \in Kept, rows[i].seq >= from PROVE i \in Ring
  BY <1>3 DEF RingFrom
<1>4. rows[i].seq \in Nat /\ rows[i].seq < NextSeq
  BY <1>1, KeptFacts
<1>5. CASE from >= a
  BY <1>2, <1>3, <1>4, <1>5
<1>6. CASE from < a
  <2>1. PICK j \in Kept : rows[j].seq = a
    BY <1>1, <1>2, KeptFacts
  <2>2. j \in RingFrom(from)
    BY <2>1, <1>2, <1>3, <1>6 DEF RingFrom
  <2> DEFINE S == {rows[k].seq : k \in RingFrom(from)}
  <2>3. \A k \in RingFrom(from) : rows[k].seq \in Nat /\ rows[k].seq >= a
    BY <1>1, <1>2, <1>3, KeptFacts DEF RingFrom
  <2>4. a \in S /\ \A y \in S : y \in Nat /\ a <= y
    BY <2>1, <2>2, <2>3
  <2>5. Floor(from) = Min(S)
    BY <2>2 DEF Floor
  <2> HIDE DEF S
  <2>6. \A x \in S : (\A y \in S : x <= y) => x = a
    BY <2>4, <1>3
  <2>7. Min(S) = a
    BY <2>4, <2>6 DEF Min
  <2> QED BY <2>5, <2>7, <1>1, <1>6
<1> QED BY <1>3, <1>5, <1>6

\* Ring and files together give the kept rows of an attempt ...
LEMMA AttemptIsExact ==
  ASSUME Base, NEW from, "live_only" \notin Rush, "slow_mirror" \notin Rush,
         ReadHistory(from), NeedsAudit(from), NEW a \in Attempts
  PROVE  AttemptHistory(file, a) = Live({i \in Kept : rows[i].att = a})
<1> DEFINE R == {i \in Kept : rows[i].att = a}
           F == {i \in R : OnFile(i)}
           filed == {<<file[a][k].seq, file[a][k].id>> : k \in DOMAIN file[a]}
<1>1. IInv /\ Numbering /\ Stored /\ RingIsLast /\ MirrorKeepsSeq
  BY DEF Base, IInv
<1>2. /\ {i \in Kept : FromRing(rows[i].att)} \subseteq Ring
      /\ Status = "terminal" => Drained
  BY DEF ReadHistory, Kept
<1>3. RingOf(a) \subseteq R
  BY RingFacts DEF RingOf
<1>4. filed = Live(F)
  <2>1. ASSUME NEW k \in DOMAIN file[a]
        PROVE  <<file[a][k].seq, file[a][k].id>> \in Live(F)
    <3>1. file[a][k].id \in F /\ file[a][k].seq = rows[file[a][k].id].seq
      BY <1>1 DEF Stored, OnFile, MirrorKeepsSeq
    <3> QED BY <3>1 DEF Live
  <2>2. ASSUME NEW i \in F PROVE <<rows[i].seq, i>> \in filed
    <3>0. PICK b \in Attempts : \E k \in DOMAIN file[b] : file[b][k].id = i
      BY DEF OnFile
    <3>1. PICK k \in DOMAIN file[b] : file[b][k].id = i
      BY <3>0
    <3>2. b = a
      BY <3>1, <1>1 DEF Stored
    <3>3. k \in DOMAIN file[a] /\ file[a][k].id = i /\ file[a][k].seq = rows[i].seq
      BY <3>1, <3>2, <1>1 DEF MirrorKeepsSeq
    <3> QED BY <3>3
  <2>3. Live(F) \subseteq filed
    BY <2>2, LiveWithin
  <2> QED BY <2>1, <2>3
<1>5. CASE FromRing(a)
  <2>1. RingOf(a) = R
    BY <1>2, <1>3, <1>5 DEF RingOf
  <2>2. ~FromFile(a)
    BY <1>5 DEF FromFile
  <2>3. AttemptHistory(file, a) = Live(RingOf(a))
    BY <2>2 DEF AttemptHistory
  <2> QED BY <2>1, <2>3
<1>6. CASE ~FromRing(a) /\ Status = "terminal"
  <2>1. FromFile(a) /\ Drained
    BY <1>2, <1>6 DEF FromFile
  <2>2. \A i \in R : OnFile(i)
    BY <2>1, <1>1 DEF Stored, Drained
  <2>3. F = R
    BY <2>2
  <2>4. AttemptHistory(file, a) = filed
    BY <2>1, <1>6 DEF AttemptHistory
  <2> QED BY <2>3, <2>4, <1>4
<1>7. CASE ~FromRing(a) /\ Status # "terminal"
  <2>1. FromFile(a)
    BY <1>7 DEF FromFile
  <2>2. AttemptHistory(file, a) = Merge(filed, Live(RingOf(a)))
    BY <2>1, <1>7 DEF AttemptHistory
  <2>3. F \cup RingOf(a) = R
    BY <1>1, <1>3 DEF RingIsLast, RingOf
  <2>4. F \in SUBSET Kept /\ RingOf(a) \in SUBSET Kept
    BY <1>3
  <2> HIDE DEF filed, F, R
  <2> QED BY <2>2, <2>3, <2>4, <1>1, <1>4, MergeLive DEF R
<1> QED BY <1>5, <1>6, <1>7

\* ... and are numbered as they were published.
LEMMA AuditIsExact ==
  ASSUME Base, NEW from, "live_only" \notin Rush, "slow_mirror" \notin Rush,
         ReadHistory(from), NeedsAudit(from)
  PROVE  AuditHistory(file) = Live(Kept)
<1>1. IInv /\ Numbering /\ \A i \in Ids : rows[i].att \in Attempts
  BY RowFacts DEF Base
<1>2. Available \subseteq Attempts /\ \A i \in Kept : rows[i].att \in Available
  BY <1>1 DEF Available, Kept
<1>3. \A a \in Available : AttemptHistory(file, a) = Live({i \in Kept : rows[i].att = a})
  BY <1>2, AttemptIsExact
<1>4. UNION {AttemptHistory(file, a) : a \in Available} = Live(Kept)
  <2>1. UNION {AttemptHistory(file, a) : a \in Available}
          = UNION {Live({i \in Kept : rows[i].att = a}) : a \in Available}
    BY <1>3
  <2>2. UNION {Live({i \in Kept : rows[i].att = a}) : a \in Available} = Live(Kept)
    BY <1>2 DEF Live
  <2> QED BY <2>1, <2>2
<1>5. NextSeq - 1 \in Nat /\ NextSeq \in Nat
  BY <1>1, RowFacts
<1>6. Cardinality(Live(Kept)) = NextSeq - 1
  <2> DEFINE d == NextSeq - 1
  <2>1. Kept = {i \in Kept : 0 < rows[i].seq /\ rows[i].seq <= d}
    BY <1>1, <1>5, KeptFacts
  <2>2. d \in Nat /\ 0 <= d /\ d < NextSeq /\ d - 0 = d
    BY <1>5
  <2> HIDE DEF d
  <2>3. Cardinality(Live(Kept)) = d - 0
    BY <2>1, <2>2, <1>1, LiveCounted
  <2> QED BY <2>2, <2>3 DEF d
<1>7. {p[1] : p \in Live(Kept)} = {rows[i].seq : i \in Kept}
  <2>1. ASSUME NEW p \in Live(Kept) PROVE p[1] \in {rows[i].seq : i \in Kept}
    BY LivePairs
  <2>2. ASSUME NEW i \in Kept PROVE \E p \in Live(Kept) : p[1] = rows[i].seq
    <3>1. <<rows[i].seq, i>> \in Live(Kept)
      BY LivePairs
    <3> QED BY <3>1
  <2> QED BY <2>1, <2>2
<1>8. Numbered(Live(Kept)) = Live(Kept)
  BY <1>1, <1>6, <1>7 DEF Numbered, Numbering
<1> QED BY <1>4, <1>8 DEF AuditHistory

\* A reader is given the kept rows from a seq on.
LEMMA HistoryIsExact ==
  ASSUME Base, Watched, NEW from \in Nat, ReadHistory(from)
  PROVE  History(file, from) = Live({i \in Kept : rows[i].seq >= from})
<1>1. IInv /\ Numbering /\ "live_only" \notin Rush /\ "slow_mirror" \notin Rush
  BY DEF Base, Watched
<1> DEFINE H == {i \in Kept : rows[i].seq >= from}
<1>2. RingFrom(from) \in SUBSET H
  BY RingFacts DEF RingFrom
<1>3. CASE ~NeedsAudit(from)
  <2>1. History(file, from) = Live(RingFrom(from))
    BY <1>3 DEF History, Merge
  <2> QED BY <2>1, <1>3, RingSuffices
<1>4. CASE NeedsAudit(from)
  <2>1. AuditHistory(file) = Live(Kept)
    BY <1>1, <1>4, AuditIsExact
  <2>2. {p \in Live(Kept) : p[1] >= from} = Live(H)
    BY DEF Live
  <2>3. History(file, from) = Merge(Live(RingFrom(from)), Live(H))
    BY <1>4, <2>1, <2>2 DEF History
  <2>4. RingFrom(from) \cup H = H /\ H \in SUBSET Kept /\ RingFrom(from) \in SUBSET Kept
    BY <1>2
  <2> HIDE DEF H
  <2> QED BY <2>3, <2>4, <1>1, MergeLive DEF H
<1> QED BY <1>3, <1>4

-----------------------------------------------------------------------------
(* What is published, written and lost *)

LEMMA BaseFrame ==
  ASSUME Base, IInv', UNCHANGED <<rows, gone, memory, journal, pending, file>>
  PROVE  Base' /\ NextSeq' = NextSeq
<1>1. NextSeq' = NextSeq /\ Kept' = Kept /\ Ring' = Ring /\ \A i : OnFile(i)' = OnFile(i)
  BY DEF NextSeq, FileSeqs, Kept, Ids, Ring, OnFile
<1>2. Numbering'
  BY <1>1 DEF Base, Numbering, Ids
<1>3. Stored'
  BY <1>1 DEF Base, Stored
<1>4. RingIsLast'
  BY <1>1 DEF Base, RingIsLast
<1> QED BY <1>1, <1>2, <1>3, <1>4 DEF Base

LEMMA FlushKeepsBase ==
  ASSUME Base, IInv', NEW a \in Attempts, Flush(a)
  PROVE  Base' /\ NextSeq' = NextSeq
<1>0. IInv /\ TypeOK /\ Numbering /\ Stored /\ RingIsLast
  BY DEF Base, IInv
<1>1. /\ pending[a] # <<>>
      /\ UNCHANGED <<rows, gone, memory, journal>>
  BY DEF Flush
<1> DEFINE p == pending[a]
           f == file[a]
<1>2. PICK n \in 1 .. Len(p) :
        /\ file' = [file EXCEPT ![a] = @ \o [i \in 1 .. n |->
                     [id |-> pending[a][i], seq |-> rows[pending[a][i]].seq]]]
        /\ pending' = [pending EXCEPT ![a] = SubSeq(@, n + 1, Len(@))]
  BY DEF Flush
<1>3. PICK n1 \in Nat, m \in Nat : Mirror(n1, m) /\ Backlog(n1, m)
  BY <1>0 DEF IInv
<1> DEFINE t == [i \in 1 .. n |-> [id |-> p[i], seq |-> rows[p[i]].seq]]
<1>4. /\ p \in Seq(Nat) /\ f \in Seq(Filed) /\ Len(p) \in Nat /\ DOMAIN p = 1 .. Len(p)
      /\ n \in Nat /\ n >= 1 /\ n <= Len(p)
      /\ Len(f) \in Nat /\ DOMAIN f = 1 .. Len(f)
  BY <1>0, <1>2 DEF TypeOK
<1>5. \A k \in DOMAIN p : p[k] \in Kept /\ rows[p[k]].att = a
  BY <1>0, <1>3 DEF Stored, Backlog
<1>6. memory.next > 0
  <2>1. 1 \in DOMAIN p
    BY <1>4
  <2>2. p[1] \in m+1 .. Len(rows)
    BY <2>1, <1>3 DEF Backlog
  <2>3. m \in Nat /\ Len(rows) \in Nat /\ memory.next \in Nat
    BY <1>0 DEF TypeOK
  <2>4. m # Len(rows)
    BY <2>2, <2>3
  <2> QED BY <2>3, <2>4, <1>3 DEF Mirror
<1>7. NextSeq' = NextSeq /\ Kept' = Kept /\ Ring' = Ring
  BY <1>1, <1>6 DEF NextSeq, Kept, Ids, Ring
<1>8. t \in Seq(Filed) /\ Len(t) = n /\ \A i \in 1 .. n : t[i].id = p[i]
  <2>1. \A i \in 1 .. n : i \in DOMAIN p /\ p[i] \in Nat /\ rows[p[i]].seq \in Nat
    BY <1>0, <1>4, <1>5, KeptFacts
  <2>2. \A i \in 1 .. n : t[i] \in Filed /\ t[i].id = p[i]
    BY <2>1 DEF Filed
  <2>3. t \in [1 .. n -> Filed]
    BY <2>2
  <2> HIDE DEF t
  <2> QED BY <2>2, <2>3, <1>4
<1>9. /\ file'[a] = f \o t /\ pending'[a] = SubSeq(p, n + 1, Len(p))
      /\ \A b \in Attempts : b # a => file'[b] = file[b] /\ pending'[b] = pending[b]
  BY <1>0, <1>2 DEF TypeOK
<1> HIDE DEF t, p, f
<1>10. /\ Len(file'[a]) = Len(f) + n /\ DOMAIN file'[a] = 1 .. Len(f) + n
       /\ \A k \in 1 .. Len(f) : file'[a][k] = f[k]
       /\ \A k \in Len(f)+1 .. Len(f)+n : file'[a][k] = t[k - Len(f)]
  <2>1. /\ f \o t \in Seq(Filed) /\ Len(f \o t) = Len(f) + n
        /\ \A k \in 1 .. Len(f) : (f \o t)[k] = f[k]
        /\ \A k \in Len(f)+1 .. Len(f)+n : (f \o t)[k] = t[k - Len(f)]
    BY <1>4, <1>8, Concatenated
  <2>2. DOMAIN (f \o t) = 1 .. Len(f) + n
    BY <2>1
  <2> QED BY <2>1, <2>2, <1>9
<1>11. /\ DOMAIN pending'[a] = 1 .. Len(p) - n
       /\ \A k \in 1 .. Len(p) - n : pending'[a][k] = p[n + k] /\ n + k \in DOMAIN p
  BY <1>4, <1>9
<1>12. \A k \in Len(f)+1 .. Len(f)+n : k - Len(f) \in 1 .. n /\ k - Len(f) \in DOMAIN p
  BY <1>4
<1>13. \A k \in DOMAIN p : k <= n => \E l \in DOMAIN file'[a] : file'[a][l].id = p[k]
  <2> SUFFICES ASSUME NEW k \in DOMAIN p, k <= n
               PROVE  Len(f) + k \in DOMAIN file'[a] /\ file'[a][Len(f) + k].id = p[k]
    OBVIOUS
  <2>1. k \in 1 .. n /\ Len(f) + k \in Len(f)+1 .. Len(f)+n /\ Len(f) + k - Len(f) = k
    BY <1>4
  <2>2. Len(f) + k \in DOMAIN file'[a]
    BY <2>1, <1>4, <1>10
  <2> QED BY <2>1, <2>2, <1>8, <1>10
<1>14. \A k \in DOMAIN p : k > n => k - n \in DOMAIN pending'[a] /\ pending'[a][k - n] = p[k]
  <2> SUFFICES ASSUME NEW k \in DOMAIN p, k > n
               PROVE  k - n \in DOMAIN pending'[a] /\ pending'[a][k - n] = p[k]
    OBVIOUS
  <2>1. k - n \in 1 .. Len(p) - n /\ n + (k - n) = k
    BY <1>4
  <2> QED BY <2>1, <1>11
<1>15. \A i : OnFile(i) => OnFile(i)'
  <2> SUFFICES ASSUME NEW i, NEW b \in Attempts, NEW k \in DOMAIN file[b], file[b][k].id = i
               PROVE  \E l \in DOMAIN file'[b] : file'[b][l].id = i
    BY DEF OnFile
  <2>1. CASE b # a
    BY <2>1, <1>9
  <2>2. CASE b = a
    <3>1. k \in 1 .. Len(f) /\ k \in 1 .. Len(f) + n /\ file'[a][k] = file[a][k]
      BY <2>2, <1>4, <1>10 DEF f
    <3> QED BY <2>2, <3>1, <1>10
  <2> QED BY <2>1, <2>2
<1>16. \A i \in Kept : OnFile(i)' \/ \E k \in DOMAIN pending'[rows[i].att] : pending'[rows[i].att][k] = i
  <2> SUFFICES ASSUME NEW i \in Kept, ~OnFile(i)'
               PROVE  \E k \in DOMAIN pending'[rows[i].att] : pending'[rows[i].att][k] = i
    OBVIOUS
  <2>1. PICK k \in DOMAIN pending[rows[i].att] : pending[rows[i].att][k] = i
    BY <1>0, <1>15 DEF Stored
  <2>2. rows[i].att \in Attempts
    BY <1>0, KeptFacts
  <2>3. CASE rows[i].att # a
    BY <2>1, <2>2, <2>3, <1>9
  <2>4. CASE rows[i].att = a
    <3>1. k \in DOMAIN p /\ p[k] = i
      BY <2>1, <2>4 DEF p
    <3>2. ~(k <= n)
      BY <3>1, <1>13 DEF OnFile
    <3>3. k > n
      BY <3>1, <3>2, <1>4
    <3> QED BY <3>1, <3>3, <1>14, <2>4
  <2> QED BY <2>3, <2>4
<1>17. Numbering'
  BY <1>0, <1>1, <1>7 DEF Numbering, Ids
<1>18. Stored'
  <2>1. ASSUME NEW b \in Attempts, NEW k \in DOMAIN file'[b]
        PROVE  file'[b][k].id \in Kept /\ rows[file'[b][k].id].att = b
    <3>1. CASE b # a
      BY <2>1, <3>1, <1>0, <1>9 DEF Stored
    <3>2. CASE b = a /\ k \in 1 .. Len(f)
      <4>1. file'[b][k] = file[b][k] /\ k \in DOMAIN file[b]
        BY <3>2, <1>4, <1>10 DEF f
      <4> QED BY <4>1, <1>0 DEF Stored
    <3>3. CASE b = a /\ k \in Len(f)+1 .. Len(f)+n
      <4>1. file'[b][k].id = p[k - Len(f)]
        BY <3>3, <1>8, <1>10, <1>12
      <4> QED BY <4>1, <3>3, <1>5, <1>12
    <3> QED BY <3>1, <3>2, <3>3, <1>4, <1>10
  <2>2. ASSUME NEW b \in Attempts, NEW k \in DOMAIN pending'[b] PROVE pending'[b][k] \in Kept
    <3>1. CASE b # a
      BY <3>1, <1>0, <1>9 DEF Stored
    <3>2. CASE b = a
      BY <3>2, <1>5, <1>11
    <3> QED BY <3>1, <3>2
  <2> QED BY <2>1, <2>2, <1>16, <1>1, <1>7 DEF Stored
<1>19. RingIsLast'
  BY <1>0, <1>1, <1>7, <1>15 DEF RingIsLast
<1> QED BY <1>7, <1>17, <1>18, <1>19 DEF Base

LEMMA CrashKeepsBase ==
  ASSUME Base, IInv', Crash
  PROVE  Base' /\ NextSeq' \in Nat /\ NextSeq' > 0
<1>0. IInv /\ TypeOK /\ Numbering /\ Stored /\ RingIsLast /\ MirrorKeepsSeq
  BY DEF Base, IInv
<1>1. /\ gone' = {i \in Ids : ~OnFile(i)} /\ journal' = <<>>
      /\ memory' = [next |-> 0, held |-> {}, base |-> Len(rows)]
      /\ pending' = [a \in Attempts |-> <<>>]
      /\ UNCHANGED <<rows, file>>
  BY DEF Crash
<1>2. Kept' = {i \in Kept : OnFile(i)} /\ Ids' = Ids
  BY <1>0, <1>1 DEF Kept, Ids, Stored, OnFile
<1>3. PICK n \in Nat : FileSeqs = 1 .. n
  BY <1>0 DEF IInv, Mirror
<1>4. NextSeq' = n + 1
  <2>1. FileSeqs' = 1 .. n /\ ~(memory'.next > 0)
    BY <1>1, <1>3 DEF FileSeqs
  <2> QED BY <2>1, MaxOfInterval DEF NextSeq
<1>5. {rows[i].seq : i \in Kept'} = FileSeqs
  <2>1. ASSUME NEW i \in Kept' PROVE rows[i].seq \in FileSeqs
    <3>0. PICK a \in Attempts : \E k \in DOMAIN file[a] : file[a][k].id = i
      BY <1>2 DEF OnFile
    <3>1. PICK k \in DOMAIN file[a] : file[a][k].id = i
      BY <3>0
    <3>2. file[a][k].seq = rows[i].seq
      BY <3>1, <1>0 DEF MirrorKeepsSeq
    <3> QED BY <3>2 DEF FileSeqs
  <2>2. ASSUME NEW s \in FileSeqs PROVE \E i \in Kept' : rows[i].seq = s
    <3>0. PICK a \in Attempts : \E k \in DOMAIN file[a] : file[a][k].seq = s
      BY DEF FileSeqs
    <3>1. PICK k \in DOMAIN file[a] : file[a][k].seq = s
      BY <3>0
    <3>2. rows[file[a][k].id].seq = s /\ file[a][k].id \in Kept /\ OnFile(file[a][k].id)
      BY <3>1, <1>0 DEF MirrorKeepsSeq, Stored, OnFile
    <3> QED BY <3>2, <1>2
  <2> QED BY <2>1, <2>2
<1>6. Numbering'
  <2>1. gone' \subseteq Ids'
    BY <1>1, <1>2
  <2>2. \A i, j \in Kept' : i < j => rows'[i].seq < rows'[j].seq
    BY <1>0, <1>1, <1>2 DEF Numbering
  <2>3. {rows'[i].seq : i \in Kept'} = 1 .. NextSeq' - 1
    BY <1>1, <1>3, <1>4, <1>5
  <2> QED BY <2>1, <2>2, <2>3 DEF Numbering
<1>7. \A i : OnFile(i)' = OnFile(i)
  BY <1>1 DEF OnFile
<1>8. Stored'
  <2>1. \A a \in Attempts : \A k \in DOMAIN file[a] :
          file[a][k].id \in Kept' /\ rows[file[a][k].id].att = a
    BY <1>0, <1>2 DEF Stored, OnFile
  <2>2. \A a \in Attempts : DOMAIN pending'[a] = {}
    BY <1>1
  <2> QED BY <2>1, <2>2, <1>1, <1>2, <1>7 DEF Stored
<1>9. RingIsLast'
  BY <1>1, <1>2, <1>7 DEF RingIsLast
<1> QED BY <1>4, <1>6, <1>8, <1>9 DEF Base

LEMMA ExpireKeepsBase ==
  ASSUME Base, IInv', Expire
  PROVE  Base' /\ NextSeq' = NextSeq
<1>0. Numbering /\ Stored /\ IInv
  BY DEF Base
<1>1. /\ journal' = <<>> /\ \A a \in Attempts : pending[a] = <<>>
      /\ UNCHANGED <<rows, gone, memory, pending, file>>
  BY DEF Expire
<1>2. NextSeq' = NextSeq /\ Kept' = Kept /\ \A i : OnFile(i)' = OnFile(i)
  BY <1>1 DEF NextSeq, FileSeqs, Kept, Ids, OnFile
<1>3. \A i \in Kept : OnFile(i)
  BY <1>0, <1>1, KeptFacts DEF Stored
<1>4. Numbering' /\ Stored'
  BY <1>0, <1>1, <1>2 DEF Numbering, Stored, Ids
<1>5. RingIsLast'
  BY <1>1, <1>2, <1>3 DEF RingIsLast
<1> QED BY <1>2, <1>4, <1>5 DEF Base

LEMMA MinOfTwo ==
  ASSUME NEW x \in Nat, NEW y \in Nat
  PROVE  Min({x, y}) = IF x <= y THEN x ELSE y
<1> DEFINE m == IF x <= y THEN x ELSE y
<1>1. m \in {x, y} /\ \A z \in {x, y} : m <= z
  OBVIOUS
<1>2. \A w \in {x, y} : (\A z \in {x, y} : w <= z) => w = m
  OBVIOUS
<1> QED BY <1>1, <1>2 DEF Min

LEMMA Numbers ==
  ASSUME NEW L \in Nat, NEW K \in Nat, NEW n, n = [i \in 1 .. K |-> L + i]
  PROVE  n \in Seq(Nat) /\ Len(n) = K /\ \A i \in 1 .. K : n[i] = L + i
<1>1. n \in [1 .. K -> Nat]
  OBVIOUS
<1>2. \A i \in 1 .. K : n[i] = L + i
  OBVIOUS
<1> QED BY <1>1, <1>2

\* What the K rows that are published become.
Appended(K, a) ==
  /\ Len(rows') = Len(rows) + K
  /\ \A i \in 1 .. Len(rows) : rows'[i] = rows[i]
  /\ \A i \in Len(rows)+1 .. Len(rows)+K :
       rows'[i].att = a /\ rows'[i].seq = NextSeq + (i - Len(rows)) - 1
  /\ NextSeq' = NextSeq + K
  /\ UNCHANGED <<gone, file>>

LEMMA Published ==
  ASSUME Base, NEW kinds \in Seq(Kinds), NEW a \in Attempts, Publish(kinds, a)
  PROVE  \E K \in Nat :
           /\ Appended(K, a)
           /\ K = Len(Passed(kinds)) /\ DOMAIN Passed(kinds) = 1 .. K
<1> DEFINE out == Passed(kinds)
           L == Len(rows)
           K == Len(out)
           add == [i \in DOMAIN out |-> [kind |-> out[i], att |-> a, seq |-> NextSeq + i - 1]]
<1>1. IInv /\ TypeOK /\ NextSeq \in Nat /\ NextSeq > 0 /\ rows \in Seq(Row) /\ L \in Nat
  BY RowFacts DEF Base, IInv, TypeOK
<1>2. out \in Seq(Kinds)
  BY <1>1, PassedIsSeq
<1>3. /\ rows' = rows \o add
      /\ memory' = [memory EXCEPT
                      !.next = IF out = <<>> THEN @ ELSE NextSeq + K,
                      !.held = (@ \cup {kinds[i] : i \in DOMAIN kinds})
                                 \ {out[i] : i \in DOMAIN out}]
      /\ UNCHANGED <<gone, file>>
  BY DEF Publish
<1> HIDE DEF out
<1>4. K \in Nat /\ DOMAIN out = 1 .. K
  BY <1>2
<1>5. \A i \in 1 .. K : add[i] \in Row /\ add[i].att = a /\ add[i].seq = NextSeq + i - 1
  BY <1>1, <1>2, <1>4 DEF Row
<1>6. add \in [1 .. K -> Row]
  BY <1>4, <1>5
<1> HIDE DEF add
<1>7. add \in Seq(Row) /\ Len(add) = K
  BY <1>4, <1>6
<1>8. /\ Len(rows') = L + K
      /\ \A i \in 1 .. L : rows'[i] = rows[i]
      /\ \A i \in L+1 .. L+K : rows'[i] = add[i - L]
  <2>1. /\ Len(rows \o add) = Len(rows) + Len(add)
        /\ \A i \in 1 .. Len(rows) : (rows \o add)[i] = rows[i]
        /\ \A i \in Len(rows)+1 .. Len(rows)+Len(add) : (rows \o add)[i] = add[i - Len(rows)]
    BY <1>1, <1>7, Concatenated
  <2> QED BY <2>1, <1>3, <1>7
<1>9. \A i \in L+1 .. L+K : rows'[i].att = a /\ rows'[i].seq = NextSeq + (i - L) - 1
  <2>1. \A i \in L+1 .. L+K : i - L \in 1 .. K
    BY <1>1, <1>4
  <2> QED BY <2>1, <1>5, <1>8
<1>10. NextSeq' = NextSeq + K
  <2>1. memory'.next = IF out = <<>> THEN memory.next ELSE NextSeq + K
    BY <1>1, <1>3 DEF TypeOK
  <2>2. CASE out = <<>>
    <3>1. K = 0 /\ memory'.next = memory.next /\ FileSeqs' = FileSeqs
      BY <2>1, <2>2, <1>3 DEF FileSeqs
    <3> QED BY <3>1, <1>1 DEF NextSeq
  <2>3. CASE out # <<>>
    <3>1. memory'.next = NextSeq + K /\ memory'.next > 0
      BY <2>1, <2>3, <1>1, <1>4
    <3> QED BY <3>1 DEF NextSeq
  <2> QED BY <2>2, <2>3
<1> QED BY <1>3, <1>4, <1>8, <1>9, <1>10 DEF Appended, out

LEMMA KeptGrows ==
  ASSUME Base, TypeOK', NEW K \in Nat, NEW a \in Attempts, Appended(K, a)
  PROVE  /\ Kept' = Kept \cup (Len(rows)+1 .. Len(rows)+K)
         /\ \A i \in Kept : rows'[i] = rows[i]
         /\ Numbering'
<1> DEFINE L == Len(rows)
<1>1. /\ IInv /\ Numbering /\ L \in Nat /\ NextSeq \in Nat /\ NextSeq > 0
      /\ Ids = 1 .. L /\ gone \subseteq Ids
  BY RowFacts DEF Base, Numbering
<1>2. Ids' = 1 .. Len(rows')
  <2>1. rows' \in Seq(Row)
    BY DEF TypeOK
  <2> QED BY <2>1 DEF Ids
<1>3. /\ Ids' = 1 .. L+K /\ gone' = gone
      /\ \A i \in 1 .. L : rows'[i] = rows[i]
      /\ \A i \in L+1 .. L+K : rows'[i].seq = NextSeq + (i - L) - 1
      /\ NextSeq' = NextSeq + K
  BY <1>2 DEF Appended
<1> HIDE DEF L
<1>4. 1 .. L+K = 1 .. L \cup (L+1 .. L+K) /\ \A i \in L+1 .. L+K : i \notin 1 .. L
  BY <1>1
<1>5. Kept' = Kept \cup (L+1 .. L+K)
  BY <1>1, <1>3, <1>4 DEF Kept
<1>6. \A i \in Kept : rows'[i] = rows[i] /\ i <= L /\ i \in Nat
  BY <1>1, <1>3 DEF Kept
<1>7. \A i \in Kept : rows'[i].seq \in 1 .. NextSeq - 1
  BY <1>1, <1>6, KeptFacts
<1>8. ASSUME NEW i \in Kept', NEW j \in Kept', i < j PROVE rows'[i].seq < rows'[j].seq
  <2>1. CASE i \in Kept /\ j \in Kept
    BY <2>1, <1>1, <1>6, <1>8 DEF Numbering
  <2>2. CASE i \in Kept /\ j \in L+1 .. L+K
    BY <2>2, <1>1, <1>3, <1>7
  <2>3. CASE i \in L+1 .. L+K /\ j \in Kept
    BY <2>3, <1>1, <1>6, <1>8
  <2>4. CASE i \in L+1 .. L+K /\ j \in L+1 .. L+K
    BY <2>4, <1>1, <1>3, <1>8
  <2> QED BY <2>1, <2>2, <2>3, <2>4, <1>5
<1>9. ASSUME NEW i \in Kept' PROVE rows'[i].seq \in 1 .. NextSeq' - 1
  <2>1. CASE i \in Kept
    BY <2>1, <1>1, <1>3, <1>7
  <2>2. CASE i \in L+1 .. L+K
    BY <2>2, <1>1, <1>3
  <2> QED BY <2>1, <2>2, <1>5
<1>10. ASSUME NEW s \in 1 .. NextSeq' - 1 PROVE \E i \in Kept' : rows'[i].seq = s
  <2>1. CASE s < NextSeq
    <3>1. PICK i \in Kept : rows[i].seq = s
      BY <2>1, <1>1, KeptFacts
    <3> QED BY <3>1, <1>5, <1>6
  <2>2. CASE s >= NextSeq
    <3> DEFINE i == L + (s - NextSeq) + 1
    <3>1. i \in L+1 .. L+K /\ NextSeq + (i - L) - 1 = s
      BY <2>2, <1>1, <1>3
    <3> HIDE DEF i
    <3> QED BY <3>1, <1>3, <1>5
  <2> QED BY <2>1, <2>2, <1>1, <1>3
<1>11. Numbering'
  <2>1. {rows'[i].seq : i \in Kept'} = 1 .. NextSeq' - 1
    BY <1>9, <1>10
  <2>2. gone' \subseteq Ids'
    BY <1>1, <1>3
  <2> QED BY <2>1, <2>2, <1>8 DEF Numbering
<1> QED BY <1>5, <1>6, <1>11 DEF L

LEMMA PublishKeepsBase ==
  ASSUME Base, IInv', Watched, NEW kinds \in Seq(Kinds), NEW a \in Attempts, Publish(kinds, a)
  PROVE  Base'
<1> DEFINE out == Passed(kinds)
           L == Len(rows)
           new == [i \in DOMAIN out |-> Len(rows) + i]
           ring == journal \o new
           J == Len(journal)
           over == IF Len(ring) > RingSize THEN Len(ring) - RingSize ELSE 0
<1>0. IInv /\ TypeOK /\ TypeOK' /\ Numbering /\ Stored /\ RingIsLast
  BY DEF Base, IInv
<1>1. PICK K \in Nat : Appended(K, a) /\ K = Len(out) /\ DOMAIN out = 1 .. K
  BY Published
<1>2. /\ Kept' = Kept \cup (L+1 .. L+K)
      /\ \A i \in Kept : rows'[i] = rows[i]
      /\ Numbering'
  BY <1>0, <1>1, KeptGrows
<1>3. /\ L \in Nat /\ J \in Nat /\ journal \in Seq(Nat) /\ DOMAIN journal = 1 .. J
      /\ new \in Seq(Nat) /\ Len(new) = K /\ \A i \in 1 .. K : new[i] = L + i
  BY <1>0, <1>1, RowFacts, Numbers DEF RingIsLast
<1>4. /\ \A i \in 1 .. over : OnFile(ring[i])
      /\ journal' = SubSeq(ring, over + 1, Len(ring))
      /\ pending' = [pending EXCEPT ![a] = @ \o new]
      /\ file' = file
  BY DEF Publish, Watched
<1>5. \A i : OnFile(i)' = OnFile(i)
  BY <1>4 DEF OnFile
<1> HIDE DEF new
<1>6. /\ ring \in Seq(Nat) /\ Len(ring) = J + K
      /\ \A k \in 1 .. J : ring[k] = L - J + k
      /\ \A k \in J+1 .. J+K : ring[k] = L - J + k
  <2>1. /\ ring \in Seq(Nat) /\ Len(ring) = J + K
        /\ \A k \in 1 .. J : ring[k] = journal[k]
        /\ \A k \in J+1 .. J+K : ring[k] = new[k - J]
    BY <1>3, Concatenated
  <2>2. \A k \in 1 .. J : journal[k] = L - J + k
    BY <1>0, <1>3 DEF RingIsLast
  <2>3. \A k \in J+1 .. J+K : k - J \in 1 .. K /\ L + (k - J) = L - J + k
    BY <1>3
  <2> QED BY <2>1, <2>2, <2>3, <1>3
<1>7. over \in 0 .. J+K
  BY <1>3, <1>6, BoundsAssumption
<1> HIDE DEF ring, over
<1>8. /\ journal' \in Seq(Nat) /\ Len(journal') = (J + K) - over
      /\ DOMAIN journal' = 1 .. (J + K) - over
      /\ \A k \in 1 .. (J + K) - over : journal'[k] = ring[over + k] /\ over + k \in 1 .. J + K
  <2> DEFINE n == J + K
  <2>1. over \in Nat /\ n \in Nat /\ over <= n /\ n <= Len(ring) /\ n = Len(ring) /\ ring \in Seq(Nat)
    BY <1>3, <1>6, <1>7
  <2> HIDE DEF n
  <2>2. SubSeq(ring, over + 1, n) \in Seq(Nat)
    BY <2>1
  <2>6. Len(SubSeq(ring, over + 1, n)) = n - over /\ DOMAIN SubSeq(ring, over + 1, n) = 1 .. n - over
    BY <2>1
  <2>7. \A k \in 1 .. n - over : SubSeq(ring, over + 1, n)[k] = ring[over + k]
    BY <2>1
  <2>3. \A k \in 1 .. n - over : over + k \in 1 .. n
    BY <2>1
  <2>4. journal' = SubSeq(ring, over + 1, n)
    BY <2>1, <1>4
  <2>5. /\ journal' \in Seq(Nat) /\ Len(journal') = n - over
        /\ DOMAIN journal' = 1 .. n - over
        /\ \A k \in 1 .. n - over : journal'[k] = ring[over + k] /\ over + k \in 1 .. n
    BY <2>2, <2>3, <2>4, <2>6, <2>7
  <2> QED BY <2>5, <1>3 DEF n
<1>9. \A k \in 1 .. J+K : ring[k] = L - J + k /\ ring[k] \in Kept'
  <2> SUFFICES ASSUME NEW k \in 1 .. J+K PROVE ring[k] = L - J + k /\ ring[k] \in Kept'
    OBVIOUS
  <2>1. CASE k \in 1 .. J
    BY <2>1, <1>0, <1>2, <1>3, <1>6 DEF RingIsLast
  <2>2. CASE k \in J+1 .. J+K
    <3>1. L - J + k \in L+1 .. L+K
      BY <2>2, <1>3
    <3> QED BY <2>2, <3>1, <1>2, <1>6
  <2> QED BY <2>1, <2>2, <1>3
<1>10. \A i \in Kept' : i \in Ring' \/ OnFile(i)
  <2> SUFFICES ASSUME NEW i \in Kept', ~OnFile(i) PROVE i \in Ring'
    OBVIOUS
  <2>1. \E k \in 1 .. J+K : ring[k] = i
    <3>1. CASE i \in Kept
      <4>1. PICK k \in 1 .. J : journal[k] = i
        BY <3>1, <1>0, <1>3 DEF RingIsLast, Ring
      <4>2. journal[k] = L - J + k
        BY <1>0, <1>3 DEF RingIsLast
      <4>3. k \in 1 .. J+K
        BY <1>3
      <4> QED BY <4>1, <4>2, <4>3, <1>9
    <3>2. CASE i \in L+1 .. L+K
      <4>1. J + (i - L) \in 1 .. J+K /\ L - J + (J + (i - L)) = i
        BY <3>2, <1>3
      <4> QED BY <4>1, <1>9
    <3> QED BY <3>1, <3>2, <1>2
  <2>2. PICK k \in 1 .. J+K : ring[k] = i
    BY <2>1
  <2>3. k > over
    BY <2>2, <1>4, <1>7
  <2>4. k - over \in 1 .. (J+K)-over /\ over + (k - over) = k
    BY <2>3, <1>3, <1>7
  <2>5. journal'[k - over] = i
    BY <2>2, <2>4, <1>8
  <2> QED BY <2>4, <2>5, <1>8 DEF Ring
<1>11. RingIsLast'
  <2>1. \A k \in DOMAIN journal' :
          journal'[k] = Len(rows') - Len(journal') + k /\ journal'[k] \in Kept'
    <3> SUFFICES ASSUME NEW k \in 1 .. (J + K) - over
                 PROVE  journal'[k] = Len(rows') - Len(journal') + k /\ journal'[k] \in Kept'
      BY <1>8
    <3>1. journal'[k] = L - J + (over + k) /\ journal'[k] \in Kept'
      BY <1>8, <1>9
    <3>2. Len(rows') = L + K
      BY <1>1 DEF Appended
    <3> QED BY <3>1, <3>2, <1>3, <1>7, <1>8
  <2> QED BY <2>1, <1>5, <1>8, <1>10 DEF RingIsLast
<1>12. /\ \A b \in Attempts : b # a => pending'[b] = pending[b]
       /\ pending'[a] = pending[a] \o new
       /\ pending[a] \in Seq(Nat) /\ Len(pending[a]) \in Nat
       /\ DOMAIN pending[a] = 1 .. Len(pending[a])
  <2>1. pending \in [Attempts -> Seq(Nat)]
    BY <1>0 DEF TypeOK
  <2>2. pending[a] \in Seq(Nat)
    BY <2>1
  <2>3. pending'[a] = pending[a] \o new /\ \A b \in Attempts : b # a => pending'[b] = pending[b]
    BY <2>1, <1>4
  <2>4. Len(pending[a]) \in Nat /\ DOMAIN pending[a] = 1 .. Len(pending[a])
    BY <2>2
  <2> QED BY <2>2, <2>3, <2>4
<1> DEFINE p == pending[a]
           N == Len(p)
<1>13. /\ DOMAIN pending'[a] = 1 .. N + K
       /\ \A k \in 1 .. N : pending'[a][k] = p[k]
       /\ \A k \in N+1 .. N+K : pending'[a][k] = L + (k - N)
  <2> HIDE DEF p
  <2>1. p \in Seq(Nat) /\ pending'[a] = p \o new
    BY <1>12 DEF p
  <2>2. /\ p \o new \in Seq(Nat) /\ Len(p \o new) = N + K
        /\ \A k \in 1 .. N : (p \o new)[k] = p[k]
        /\ \A k \in N+1 .. N+K : (p \o new)[k] = new[k - N]
    BY <2>1, <1>3, Concatenated
  <2>3. \A k \in N+1 .. N+K : k - N \in 1 .. K
    BY <2>1
  <2>4. DOMAIN (p \o new) = 1 .. N + K
    BY <2>2
  <2> QED BY <2>1, <2>2, <2>3, <2>4, <1>3
<1>14. N \in Nat /\ DOMAIN p = 1 .. N
  BY <1>12
<1> HIDE DEF p, N
<1>15. Stored'
  <2>1. \A b \in Attempts : \A k \in DOMAIN file[b] :
          file[b][k].id \in Kept' /\ rows'[file[b][k].id].att = b
    BY <1>0, <1>2 DEF Stored
  <2>2. ASSUME NEW b \in Attempts, NEW k \in DOMAIN pending'[b] PROVE pending'[b][k] \in Kept'
    <3>1. CASE b # a
      BY <2>2, <3>1, <1>0, <1>2, <1>12 DEF Stored
    <3>2. CASE b = a /\ k \in 1 .. N
      BY <3>2, <1>0, <1>2, <1>12, <1>13, <1>14 DEF Stored, p, N
    <3>3. CASE b = a /\ k \in N+1 .. N+K
      <4>1. L + (k - N) \in L+1 .. L+K
        BY <3>3, <1>3, <1>14
      <4> QED BY <3>3, <4>1, <1>2, <1>13
    <3> QED BY <2>2, <3>1, <3>2, <3>3, <1>13, <1>14
  <2>3. ASSUME NEW i \in Kept'
        PROVE  OnFile(i) \/ \E k \in DOMAIN pending'[rows'[i].att] : pending'[rows'[i].att][k] = i
    <3>1. CASE i \in Kept
      <4>1. rows'[i].att = rows[i].att /\ rows[i].att \in Attempts
        BY <3>1, <1>0, <1>2, KeptFacts
      <4>2. CASE rows[i].att # a
        BY <4>1, <4>2, <3>1, <1>0, <1>12 DEF Stored
      <4>3. CASE rows[i].att = a
        <5>1. SUFFICES ASSUME ~OnFile(i) PROVE \E k \in DOMAIN pending'[a] : pending'[a][k] = i
          BY <4>1, <4>3
        <5>2. \E k \in DOMAIN pending[a] : pending[a][k] = i
          BY <5>1, <3>1, <4>3, <1>0 DEF Stored
        <5>3. PICK k \in 1 .. N : p[k] = i
          BY <5>2, <1>14 DEF p
        <5>4. k \in 1 .. N + K
          BY <1>14
        <5> QED BY <5>3, <5>4, <1>13
      <4> QED BY <4>2, <4>3
    <3>2. CASE i \in L+1 .. L+K
      <4>1. rows'[i].att = a
        BY <3>2, <1>1 DEF Appended
      <4> DEFINE k == N + (i - L)
      <4>2. k \in N+1 .. N+K /\ k \in 1 .. N+K /\ L + (k - N) = i
        BY <3>2, <1>3, <1>14
      <4> HIDE DEF k
      <4>3. pending'[a][k] = i
        BY <4>2, <1>13
      <4> QED BY <4>1, <4>2, <4>3, <1>13
    <3> QED BY <3>1, <3>2, <1>2
  <2> QED BY <2>1, <2>2, <2>3, <1>4, <1>5 DEF Stored
<1> QED BY <1>0, <1>2, <1>11, <1>15 DEF Base

-----------------------------------------------------------------------------
(* Readers *)

\* A step that publishes nothing and leaves a reader a record that is right.
LEMMA Moved ==
  ASSUME UNCHANGED <<rows, gone>>, NextSeq' = NextSeq, NEW r \in Readers,
         NEW rd, reader'[r] = rd, Got(rd), QueueOK(rd)
  PROVE  ReaderOK(r)'
<1>1. Kept' = Kept
  BY DEF Kept, Ids
<1>2. Got(reader[r])'
  BY <1>1 DEF Got, Has, UpToSeq, Beyond, Live
<1>3. QueueOK(reader[r])'
  BY <1>1 DEF QueueOK, NoGap, Beyond
<1> QED BY <1>2, <1>3 DEF ReaderOK

LEMMA NoneMoves ==
  ASSUME Followed, UNCHANGED <<rows, gone, reader>>, NextSeq' = NextSeq
  PROVE  Followed'
<1>1. ASSUME NEW r \in Readers PROVE ReaderOK(r)'
  <2>1. Got(reader[r]) /\ QueueOK(reader[r])
    BY DEF Followed, ReaderOK
  <2> QED BY <2>1, Moved
<1> QED BY <1>1 DEF Followed

LEMMA OneMoves ==
  ASSUME Followed, UNCHANGED <<rows, gone>>, NextSeq' = NextSeq, NEW r \in Readers,
         NEW rd \in Client, reader' = [reader EXCEPT ![r] = rd], Got(rd), QueueOK(rd)
  PROVE  Followed'
<1>1. reader \in [Readers -> Client]
  BY DEF Followed
<1>2. reader' \in [Readers -> Client]
  BY <1>1
<1>3. ASSUME NEW q \in Readers PROVE ReaderOK(q)'
  <2>1. CASE q = r
    <3>1. reader'[r] = rd
      BY <1>1
    <3>2. ReaderOK(r)'
      BY <3>1, Moved
    <3> QED BY <2>1, <3>2
  <2>2. CASE q # r
    <3>1. reader'[q] = reader[q] /\ Got(reader[q]) /\ QueueOK(reader[q])
      BY <1>1, <2>2 DEF Followed, ReaderOK
    <3> QED BY <3>1, Moved
  <2> QED BY <2>1, <2>2
<1> QED BY <1>2, <1>3 DEF Followed

\* Nothing is beyond the last seq.
LEMMA NothingBeyond ==
  ASSUME Base
  PROVE  /\ NextSeq - 1 \in Nat
         /\ Beyond(NextSeq - 1) = {}
         /\ \A q \in Seq(Nat) : NoGap(q, NextSeq - 1)
<1>1. IInv /\ Numbering /\ NextSeq \in Nat /\ NextSeq > 0
  BY RowFacts DEF Base
<1>2. \A i \in Kept : rows[i].seq \in Nat /\ rows[i].seq < NextSeq
  BY <1>1, KeptFacts
<1>3. Beyond(NextSeq - 1) = {}
  BY <1>1, <1>2 DEF Beyond
<1> QED BY <1>1, <1>3 DEF NoGap

\* A reader that is sent all the rows beyond its cursor.
LEMMA SentTheRest ==
  ASSUME Base, NEW rd, Has(rd.got, rd.cursor), NEW P, P = Live(Beyond(rd.cursor))
  PROVE  \E g : Has(g, NextSeq - 1) /\ Sent(rd, P) = Advanced(rd, g, NextSeq - 1)
<1>1. IInv /\ Numbering /\ NextSeq \in Nat /\ NextSeq > 0
  BY RowFacts DEF Base
<1> DEFINE d == NextSeq - 1
           c == rd.cursor
<1>2. d \in Nat /\ d < NextSeq /\ c \in Nat /\ c <= d
  BY <1>1 DEF Has
<1>3. \A i \in Kept : rows[i].seq \in Nat /\ rows[i].seq <= d
  BY <1>1, KeptFacts
<1>4. After(P, c) = Live(Window(c, d))
  <2>1. \A p \in P : \E i \in Beyond(c) : p = <<rows[i].seq, i>>
    BY DEF Live
  <2>2. \A i \in Beyond(c) : i \in Kept /\ rows[i].seq > c
    BY DEF Beyond
  <2>3. \A p \in P : p[1] > c
    BY <2>1, <2>2
  <2>4. Beyond(c) = Window(c, d)
    BY <1>2, <1>3 DEF Beyond, Window
  <2>5. After(P, c) = P
    BY <2>3 DEF After
  <2> QED BY <2>4, <2>5
<1> HIDE DEF d
<1>5. \E g : Has(g, d) /\ Sent(rd, P) = Advanced(rd, g, d)
  BY <1>1, <1>2, <1>4, SentRows
<1> QED BY <1>5 DEF d

LEMMA ClientOf ==
  ASSUME Followed, NEW r \in Readers
  PROVE  reader[r] \in Client /\ Got(reader[r]) /\ QueueOK(reader[r])
  BY DEF Followed, ReaderOK

\* What a reader fetches is all that it lacks, and leaves the files alone.
LEMMA Fetched ==
  ASSUME Base, Watched, NEW c \in Nat, ReadHistory(c + 1)
  PROVE  /\ History(file', c + 1) = Live(Beyond(c))
         /\ UNCHANGED <<file, pending>>
<1>1. IInv /\ Paced
  BY DEF Base, Watched, Paced
<1>2. file' = file /\ pending' = pending
  BY <1>1, ReadHistoryChangesNothing
<1>3. c + 1 \in Nat
  OBVIOUS
<1>4. History(file, c + 1) = Live({i \in Kept : rows[i].seq >= c + 1})
  BY <1>3, HistoryIsExact
<1>5. \A i \in Kept : rows[i].seq \in Nat
  BY KeptFacts DEF Base
<1>6. {i \in Kept : rows[i].seq >= c + 1} = Beyond(c)
  BY <1>5 DEF Beyond
<1> QED BY <1>2, <1>4, <1>6

LEMMA BatchType ==
  ASSUME Base, NEW c
  PROVE  Live(Beyond(c)) \in Batches
<1>1. \A i \in Beyond(c) : i \in Nat /\ rows[i].seq \in Nat
  BY KeptFacts DEF Base, Beyond
<1> QED BY <1>1 DEF Live, Batches

LEMMA ConnectFollows ==
  ASSUME Base, Base', NextSeq' = NextSeq, Watched, Followed, NEW r \in Readers, Connect(r)
  PROVE  Followed'
<1> DEFINE c == reader[r].cursor
           rd == [reader[r] EXCEPT !.pc = "first", !.connects = @ + 1, !.batch = Live(Beyond(c))]
<1>1. reader[r] \in Client /\ Got(reader[r]) /\ QueueOK(reader[r])
  BY ClientOf
<1>2. c \in Nat
  BY <1>1 DEF Client
<1>3. History(file', c + 1) = Live(Beyond(c))
  BY <1>2, Fetched DEF Connect
<1>4. reader' = [reader EXCEPT ![r] = rd]
  BY <1>3 DEF Connect
<1>5. rd \in Client
  <2> DEFINE b == Live(Beyond(c))
  <2>1. b \in Batches
    BY BatchType
  <2> DEFINE n == reader[r].connects + 1
  <2>2. n \in Nat
    BY <1>1 DEF Client
  <2>3. rd = [reader[r] EXCEPT !.pc = "first", !.connects = n, !.batch = b]
    OBVIOUS
  <2> HIDE DEF b, n, rd
  <2> QED BY <1>1, <2>1, <2>2, <2>3 DEF Client
<1>6. Got(rd)
  BY <1>1 DEF Got, Client
<1>7. QueueOK(rd)
  BY <1>1 DEF QueueOK, Client
<1>8. UNCHANGED <<rows, gone>>
  BY DEF Connect
<1> HIDE DEF rd
<1> QED BY <1>4, <1>5, <1>6, <1>7, <1>8, OneMoves

LEMMA SubscribeFollows ==
  ASSUME Base, NextSeq' = NextSeq, Followed, NEW r \in Readers, Subscribe(r)
  PROVE  Followed'
<1> DEFINE d == NextSeq - 1
<1>1. reader[r] \in Client /\ Got(reader[r]) /\ QueueOK(reader[r]) /\ reader[r].pc = "first"
  BY ClientOf DEF Subscribe
<1>2. Has(reader[r].got, reader[r].cursor) /\ reader[r].batch = Live(Beyond(reader[r].cursor))
  BY <1>1 DEF Got
<1>3. PICK g : Has(g, d) /\ Sent(reader[r], reader[r].batch) = Advanced(reader[r], g, d)
  BY <1>2, SentTheRest
<1> DEFINE rd == [Advanced(reader[r], g, d) EXCEPT
                    !.pc = "pop", !.batch = {}, !.queue = <<>>, !.idle = 0, !.emitted = FALSE]
<1>4. reader' = [reader EXCEPT ![r] = rd] /\ UNCHANGED <<rows, gone>>
  BY <1>3 DEF Subscribe
<1>a. <<>> \in Seq(Nat) /\ {} \in Batches
  BY DEF Batches
<1>b. d \in Nat /\ NoGap(<<>>, d)
  BY <1>a, NothingBeyond
<1>5. /\ d \in Nat /\ g \in Seq(Nat) /\ <<>> \in Seq(Nat)
      /\ NoGap(<<>>, d)
  BY <1>3, <1>a, <1>b DEF Has
<1> HIDE DEF d
<1>6. /\ rd.pc = "pop" /\ rd.batch = {} /\ rd.queue = <<>> /\ rd.idle = 0 /\ rd.emitted = FALSE
      /\ rd.cursor = d /\ rd.got = g
      /\ rd \in Client
  BY <1>1, <1>5, <1>a DEF Client, Advanced
<1> HIDE DEF rd
<1>7. Got(rd)
  BY <1>3, <1>6 DEF Got
<1>8. QueueOK(rd)
  <2>1. Len(<<>>) <= QueueSize /\ DOMAIN <<>> = {}
    BY BoundsAssumption
  <2> QED BY <2>1, <1>5, <1>6 DEF QueueOK
<1> QED BY <1>4, <1>6, <1>7, <1>8, OneMoves

LEMMA CatchUpFollows ==
  ASSUME Base, Base', NextSeq' = NextSeq, Watched, Followed, NEW r \in Readers, CatchUp(r)
  PROVE  Followed' /\ reader'[r].cursor = NextSeq - 1
<1> DEFINE d == NextSeq - 1
           c == reader[r].cursor
<1>1. reader[r] \in Client /\ Got(reader[r]) /\ QueueOK(reader[r])
  BY ClientOf
<1>2. c \in Nat /\ Has(reader[r].got, c)
  BY <1>1 DEF Client, Got
<1>3. History(file', c + 1) = Live(Beyond(c))
  BY <1>2, Fetched DEF CatchUp
<1>4. PICK g : Has(g, d) /\ Sent(reader[r], History(file', c + 1)) = Advanced(reader[r], g, d)
  BY <1>2, <1>3, SentTheRest
<1> DEFINE rd == [Advanced(reader[r], g, d) EXCEPT !.pc = "check"]
<1>5. reader' = [reader EXCEPT ![r] = rd] /\ UNCHANGED <<rows, gone>>
  BY <1>4 DEF CatchUp
<1>6. d \in Nat /\ g \in Seq(Nat)
  BY <1>4, NothingBeyond DEF Has
<1>7. reader[r].queue \in Seq(Nat) /\ NoGap(reader[r].queue, d)
  BY <1>1, NothingBeyond DEF Client
<1> HIDE DEF d
<1>8. /\ rd.pc = "check" /\ rd.queue = reader[r].queue /\ rd.cursor = d /\ rd.got = g
      /\ rd \in Client
  BY <1>1, <1>6 DEF Client, Advanced
<1> HIDE DEF rd
<1>9. Got(rd)
  BY <1>4, <1>8 DEF Got
<1>10. QueueOK(rd)
  BY <1>1, <1>7, <1>8 DEF QueueOK
<1>11. Followed'
  BY <1>5, <1>8, <1>9, <1>10, OneMoves
<1>12. reader'[r].cursor = d
  BY <1>5, <1>8 DEF Followed
<1> QED BY <1>11, <1>12 DEF d

LEMMA CheckStatusFollows ==
  ASSUME NextSeq' = NextSeq, Followed, NEW r \in Readers, CheckStatus(r)
  PROVE  Followed'
<1>1. reader[r] \in Client /\ Got(reader[r]) /\ QueueOK(reader[r]) /\ reader[r].pc = "check"
  BY ClientOf DEF CheckStatus
<1> DEFINE idle == IF Status \in {"waiting_user", "terminal"} /\ ~reader[r].emitted
                   THEN reader[r].idle + 1 ELSE 0
           q == IF EndsStream(idle) THEN <<>> ELSE reader[r].queue
           pc == IF ~EndsStream(idle) THEN "pop"
                 ELSE IF Status = "terminal" THEN "ended" ELSE "off"
           rd == [reader[r] EXCEPT !.idle = idle, !.queue = q, !.pc = pc]
<1>2. reader' = [reader EXCEPT ![r] = rd] /\ UNCHANGED <<rows, gone>>
  <2>1. reader' = [reader EXCEPT ![r].idle = idle,
                                 ![r].queue = IF EndsStream(idle) THEN <<>> ELSE @,
                                 ![r].pc = pc]
    BY Zenon DEF CheckStatus
  <2> HIDE DEF idle, pc
  <2>2. reader' = [reader EXCEPT ![r] = rd]
    BY <2>1, <1>1 DEF Followed, Client
  <2> QED BY <2>2 DEF CheckStatus
<1>3. idle \in Nat
  BY <1>1 DEF Client
<1>a. <<>> \in Seq(Nat)
  OBVIOUS
<1>4. CASE EndsStream(idle)
  <2>1. q = <<>> /\ pc \in {"ended", "off"}
    BY <1>4
  <2> HIDE DEF q, pc, idle
  <2>2. rd.queue = <<>> /\ rd.pc \in {"ended", "off"} /\ rd.cursor = reader[r].cursor /\ rd.got = reader[r].got
        /\ rd \in Client
    BY <1>1, <1>3, <1>a, <2>1 DEF Client
  <2> HIDE DEF rd
  <2>3. Got(rd)
    BY <1>1, <2>2 DEF Got
  <2>4. QueueOK(rd)
    <3>1. Len(<<>>) <= QueueSize /\ DOMAIN <<>> = {}
      BY BoundsAssumption
    <3> QED BY <3>1, <2>2 DEF QueueOK
  <2> QED BY <1>2, <2>2, <2>3, <2>4, OneMoves
<1>5. CASE ~EndsStream(idle)
  <2> HIDE DEF idle
  <2>0. q = reader[r].queue
    BY <1>5
  <2>1. q = reader[r].queue /\ pc = "pop"
    BY <1>5, <2>0
  <2> HIDE DEF q, pc, idle
  <2>2. rd.queue = reader[r].queue /\ rd.pc = "pop" /\ rd.cursor = reader[r].cursor /\ rd.got = reader[r].got
        /\ rd \in Client
    BY <1>1, <1>3, <2>1 DEF Client
  <2> HIDE DEF rd
  <2>3. Got(rd)
    BY <1>1, <2>2 DEF Got
  <2>4. QueueOK(rd)
    BY <1>1, <2>2 DEF QueueOK
  <2> QED BY <1>2, <2>2, <2>3, <2>4, OneMoves
<1> QED BY <1>4, <1>5

LEMMA DisconnectFollows ==
  ASSUME NextSeq' = NextSeq, Followed, NEW r \in Readers, Disconnect(r)
  PROVE  Followed'
<1>1. reader[r] \in Client /\ Got(reader[r])
  BY ClientOf
<1> DEFINE rd == [Offline EXCEPT !.cursor = reader[r].cursor, !.got = reader[r].got,
                                 !.connects = reader[r].connects]
<1>2. reader' = [reader EXCEPT ![r] = rd] /\ UNCHANGED <<rows, gone>>
  BY DEF Disconnect
<1>3. rd.queue = <<>> /\ rd.pc = "off" /\ rd.cursor = reader[r].cursor /\ rd.got = reader[r].got
      /\ rd \in Client
  <2>1. <<>> \in Seq(Nat) /\ {} \in Batches
    BY DEF Batches
  <2> QED BY <1>1, <2>1 DEF Client, Offline
<1> HIDE DEF rd
<1>4. Got(rd)
  BY <1>1, <1>3 DEF Got
<1>5. QueueOK(rd)
  <2>1. Len(<<>>) <= QueueSize /\ DOMAIN <<>> = {}
    BY BoundsAssumption
  <2> QED BY <2>1, <1>3 DEF QueueOK
<1> QED BY <1>2, <1>3, <1>4, <1>5, OneMoves

\* A reader that is sent a row of its queue: the one after the cursor, or one it has.
LEMMA SentOne ==
  ASSUME IInv, Numbering, NEW rd, Has(rd.got, rd.cursor), NEW h \in Kept,
         \A i \in Beyond(rd.cursor) : ~(rows[i].seq < rows[h].seq)
  PROVE  \E g, d : Has(g, d) /\ Sent(rd, Live({h})) = Advanced(rd, g, d)
<1> DEFINE c == rd.cursor
           s == rows[h].seq
<1>1. c \in Nat /\ c < NextSeq /\ NextSeq \in Nat /\ s \in Nat /\ s >= 1 /\ s < NextSeq
  BY RowFacts, KeptFacts DEF Has
<1>2. \A i \in Kept : rows[i].seq \in Nat /\ (rows[i].seq = s => i = h)
  BY KeptFacts
<1>3. \A p : p \in Live({h}) <=> p = <<s, h>>
  BY DEF Live
<1>4. CASE s <= c
  <2>1. After(Live({h}), c) = {}
    <3>1. \A p \in Live({h}) : p[1] = s
      BY <1>3
    <3>2. ~(s > c)
      BY <1>1, <1>4
    <3> QED BY <3>1, <3>2 DEF After
  <2>2. Window(c, c) = {}
    BY <1>1, <1>2 DEF Window
  <2>3. After(Live({h}), c) = Live(Window(c, c))
    BY <2>1, <2>2 DEF Live
  <2>4. c <= c
    BY <1>1
  <2> QED BY <1>1, <2>3, <2>4, SentRows
<1>5. CASE c < s
  <2>1. s = c + 1
    <3> SUFFICES ASSUME c + 1 < s PROVE FALSE
      BY <1>1, <1>5
    <3>1. c + 1 \in 1 .. NextSeq - 1
      BY <1>1
    <3>2. PICK i \in Kept : rows[i].seq = c + 1
      BY <3>1, KeptFacts
    <3>3. i \in Beyond(c) /\ rows[i].seq < s
      BY <3>2, <1>1 DEF Beyond
    <3> QED BY <3>3
  <2>2. Window(c, s) = {h}
    <3>1. h \in Window(c, s)
      BY <1>1, <1>5 DEF Window
    <3>2. ASSUME NEW i \in Window(c, s) PROVE i = h
      <4>1. i \in Kept /\ c < rows[i].seq /\ rows[i].seq <= s
        BY DEF Window
      <4>2. rows[i].seq = s
        BY <4>1, <2>1, <1>1, <1>2
      <4> QED BY <4>1, <4>2, <1>2
    <3> QED BY <3>1, <3>2
  <2>3. After(Live({h}), c) = Live({h})
    BY <1>1, <1>3, <1>5 DEF After
  <2>4. After(Live({h}), c) = Live(Window(c, s))
    BY <2>2, <2>3
  <2>5. c <= s
    BY <1>1, <1>5
  <2> QED BY <1>1, <2>4, <2>5, SentRows
<1> QED BY <1>1, <1>4, <1>5

LEMMA PopFollows ==
  ASSUME Base, NextSeq' = NextSeq, Followed, NEW r \in Readers, Pop(r)
  PROVE  Followed'
<1>1. reader[r] \in Client /\ Got(reader[r]) /\ QueueOK(reader[r]) /\ reader[r].pc = "pop"
  BY ClientOf DEF Pop
<1>2. IInv /\ Numbering /\ UNCHANGED <<rows, gone>>
  BY DEF Base, Pop
<1> DEFINE q == reader[r].queue
           rd == [reader[r] EXCEPT !.pc = "catch", !.emitted = FALSE]
<1>3. q \in Seq(Nat)
  BY <1>1 DEF Client
<1>4. CASE q = <<>>
  <2>1. rd.queue = <<>>
    BY <1>1, <1>4 DEF Client
  <2>2. reader' = [reader EXCEPT ![r] = rd]
    BY <2>1 DEF Pop
  <2>3. rd.pc = "catch" /\ rd.queue = q /\ rd.cursor = reader[r].cursor /\ rd.got = reader[r].got
        /\ rd \in Client
    BY <1>1 DEF Client
  <2> HIDE DEF rd
  <2>4. Got(rd)
    BY <1>1, <2>3 DEF Got
  <2>5. QueueOK(rd)
    BY <1>1, <2>3 DEF QueueOK
  <2> QED BY <1>2, <2>2, <2>3, <2>4, <2>5, OneMoves
<1>5. CASE q # <<>>
  <2> DEFINE h == Head(q)
             t == Tail(q)
             rt == [rd EXCEPT !.queue = Tail(@)]
  <2>1. /\ t \in Seq(Nat) /\ Len(t) = Len(q) - 1 /\ \A k \in DOMAIN t : t[k] = q[k + 1] /\ k + 1 \in DOMAIN q
        /\ 1 \in DOMAIN q /\ h = q[1] /\ Len(q) \in Nat
    BY <1>3, <1>5
  <2>2. h \in Kept /\ Len(q) <= QueueSize /\ \A k \in DOMAIN t : t[k] \in Kept
    BY <2>1, <1>1 DEF QueueOK
  <2>3. \A i \in Beyond(reader[r].cursor) : ~(rows[i].seq < rows[h].seq)
    <3> SUFFICES ASSUME NEW i \in Beyond(reader[r].cursor), rows[i].seq < rows[h].seq PROVE FALSE
      OBVIOUS
    <3>1. \E l \in DOMAIN q : l < 1 /\ q[l] = i
      BY <1>1, <2>1 DEF QueueOK, NoGap
    <3> QED BY <3>1, <1>3
  <2>4. rd.queue = q
    BY <1>1 DEF Client
  <2>5. reader' = [reader EXCEPT ![r] = Sent(rt, Live({h}))]
    BY <2>4, <1>5 DEF Pop
  <2> HIDE DEF t, h
  <2>6. /\ rt = [reader[r] EXCEPT !.pc = "catch", !.emitted = FALSE, !.queue = t]
        /\ rt.pc = "catch" /\ rt.queue = t /\ rt.cursor = reader[r].cursor /\ rt.got = reader[r].got
        /\ rt \in Client
    BY <1>1, <2>1 DEF Client, t
  <2> HIDE DEF rt
  <2>7. Has(rt.got, rt.cursor)
    BY <1>1, <2>6 DEF Got
  <2>8. \A i \in Beyond(rt.cursor) : ~(rows[i].seq < rows[h].seq)
    BY <2>3, <2>6
  <2>9. PICK g, d : Has(g, d) /\ Sent(rt, Live({h})) = Advanced(rt, g, d)
    BY <1>2, <2>2, <2>7, <2>8, SentOne
  <2> DEFINE re == Advanced(rt, g, d)
  <2>10. g \in Seq(Nat) /\ d \in Nat
    BY <2>9 DEF Has
  <2>11. re.pc = "catch" /\ re.queue = t /\ re.cursor = d /\ re.got = g /\ re \in Client
    BY <2>6, <2>10 DEF Client, Advanced
  <2>12. reader' = [reader EXCEPT ![r] = re]
    BY <2>5, <2>9
  <2> HIDE DEF re
  <2>13. Got(re)
    BY <2>9, <2>11 DEF Got
  <2>14. QueueOK(re)
    <3>1. Len(t) <= QueueSize
      BY <2>1, <2>2, BoundsAssumption
    <3> QED BY <3>1, <2>2, <2>11 DEF QueueOK
  <2> QED BY <1>2, <2>11, <2>12, <2>13, <2>14, OneMoves
<1> QED BY <1>4, <1>5

LEMMA CrashFollows ==
  ASSUME Base', NextSeq' \in Nat, NextSeq' > 0, Watched, Followed, Crash
  PROVE  Followed'
<1>1. reader' = [r \in Readers |-> [Offline EXCEPT !.connects = reader[r].connects]]
  BY DEF Crash, Watched
<1>2. ASSUME NEW r \in Readers
      PROVE  /\ reader'[r] \in Client
             /\ reader'[r].cursor = 0 /\ reader'[r].got = <<>> /\ reader'[r].queue = <<>>
             /\ reader'[r].pc = "off"
  <2>1. reader[r] \in Client
    BY ClientOf
  <2>2. <<>> \in Seq(Nat) /\ {} \in Batches
    BY DEF Batches
  <2> QED BY <2>1, <2>2, <1>1 DEF Client, Offline
<1>3. reader' \in [Readers -> Client]
  BY <1>1, <1>2
<1>4. {i \in Kept' : rows'[i].seq <= 0} = {}
  <2>1. {rows'[i].seq : i \in Kept'} = 1 .. NextSeq' - 1
    BY DEF Base, Numbering
  <2>2. \A i \in Kept' : rows'[i].seq \in {rows'[j].seq : j \in Kept'}
    OBVIOUS
  <2>3. \A i \in Kept' : rows'[i].seq \in 1 .. NextSeq' - 1
    BY <2>1, <2>2
  <2> QED BY <2>3
<1>5. ASSUME NEW r \in Readers PROVE ReaderOK(r)'
  <2>1. /\ DOMAIN <<>> = {} /\ Len(<<>>) = 0 /\ <<>> \in Seq(Nat)
    OBVIOUS
  <2>3. Got(reader[r])'
    <3>1. {i \in Kept' : rows'[i].seq <= reader'[r].cursor} = {}
      BY <1>2, <1>4
    <3>2. {reader'[r].got[k] : k \in DOMAIN reader'[r].got} = {}
      BY <2>1, <1>2
    <3>3. Sorted(reader'[r].got)
      BY <2>1, <1>2 DEF Sorted
    <3>4. reader'[r].cursor \in Nat /\ reader'[r].cursor < NextSeq' /\ reader'[r].got \in Seq(Nat)
      <4>1. 0 < NextSeq'
        <5> DEFINE n == NextSeq'
        <5>1. n \in Nat /\ n > 0
          OBVIOUS
        <5> HIDE DEF n
        <5>2. 0 < n
          BY <5>1
        <5> QED BY <5>2 DEF n
      <4>2. reader'[r].cursor = 0 /\ reader'[r].got = <<>>
        BY <1>2
      <4> QED BY <2>1, <4>1, <4>2
    <3>5. reader'[r].pc # "first"
      BY <1>2
    <3> QED BY <3>1, <3>2, <3>3, <3>4, <3>5 DEF Got, Has, UpToSeq
  <2>4. QueueOK(reader[r])'
    BY <2>1, <1>2, BoundsAssumption DEF QueueOK
  <2> QED BY <2>3, <2>4 DEF ReaderOK
<1> QED BY <1>3, <1>5 DEF Followed

\* A queue that takes the K rows that are published, until it is full.
Filled(p, q, K) ==
  /\ p \in Seq(Nat) /\ Len(p) <= QueueSize
  /\ Len(p) <= Len(q) + K /\ (Len(p) = QueueSize \/ Len(p) = Len(q) + K)
  /\ \A k \in 1 .. Len(p) : p[k] = IF k <= Len(q) THEN q[k] ELSE Len(rows) + (k - Len(q))
Gapless(p, c) ==
  /\ \A k \in DOMAIN p : \A i \in Kept' :
       rows'[i].seq > c /\ rows'[i].seq < rows'[p[k]].seq
         => \E l \in DOMAIN p : l < k /\ p[l] = i
  /\ Len(p) < QueueSize =>
       \A i \in Kept' : rows'[i].seq > c => \E l \in DOMAIN p : p[l] = i

LEMMA QueueGrows ==
  ASSUME Base, Base', NEW K \in Nat, NEW a \in Attempts, Appended(K, a),
         NEW c \in Nat, c < NextSeq, NEW p,
         NEW q \in Seq(Nat), Len(q) <= QueueSize, \A k \in DOMAIN q : q[k] \in Kept,
         Filled(p, q, K)
  PROVE  /\ \A k \in DOMAIN p : p[k] \in Kept'
         /\ NoGap(q, c) => Gapless(p, c)
<1> DEFINE N == Len(q)
           L == Len(rows)
           M == Len(p)
<1>0. /\ p \in Seq(Nat) /\ M \in Nat /\ DOMAIN p = 1 .. M
      /\ M <= QueueSize /\ M <= Len(q) + K /\ (M = QueueSize \/ M = Len(q) + K)
      /\ \A k \in 1 .. M : p[k] = IF k <= Len(q) THEN q[k] ELSE Len(rows) + (k - Len(q))
  BY DEF Filled
<1> HIDE DEF M
<1>1. /\ IInv /\ Numbering /\ TypeOK'
      /\ L \in Nat /\ NextSeq \in Nat /\ N \in Nat /\ DOMAIN q = 1 .. N /\ DOMAIN p = 1 .. M
      /\ N <= M /\ M \in Nat /\ QueueSize \in Nat
  <2>1. IInv /\ Numbering /\ TypeOK'
    BY DEF Base, IInv
  <2> QED BY <2>1, <1>0, RowFacts, BoundsAssumption
<1>2. /\ Kept' = Kept \cup (L+1 .. L+K)
      /\ \A i \in Kept : rows'[i] = rows[i]
      /\ \A i \in L+1 .. L+K : rows'[i].seq = NextSeq + (i - L) - 1
  BY <1>1, KeptGrows DEF Appended
<1>3. \A i \in Kept : rows'[i].seq \in Nat /\ rows'[i].seq = rows[i].seq /\ rows'[i].seq < NextSeq
  BY <1>1, <1>2, KeptFacts
<1>a. \A k \in 1 .. M : p[k] = IF k <= N THEN q[k] ELSE L + (k - N)
  BY <1>0
<1>b. M <= N + K /\ (M = QueueSize \/ M = N + K) /\ \A k \in 1 .. N : q[k] \in Kept
  BY <1>0, <1>1
<1> HIDE DEF N, L
<1>4. /\ \A k \in 1 .. N : p[k] = q[k] /\ q[k] \in Kept /\ k \in 1 .. M
      /\ \A k \in N+1 .. M : p[k] = L + (k - N) /\ p[k] \in L+1 .. L+K
  <2>1. ASSUME NEW k \in 1 .. N PROVE p[k] = q[k] /\ k \in 1 .. M
    <3>1. k \in 1 .. M /\ k <= N
      BY <1>1
    <3> QED BY <3>1, <1>a
  <2>2. ASSUME NEW k \in N+1 .. M PROVE p[k] = L + (k - N) /\ L + (k - N) \in L+1 .. L+K
    <3>1. k \in 1 .. M /\ ~(k <= N) /\ L + (k - N) \in L+1 .. L+K
      BY <1>1, <1>b
    <3> QED BY <3>1, <1>a
  <2> QED BY <2>1, <2>2, <1>b
<1>5. \A k \in DOMAIN p : p[k] \in Kept'
  <2>1. \A k \in 1 .. M : k \in 1 .. N \/ k \in N+1 .. M
    BY <1>1
  <2> QED BY <2>1, <1>1, <1>2, <1>4
<1>6. ASSUME NoGap(q, c), NEW k \in DOMAIN p, NEW i \in Kept',
             rows'[i].seq > c, rows'[i].seq < rows'[p[k]].seq
      PROVE  \E l \in DOMAIN p : l < k /\ p[l] = i
  <2>1. CASE k \in 1 .. N
    <3>1. p[k] = q[k] /\ q[k] \in Kept /\ rows'[p[k]].seq = rows[q[k]].seq /\ rows'[p[k]].seq < NextSeq
      BY <2>1, <1>3, <1>4
    <3>2. i \in Kept
      <4> SUFFICES ASSUME i \in L+1 .. L+K PROVE FALSE
        BY <1>2
      <4>1. rows'[i].seq = NextSeq + (i - L) - 1
        BY <1>2
      <4> DEFINE y == rows'[p[k]].seq
      <4>2. y \in Nat /\ y < NextSeq
        BY <3>1, <1>3
      <4> HIDE DEF y
      <4>3. ~(NextSeq + (i - L) - 1 < y)
        BY <4>2, <1>1
      <4> QED BY <4>1, <4>3, <1>6 DEF y
    <3>3. i \in Beyond(c) /\ rows[i].seq < rows[q[k]].seq
      BY <3>1, <3>2, <1>3, <1>6 DEF Beyond
    <3>4. PICK l \in DOMAIN q : l < k /\ q[l] = i
      BY <3>3, <2>1, <1>1, <1>6 DEF NoGap
    <3> QED BY <3>4, <1>1, <1>4
  <2>2. CASE k \in N+1 .. M
    <3>1. N < QueueSize
      BY <2>2, <1>0, <1>1, BoundsAssumption
    <3>2. CASE i \in Kept
      <4>1. i \in Beyond(c)
        BY <3>2, <1>3, <1>6 DEF Beyond
      <4>2. PICK l \in DOMAIN q : q[l] = i
        BY <3>1, <4>1, <1>6 DEF NoGap, N
      <4>3. l \in 1 .. N /\ l < k /\ l \in 1 .. M
        BY <2>2, <1>1
      <4> QED BY <4>2, <4>3, <1>1, <1>4
    <3>3. CASE i \in L+1 .. L+K
      <4> DEFINE j == i - L
      <4>1. j \in 1 .. K /\ i = L + j
        BY <3>3, <1>1
      <4> HIDE DEF j
      <4>2. rows'[i].seq = NextSeq + j - 1
        BY <3>3, <4>1, <1>1, <1>2
      <4>3. p[k] = L + (k - N) /\ rows'[p[k]].seq = NextSeq + (k - N) - 1
        <5>1. p[k] = L + (k - N) /\ p[k] \in L+1 .. L+K
          BY <2>2, <1>4
        <5>2. rows'[p[k]].seq = NextSeq + (p[k] - L) - 1
          BY <5>1, <1>2
        <5> QED BY <5>1, <5>2, <2>2, <1>1
      <4>4. j < k - N
        BY <4>1, <4>2, <4>3, <2>2, <1>1, <1>6
      <4> DEFINE l == N + j
      <4>5. l \in N+1 .. M /\ l \in 1 .. M /\ l < k /\ l - N = j
        BY <4>1, <4>4, <2>2, <1>1
      <4> HIDE DEF l
      <4>6. p[l] = i
        BY <4>1, <4>5, <1>4
      <4> QED BY <4>5, <4>6, <1>1
    <3> QED BY <3>2, <3>3, <1>2
  <2> QED BY <2>1, <2>2, <1>1
<1>7. ASSUME NoGap(q, c), Len(p) < QueueSize, NEW i \in Kept', rows'[i].seq > c
      PROVE  \E l \in DOMAIN p : p[l] = i
  <2>1. M = N + K /\ N < QueueSize
    <3>1. M < QueueSize
      BY <1>7 DEF M
    <3> QED BY <3>1, <1>1, <1>b
  <2>2. CASE i \in Kept
    <3>1. i \in Beyond(c)
      BY <2>2, <1>3, <1>7 DEF Beyond
    <3>2. PICK l \in DOMAIN q : q[l] = i
      BY <2>1, <3>1, <1>7 DEF NoGap, N
    <3> QED BY <3>2, <1>1, <1>4
  <2>3. CASE i \in L+1 .. L+K
    <3> DEFINE l == N + (i - L)
    <3>1. l \in N+1 .. M /\ l \in 1 .. M /\ L + (l - N) = i
      BY <2>1, <2>3, <1>1
    <3> HIDE DEF l
    <3> QED BY <3>1, <1>1, <1>4
  <2> QED BY <2>2, <2>3, <1>2
<1> QED BY <1>5, <1>6, <1>7 DEF Gapless

LEMMA PublishFollows ==
  ASSUME Base, Base', Watched, Followed, NEW kinds \in Seq(Kinds), NEW a \in Attempts,
         Publish(kinds, a)
  PROVE  Followed'
<1> DEFINE out == Passed(kinds)
           L == Len(rows)
           new == [i \in DOMAIN out |-> Len(rows) + i]
           grown(r) == SubSeq(reader[r].queue \o new, 1,
                              Min({QueueSize, Len(reader[r].queue) + Len(new)}))
<1>1. PICK K \in Nat : Appended(K, a) /\ K = Len(out) /\ DOMAIN out = 1 .. K
  BY Published
<1>2. /\ L \in Nat /\ new \in Seq(Nat) /\ Len(new) = K /\ \A i \in 1 .. K : new[i] = L + i
  BY <1>1, RowFacts, Numbers DEF Base
<1>3. /\ reader' = [r \in Readers |->
                      IF Subscribed(r) THEN [reader[r] EXCEPT !.queue = grown(r)] ELSE reader[r]]
      /\ \A r \in Readers : reader[r].pc # "first"
  BY DEF Publish, Watched
<1> HIDE DEF out, new
<1>4. /\ IInv /\ Numbering /\ TypeOK' /\ NextSeq \in Nat
      /\ Kept' = Kept \cup (L+1 .. L+K)
      /\ \A i \in Kept : rows'[i] = rows[i]
      /\ \A i \in L+1 .. L+K : rows'[i].seq = NextSeq + (i - L) - 1
      /\ NextSeq' = NextSeq + K
  <2>1. IInv /\ Numbering /\ TypeOK'
    BY DEF Base, IInv
  <2> QED BY <1>1, <2>1, RowFacts, KeptGrows DEF Appended
<1>5. \A i \in Kept : rows[i].seq \in Nat /\ rows[i].seq < NextSeq
  BY <1>4, KeptFacts
<1>6. ASSUME NEW r \in Readers
      PROVE  reader'[r] \in Client /\ ReaderOK(r)'
  <2> DEFINE rd == reader[r]
             q == rd.queue
             c == rd.cursor
             N == Len(q)
  <2>1. rd \in Client /\ Got(rd) /\ QueueOK(rd) /\ rd.pc # "first"
    BY <1>3, ClientOf
  <2>2. /\ q \in Seq(Nat) /\ N \in Nat /\ N <= QueueSize /\ \A k \in DOMAIN q : q[k] \in Kept
        /\ rd.pc \in {"pop", "check"} => NoGap(q, c)
        /\ Has(rd.got, c) /\ c \in Nat /\ c < NextSeq
    BY <2>1 DEF Client, QueueOK, Got, Has
  <2>3. {i \in Kept' : rows'[i].seq <= c} = UpToSeq(c)
    <3>1. ASSUME NEW i \in L+1 .. L+K PROVE ~(rows'[i].seq <= c)
      <4>1. rows'[i].seq = NextSeq + (i - L) - 1
        BY <1>4
      <4> QED BY <4>1, <2>2, <1>2, <1>4
    <3>2. \A i \in Kept : rows'[i].seq = rows[i].seq
      BY <1>4
    <3> HIDE DEF rd, c
    <3> QED BY <3>1, <3>2, <1>4 DEF UpToSeq
  <2> DEFINE p == grown(r)
             M == Min({QueueSize, N + K})
  <2>4. /\ M \in Nat /\ M <= QueueSize /\ M <= N + K /\ (M = QueueSize \/ M = N + K)
    <3> HIDE DEF q
    <3>1. QueueSize \in Nat /\ N + K \in Nat
      BY <2>2, BoundsAssumption
    <3>2. M = IF QueueSize <= N + K THEN QueueSize ELSE N + K
      BY <3>1, MinOfTwo
    <3> HIDE DEF M
    <3> QED BY <3>1, <3>2
  <2>5. /\ p \in Seq(Nat) /\ Len(p) = M
        /\ \A k \in 1 .. M : p[k] = IF k <= N THEN q[k] ELSE L + (k - N)
    <3> DEFINE s == q \o new
    <3>1. p = SubSeq(s, 1, M)
      BY <1>2
    <3> HIDE DEF M, q
    <3>2. /\ s \in Seq(Nat) /\ Len(s) = N + K
          /\ \A k \in 1 .. N : s[k] = q[k]
          /\ \A k \in N+1 .. N+K : s[k] = new[k - N]
      BY <2>2, <1>2, Concatenated
    <3> HIDE DEF s, p
    <3>3. p \in Seq(Nat) /\ Len(p) = M /\ \A k \in 1 .. M : p[k] = s[k]
      BY <3>1, <3>2, <2>4
    <3>4. ASSUME NEW k \in 1 .. M PROVE s[k] = IF k <= N THEN q[k] ELSE L + (k - N)
      <4>1. CASE k <= N
        <5>1. k \in 1 .. N
          BY <4>1, <2>2, <2>4
        <5> QED BY <5>1, <4>1, <3>2
      <4>2. CASE ~(k <= N)
        <5>1. k \in N+1 .. N+K /\ k - N \in 1 .. K
          BY <4>2, <2>2, <2>4
        <5> QED BY <5>1, <4>2, <3>2, <1>2
      <4> QED BY <4>1, <4>2
    <3> QED BY <3>3, <3>4
  <2>6. CASE Subscribed(r)
    <3>1. reader'[r] = [rd EXCEPT !.queue = p]
      BY <2>6, <1>3
    <3> HIDE DEF p, M
    <3>2. /\ reader'[r].queue = p /\ reader'[r].got = rd.got /\ reader'[r].cursor = c
          /\ reader'[r].pc = rd.pc /\ reader'[r] \in Client
      BY <3>1, <2>1, <2>5 DEF Client
    <3>3. (\A k \in DOMAIN p : p[k] \in Kept') /\ (NoGap(q, c) => Gapless(p, c))
      <4>1. Filled(p, q, K)
        BY <2>4, <2>5 DEF Filled
      <4> HIDE DEF q, c
      <4> QED BY <4>1, <1>1, <2>2, QueueGrows
    <3> HIDE DEF rd, q, c
    <3>4. Got(reader[r])'
      <4>1. c < NextSeq'
        BY <2>2, <1>4
      <4>2. rd.got \in Seq(Nat) /\ Sorted(rd.got) /\ {rd.got[k] : k \in DOMAIN rd.got} = UpToSeq(c)
        BY <2>2 DEF Has
      <4>3. rd.pc # "first"
        BY <2>1
      <4> QED BY <4>1, <4>2, <4>3, <3>2, <2>2, <2>3 DEF Got, Has, UpToSeq
    <3>5. QueueOK(reader[r])'
      <4>1. Len(p) <= QueueSize
        BY <2>4, <2>5
      <4>2. rd.pc \in {"pop", "check"} => NoGap(q, c)
        BY <2>2 DEF q, c
      <4> QED BY <4>1, <4>2, <3>2, <3>3 DEF QueueOK, NoGap, Beyond, Gapless
    <3> QED BY <3>2, <3>4, <3>5 DEF ReaderOK
  <2>7. CASE ~Subscribed(r)
    <3>1. reader'[r] = rd /\ rd.pc \notin {"pop", "check"}
      BY <2>7, <1>3 DEF Subscribed
    <3> HIDE DEF rd
    <3>2. reader'[r].queue = q /\ reader'[r].cursor = c /\ reader'[r].got = rd.got /\ reader'[r].pc = rd.pc
      BY <3>1
    <3> HIDE DEF q, c
    <3>3. Got(reader[r])'
      <4>1. c < NextSeq'
        BY <2>2, <1>4
      <4>2. rd.got \in Seq(Nat) /\ Sorted(rd.got) /\ {rd.got[k] : k \in DOMAIN rd.got} = UpToSeq(c)
        BY <2>2 DEF Has
      <4>3. rd.pc # "first"
        BY <2>1
      <4> QED BY <4>1, <4>2, <4>3, <3>2, <2>2, <2>3 DEF Got, Has, UpToSeq
    <3>4. QueueOK(reader[r])'
      BY <3>1, <3>2, <2>2, <1>4 DEF QueueOK
    <3> QED BY <3>1, <3>3, <3>4, <2>1 DEF ReaderOK
  <2> QED BY <2>6, <2>7
<1>7. reader' \in [Readers -> Client]
  <2>1. DOMAIN reader' = Readers /\ reader' = [r \in Readers |-> reader'[r]]
    BY <1>3
  <2> QED BY <2>1, <1>6
<1> QED BY <1>6, <1>7 DEF Followed

RunPublishes == \/ \E kind \in {"row", "final"} : Emit(kind)
                \/ Ask \/ Accept
                \/ \E kind \in {"succeeded", "failed"} : AnnounceEnd(kind)

LEMMA PublishedKinds ==
  ASSUME IInv, RunPublishes
  PROVE  \E kinds \in Seq(Kinds), a \in Attempts : Publish(kinds, a)
<1>1. /\ TypeOK /\ run.att \in Attempts /\ run.att \in Nat
      /\ Attempts = 1 .. MaxAttempt /\ MaxAttempt \in Nat
  BY BoundsAssumption DEF IInv, TypeOK, Attempts
<1>2. ASSUME NEW kind \in {"row", "final", "succeeded", "failed"}, Publish(<<kind>>, run.att)
      PROVE  \E kinds \in Seq(Kinds), a \in Attempts : Publish(kinds, a)
  <2>1. <<kind>> \in Seq(Kinds)
    BY DEF Kinds
  <2> QED BY <2>1, <1>1, <1>2
<1>3. ASSUME NEW kind \in {"row", "final"}, Emit(kind)
      PROVE  \E kinds \in Seq(Kinds), a \in Attempts : Publish(kinds, a)
  BY <1>2, <1>3 DEF Emit
<1>4. ASSUME NEW kind \in {"succeeded", "failed"}, AnnounceEnd(kind)
      PROVE  \E kinds \in Seq(Kinds), a \in Attempts : Publish(kinds, a)
  BY <1>2, <1>4 DEF AnnounceEnd
<1>5. CASE Ask
  <2>1. <<"prompted", "waiting_user">> \in Seq(Kinds)
    BY DEF Kinds
  <2> QED BY <2>1, <1>1, <1>5 DEF Ask
<1>6. CASE Accept
  <2>1. <<"accepted">> \in Seq(Kinds)
    BY DEF Kinds
  <2>2. run.att + 1 \in Attempts
    BY <1>1, <1>6 DEF Accept, TypeOK
  <2> QED BY <2>1, <2>2, <1>6 DEF Accept
<1> QED BY <1>3, <1>4, <1>5, <1>6 DEF RunPublishes

RunMoves == Wait \/ Reply \/ StartTurn \/ End

LEMMA RunMovesOnly ==
  ASSUME RunMoves
  PROVE  UNCHANGED <<rows, gone, memory, journal, pending, file, reader>>
  BY DEF RunMoves, Wait, Reply, End, Move, StartTurn

ReaderSteps(r) ==
  Connect(r) \/ Subscribe(r) \/ Pop(r) \/ CatchUp(r) \/ CheckStatus(r) \/ Disconnect(r)

LEMMA ReaderOnlyReads ==
  ASSUME Base, Watched, NEW r \in Readers, ReaderSteps(r)
  PROVE  UNCHANGED <<run, rows, gone, memory, journal, pending, file>>
<1>1. IInv /\ Paced
  BY DEF Base, Watched, Paced
<1>2. CASE Connect(r)
  BY <1>1, <1>2, ReadHistoryChangesNothing DEF Connect
<1>3. CASE CatchUp(r)
  BY <1>1, <1>3, ReadHistoryChangesNothing DEF CatchUp
<1>4. CASE Subscribe(r)
  BY <1>4 DEF Subscribe
<1>5. CASE Pop(r)
  BY <1>5 DEF Pop
<1>6. CASE CheckStatus(r)
  BY <1>6 DEF CheckStatus
<1>7. CASE Disconnect(r)
  BY <1>7 DEF Disconnect
<1> QED BY <1>2, <1>3, <1>4, <1>5, <1>6, <1>7 DEF ReaderSteps

Steps == RunPublishes \/ RunMoves \/ (\E a \in Attempts : Flush(a)) \/ Expire \/ Crash
           \/ (\E r \in Readers : ReaderSteps(r)) \/ UNCHANGED vars

LEMMA NextIsSteps == [Next]_vars => Steps
  BY DEF Next, Steps, RunPublishes, RunMoves, ReaderSteps

ReadersInv == Base /\ Followed

LEMMA ReadersInvInit == Init => ReadersInv
<1> SUFFICES ASSUME Init PROVE ReadersInv
  OBVIOUS
<1>1. IInv
  BY InitIInv
<1>2. /\ rows = <<>> /\ gone = {} /\ memory.next = 0 /\ journal = <<>>
      /\ pending = [a \in Attempts |-> <<>>] /\ file = [a \in Attempts |-> <<>>]
      /\ reader = [r \in Readers |-> Offline]
  BY DEF Init
<1>3. DOMAIN <<>> = {} /\ <<>> \in Seq(Nat) /\ Len(<<>>) = 0
  OBVIOUS
<1>4. Ids = {} /\ Kept = {}
  BY <1>2, <1>3 DEF Ids, Kept
<1>5. NextSeq = 1
  <2>1. FileSeqs = {}
    BY <1>2, <1>3 DEF FileSeqs
  <2>2. Max({0} \cup 1 .. 0) = 0
    BY MaxOfInterval
  <2>3. {0} \cup FileSeqs = {0} \cup 1 .. 0
    BY <2>1
  <2>4. Max({0} \cup FileSeqs) = 0
    BY <2>2, <2>3
  <2> QED BY <2>4, <1>2 DEF NextSeq
<1>6. Numbering
  <2>1. 1 .. NextSeq - 1 = {}
    BY <1>5
  <2> QED BY <2>1, <1>2, <1>4 DEF Numbering
<1>7. Stored
  BY <1>2, <1>3, <1>4 DEF Stored
<1>8. RingIsLast
  BY <1>2, <1>3, <1>4 DEF RingIsLast
<1>9. ASSUME NEW r \in Readers PROVE reader[r] \in Client /\ ReaderOK(r)
  <2>1. reader[r] = Offline
    BY <1>2
  <2>2. {} \in Batches
    BY DEF Batches
  <2>3. /\ Offline \in Client /\ Offline.cursor = 0 /\ Offline.got = <<>> /\ Offline.queue = <<>>
        /\ Offline.pc = "off"
    BY <1>3, <2>2 DEF Offline, Client
  <2>4. Has(<<>>, 0)
    <3>1. UpToSeq(0) = {}
      BY <1>4 DEF UpToSeq
    <3>2. {<<>>[k] : k \in DOMAIN <<>>} = {} /\ Sorted(<<>>)
      BY <1>3 DEF Sorted
    <3> QED BY <3>1, <3>2, <1>3, <1>5 DEF Has
  <2>5. Got(Offline)
    BY <2>3, <2>4 DEF Got
  <2>6. QueueOK(Offline)
    BY <1>3, <2>3, BoundsAssumption DEF QueueOK
  <2> QED BY <2>1, <2>3, <2>5, <2>6 DEF ReaderOK
<1>10. Followed
  BY <1>2, <1>9 DEF Followed
<1> QED BY <1>1, <1>6, <1>7, <1>8, <1>10 DEF ReadersInv, Base

LEMMA ReadersInvStep ==
  ASSUME Watched, ReadersInv, [Next]_vars
  PROVE  ReadersInv'
<1>1. Base /\ Followed /\ IInv /\ IInv' /\ Steps
  <2>1. IInv /\ Paced
    BY DEF ReadersInv, Base, Watched, Paced
  <2> QED BY <2>1, IInvStep, NextIsSteps DEF ReadersInv
<1>2. CASE RunPublishes
  <2>1. PICK kinds \in Seq(Kinds), a \in Attempts : Publish(kinds, a)
    BY <1>1, <1>2, PublishedKinds
  <2>2. Base'
    BY <1>1, <2>1, PublishKeepsBase
  <2> QED BY <1>1, <2>1, <2>2, PublishFollows DEF ReadersInv
<1>3. CASE RunMoves
  <2>1. UNCHANGED <<rows, gone, memory, journal, pending, file, reader>>
    BY <1>3, RunMovesOnly
  <2>2. Base' /\ NextSeq' = NextSeq
    BY <1>1, <2>1, BaseFrame
  <2> QED BY <1>1, <2>1, <2>2, NoneMoves DEF ReadersInv
<1>4. CASE \E a \in Attempts : Flush(a)
  <2>1. PICK a \in Attempts : Flush(a)
    BY <1>4
  <2>2. Base' /\ NextSeq' = NextSeq
    BY <1>1, <2>1, FlushKeepsBase
  <2>3. UNCHANGED <<rows, gone, reader>>
    BY <2>1 DEF Flush
  <2> QED BY <1>1, <2>2, <2>3, NoneMoves DEF ReadersInv
<1>5. CASE Expire
  <2>1. Base' /\ NextSeq' = NextSeq
    BY <1>1, <1>5, ExpireKeepsBase
  <2>2. UNCHANGED <<rows, gone, reader>>
    BY <1>5 DEF Expire
  <2> QED BY <1>1, <2>1, <2>2, NoneMoves DEF ReadersInv
<1>6. CASE Crash
  <2>1. Base' /\ NextSeq' \in Nat /\ NextSeq' > 0
    BY <1>1, <1>6, CrashKeepsBase
  <2> QED BY <1>1, <1>6, <2>1, CrashFollows DEF ReadersInv
<1>7. CASE \E r \in Readers : ReaderSteps(r)
  <2>1. PICK r \in Readers : ReaderSteps(r)
    BY <1>7
  <2>2. UNCHANGED <<rows, gone, memory, journal, pending, file>>
    BY <1>1, <2>1, ReaderOnlyReads
  <2>3. Base' /\ NextSeq' = NextSeq
    BY <1>1, <2>2, BaseFrame
  <2>4. Followed'
    BY <1>1, <2>1, <2>3, ConnectFollows, SubscribeFollows, PopFollows, CatchUpFollows,
       CheckStatusFollows, DisconnectFollows DEF ReaderSteps
  <2> QED BY <2>3, <2>4 DEF ReadersInv
<1>8. CASE UNCHANGED vars
  <2>1. UNCHANGED <<rows, gone, memory, journal, pending, file, reader>>
    BY <1>8 DEF vars
  <2>2. Base' /\ NextSeq' = NextSeq
    BY <1>1, <2>1, BaseFrame
  <2> QED BY <1>1, <2>1, <2>2, NoneMoves DEF ReadersInv
<1> QED BY <1>1, <1>2, <1>3, <1>4, <1>5, <1>6, <1>7, <1>8 DEF Steps

(* A reader is sent the rows in the order they were published, each at     *)
(* most once, over any number of connections and restarts of the server,   *)
(* whether they come from the queue, the ring or the files, for any sizes  *)
(* of the ring and the queues (iter_sse_events, _merge_fcmp_rows).         *)
THEOREM ReadersSeeInOrder == Watched => (Spec => []SeenInOrder)
<1> SUFFICES ASSUME Watched PROVE Spec => []SeenInOrder
  OBVIOUS
<1>1. Init => ReadersInv
  BY ReadersInvInit
<1>2. ReadersInv /\ [Next]_vars => ReadersInv'
  BY ReadersInvStep
<1>3. ReadersInv => SeenInOrder
  <2> SUFFICES ASSUME ReadersInv, NEW r \in Readers PROVE Sorted(reader[r].got)
    BY DEF SeenInOrder, Sorted
  <2> QED BY DEF ReadersInv, Followed, ReaderOK, Got, Has
<1> QED BY <1>1, <1>2, <1>3, PTL DEF Spec

(* The cursor of a reader never skips a row that no crash has lost, over   *)
(* any number of connections and restarts (get_event_history_payload,      *)
(* iter_sse_events).                                                       *)
THEOREM ReadersMissNothing == Watched => (Spec => []SeenIsComplete)
<1> SUFFICES ASSUME Watched PROVE Spec => []SeenIsComplete
  OBVIOUS
<1>1. Init => ReadersInv
  BY ReadersInvInit
<1>2. ReadersInv /\ [Next]_vars => ReadersInv'
  BY ReadersInvStep
<1>3. ReadersInv => SeenIsComplete
  <2> SUFFICES ASSUME ReadersInv, NEW r \in Readers, NEW i \in Kept, rows[i].seq <= reader[r].cursor
               PROVE  \E k \in DOMAIN reader[r].got : reader[r].got[k] = i
    BY DEF SeenIsComplete, Kept
  <2>1. {reader[r].got[k] : k \in DOMAIN reader[r].got} = UpToSeq(reader[r].cursor)
    BY DEF ReadersInv, Followed, ReaderOK, Got, Has
  <2>2. i \in UpToSeq(reader[r].cursor)
    BY DEF UpToSeq
  <2> QED BY <2>1, <2>2
<1> QED BY <1>1, <1>2, <1>3, PTL DEF Spec

(***************************************************************************)
(* With no window at all, a reader about to give up on a run that is over  *)
(* has all rows, and none is about to while the terminal event is owed.    *)
(***************************************************************************)
GivingUp(r) == reader[r].pc = "check" /\ reader[r].idle > 0 /\ ~reader[r].emitted
HasAll(r) == Beyond(reader[r].cursor) = {}
AtEnd(r) ==
  /\ run.pc = "over" /\ GivingUp(r) => HasAll(r)
  /\ reader[r].pc = "ended" => run.pc = "over" /\ HasAll(r)
  /\ run.pc = "ending" => ~GivingUp(r)
EndsInv == ReadersInv /\ \A r \in Readers : AtEnd(r)

LEMMA TimelyMeans ==
  ASSUME Rush = {}, Followed, NEW r \in Readers
  PROVE  InTime(r) <=> (run.pc = "ending" => ~GivingUp(r))
<1>1. reader[r].idle \in Nat
  BY ClientOf DEF Client
<1> QED BY <1>1 DEF InTime, GivingUp

\* A reader that a step leaves alone, or lets start anew.
LEMMA EndKept ==
  ASSUME UNCHANGED <<run, rows, gone>>, NEW r \in Readers, AtEnd(r),
         \/ reader'[r] = reader[r]
         \/ reader'[r].pc \notin {"check", "ended"}
  PROVE  AtEnd(r)'
<1>1. Kept' = Kept
  BY DEF Kept, Ids
<1>2. CASE reader'[r] = reader[r]
  BY <1>1, <1>2 DEF AtEnd, GivingUp, HasAll, Beyond
<1>3. CASE reader'[r].pc \notin {"check", "ended"}
  BY <1>3 DEF AtEnd, GivingUp
<1> QED BY <1>2, <1>3

LEMMA EndOfRun ==
  ASSUME EndsInv, NEW r \in Readers, run'.pc \notin {"ending"},
         reader'[r].pc = reader[r].pc,
         run.pc # "over", run'.pc = "over" => run.pc = "ending",
         reader'[r].idle = reader[r].idle, reader'[r].emitted = reader[r].emitted
  PROVE  AtEnd(r)'
<1>1. AtEnd(r)
  BY DEF EndsInv
<1>2. reader[r].pc # "ended"
  BY <1>1 DEF AtEnd
<1>3. run'.pc = "over" => ~GivingUp(r)
  BY <1>1 DEF AtEnd
<1> QED BY <1>2, <1>3 DEF AtEnd, GivingUp

LEMMA PublishKeepsReader ==
  ASSUME Followed, NEW kinds, NEW a, Publish(kinds, a), NEW r \in Readers
  PROVE  /\ reader'[r].pc = reader[r].pc
         /\ reader'[r].idle = reader[r].idle
         /\ reader'[r].emitted = reader[r].emitted
<1> DEFINE q == SubSeq(reader[r].queue \o [i \in DOMAIN Passed(kinds) |-> Len(rows) + i], 1,
                  Min({QueueSize, Len(reader[r].queue) + Len([i \in DOMAIN Passed(kinds) |-> Len(rows) + i])}))
<1>1. reader'[r] = IF Subscribed(r) THEN [reader[r] EXCEPT !.queue = q] ELSE reader[r]
  BY DEF Publish
<1> HIDE DEF q
<1>2. reader[r] \in Client
  BY ClientOf
<1> QED BY <1>1, <1>2 DEF Client

LEMMA EndsStep ==
  ASSUME Rush = {}, EndsInv, [Next]_vars
  PROVE  EndsInv'
<1>0. Watched /\ Base /\ Followed /\ IInv /\ TypeOK /\ Steps /\ \A r \in Readers : AtEnd(r)
  BY NextIsSteps DEF Watched, EndsInv, ReadersInv, Base, IInv
<1>1. ReadersInv' /\ Followed' /\ Base'
  BY <1>0, ReadersInvStep DEF EndsInv, ReadersInv
<1>2. CASE RunPublishes
  <2>1. PICK kinds \in Seq(Kinds), a \in Attempts : Publish(kinds, a)
    BY <1>0, <1>2, PublishedKinds
  <2>2. /\ run'.pc # "ending" /\ run.pc # "over"
        /\ run'.pc = "over" => run.pc = "ending"
    <3>1. ASSUME NEW kind, Emit(kind) PROVE run.pc = "turn" /\ run'.pc = "turn"
      BY <3>1, <1>0 DEF Emit, TypeOK
    <3>2. ASSUME NEW kind, AnnounceEnd(kind) PROVE run.pc = "ending" /\ run'.pc = "over"
      BY <3>2, <1>0 DEF AnnounceEnd, TypeOK
    <3>3. Ask => run.pc = "turn" /\ run'.pc = "asked"
      BY <1>0 DEF Ask, TypeOK
    <3>4. Accept => run.pc = "accepting" /\ run'.pc = "queued"
      BY <1>0 DEF Accept, TypeOK
    <3> QED BY <1>2, <3>1, <3>2, <3>3, <3>4 DEF RunPublishes
  <2>3. ASSUME NEW r \in Readers PROVE AtEnd(r)'
    BY <1>0, <2>1, <2>2, PublishKeepsReader, EndOfRun
  <2> QED BY <1>1, <2>3 DEF EndsInv
<1>3. CASE Wait \/ Reply \/ StartTurn
  <2>1. UNCHANGED reader /\ run.pc # "over" /\ run'.pc \notin {"over", "ending"}
    BY <1>3, <1>0 DEF Wait, Reply, Move, StartTurn, TypeOK
  <2>2. ASSUME NEW r \in Readers PROVE AtEnd(r)'
    BY <2>1, EndOfRun
  <2> QED BY <1>1, <2>2 DEF EndsInv
<1>4. CASE End
  <2>1. reader' = reader /\ run.pc = "turn" /\ run'.pc = "ending" /\ Timely'
    BY <1>4, <1>0 DEF End, Move, TypeOK
  <2>2. ASSUME NEW r \in Readers PROVE AtEnd(r)'
    <3>1. InTime(r)'
      BY <2>1 DEF Timely
    <3>2. ~GivingUp(r)'
      <4>1. reader[r].idle \in Nat
        BY <1>0, ClientOf DEF Client
      <4> QED BY <2>1, <3>1, <4>1 DEF InTime, GivingUp
    <3>3. reader[r].pc # "ended"
      BY <1>0, <2>1 DEF AtEnd
    <3> QED BY <2>1, <3>2, <3>3 DEF AtEnd
  <2> QED BY <1>1, <2>2 DEF EndsInv
<1>5. CASE (\E a \in Attempts : Flush(a)) \/ Expire \/ UNCHANGED vars
  <2>1. UNCHANGED <<run, rows, gone, reader>>
    BY <1>5 DEF Flush, Expire, vars
  <2> QED BY <1>0, <1>1, <2>1, EndKept DEF EndsInv
<1>6. CASE Crash
  <2>1. ASSUME NEW r \in Readers PROVE reader'[r].pc = "off"
    <3>1. reader'[r] = [Offline EXCEPT !.connects = reader[r].connects]
      BY <1>0, <1>6 DEF Crash, Watched
    <3> QED BY <3>1 DEF Offline
  <2>2. ASSUME NEW r \in Readers PROVE AtEnd(r)'
    BY <2>1 DEF AtEnd, GivingUp
  <2> QED BY <1>1, <2>2 DEF EndsInv
<1>7. ASSUME NEW r \in Readers, ReaderSteps(r) PROVE EndsInv'
  <2>1. UNCHANGED <<run, rows, gone, memory, journal, pending, file>>
    BY <1>0, <1>7, ReaderOnlyReads
  <2>2. reader \in [Readers -> Client] /\ reader[r] \in Client
    BY <1>0 DEF Followed
  <2>3. ASSUME NEW q \in Readers, q # r PROVE reader'[q] = reader[q]
    BY <1>7, <2>2, <2>3 DEF ReaderSteps, Connect, Subscribe, Pop, CatchUp, CheckStatus, Disconnect
  <2>4. CASE Connect(r)
    <3>1. reader'[r].pc = "first"
      BY <2>2, <2>4 DEF Connect, Client
    <3>2. AtEnd(r)'
      BY <1>0, <2>1, <3>1, EndKept
    <3> QED BY <1>0, <1>1, <2>1, <2>3, <3>2, EndKept DEF EndsInv
  <2>5. CASE Subscribe(r)
    <3>1. reader'[r].pc = "pop"
      BY <2>2, <2>5 DEF Subscribe, Sent, Client
    <3>2. AtEnd(r)'
      BY <1>0, <2>1, <3>1, EndKept
    <3> QED BY <1>0, <1>1, <2>1, <2>3, <3>2, EndKept DEF EndsInv
  <2>6. CASE Pop(r)
    <3>1. reader'[r].pc = "catch"
      BY <2>2, <2>6 DEF Pop, Sent, Client
    <3>2. AtEnd(r)'
      BY <1>0, <2>1, <3>1, EndKept
    <3> QED BY <1>0, <1>1, <2>1, <2>3, <3>2, EndKept DEF EndsInv
  <2>7. CASE Disconnect(r)
    <3>1. reader'[r].pc = "off"
      BY <2>2, <2>7 DEF Disconnect, Offline
    <3>2. AtEnd(r)'
      BY <1>0, <2>1, <3>1, EndKept
    <3> QED BY <1>0, <1>1, <2>1, <2>3, <3>2, EndKept DEF EndsInv
  <2>8. CASE CatchUp(r)
    <3>1. reader'[r].cursor = NextSeq - 1 /\ Kept' = Kept
      <4>1. NextSeq' = NextSeq
        BY <1>0, <1>1, <2>1, BaseFrame DEF Base
      <4> QED BY <1>0, <1>1, <2>1, <2>8, <4>1, CatchUpFollows DEF Kept, Ids
    <3>2. Beyond(NextSeq - 1) = {}
      BY <1>0, NothingBeyond
    <3>3. HasAll(r)'
      BY <2>1, <3>1, <3>2 DEF HasAll, Beyond
    <3>4. reader'[r].pc = "check"
      BY <2>2, <2>8 DEF CatchUp, Sent, Client
    <3>5. run.pc = "ending" => ~GivingUp(r)'
      <4>1. InTime(r)'
        BY <2>8 DEF CatchUp, Timely
      <4>2. reader'[r].idle \in Nat
        BY <1>1 DEF Followed, Client
      <4> QED BY <2>1, <4>1, <4>2 DEF InTime, GivingUp
    <3>6. AtEnd(r)'
      BY <2>1, <3>3, <3>4, <3>5 DEF AtEnd
    <3> QED BY <1>0, <1>1, <2>1, <2>3, <3>6, EndKept DEF EndsInv
  <2>9. CASE CheckStatus(r)
    <3> DEFINE idle == IF Status \in {"waiting_user", "terminal"} /\ ~reader[r].emitted
                       THEN reader[r].idle + 1 ELSE 0
    <3>1. /\ reader[r].pc = "check" /\ reader'[r].cursor = reader[r].cursor
          /\ reader'[r].pc = IF ~EndsStream(idle) THEN "pop"
                             ELSE IF Status = "terminal" THEN "ended" ELSE "off"
      BY <2>2, <2>9 DEF CheckStatus, Client
    <3>2. CASE reader'[r].pc # "ended"
      <4>1. reader'[r].pc \notin {"check", "ended"}
        BY <3>1, <3>2
      <4>2. AtEnd(r)'
        BY <1>0, <2>1, <4>1, EndKept
      <4> QED BY <1>0, <1>1, <2>1, <2>3, <4>2, EndKept DEF EndsInv
    <3>3. CASE reader'[r].pc = "ended"
      <4>1. EndsStream(idle) /\ Status = "terminal"
        BY <3>1, <3>3
      <4>2. GivingUp(r)
        <5>1. reader[r].idle \in Nat /\ idle >= 2
          BY <2>2, <4>1 DEF Client, EndsStream
        <5>2. ~reader[r].emitted /\ reader[r].idle > 0
          BY <5>1
        <5> QED BY <5>2, <3>1 DEF GivingUp
      <4>3. run.pc \in {"ending", "over"}
        BY <4>1, <1>0 DEF Status, TypeOK
      <4>4. run.pc = "over" /\ HasAll(r)
        BY <4>2, <4>3, <1>0 DEF AtEnd
      <4>5. HasAll(r)'
        BY <4>4, <2>1, <3>1 DEF HasAll, Beyond, Kept, Ids
      <4>6. AtEnd(r)'
        BY <2>1, <3>3, <4>4, <4>5 DEF AtEnd
      <4> QED BY <1>0, <1>1, <2>1, <2>3, <4>6, EndKept DEF EndsInv
    <3> QED BY <3>2, <3>3
  <2> QED BY <1>7, <2>4, <2>5, <2>6, <2>7, <2>8, <2>9 DEF ReaderSteps
<1> QED BY <1>0, <1>2, <1>3, <1>4, <1>5, <1>6, <1>7 DEF Steps, RunMoves

(* A stream that the server ends because the run is over has sent the      *)
(* reader every row that no crash has lost, the terminal event included,   *)
(* if none of the windows is hit (iter_sse_events).                        *)
THEOREM EndedStreamsAreComplete == Rush = {} => (Spec => []EndedStreamIsComplete)
<1> SUFFICES ASSUME Rush = {} PROVE Spec => []EndedStreamIsComplete
  OBVIOUS
<1>1. Init => EndsInv
  <2> SUFFICES ASSUME Init PROVE EndsInv
    OBVIOUS
  <2>1. ReadersInv
    BY ReadersInvInit
  <2>2. ASSUME NEW r \in Readers PROVE AtEnd(r)
    <3>1. reader[r].pc = "off"
      BY DEF Init, Offline
    <3> QED BY <3>1 DEF AtEnd, GivingUp
  <2> QED BY <2>1, <2>2 DEF EndsInv
<1>2. EndsInv /\ [Next]_vars => EndsInv'
  BY EndsStep
<1>3. EndsInv => EndedStreamIsComplete
  <2> SUFFICES ASSUME EndsInv, NEW r \in Readers, reader[r].pc = "ended", NEW i \in Kept
               PROVE  \E k \in DOMAIN reader[r].got : reader[r].got[k] = i
    BY DEF EndedStreamIsComplete, Kept
  <2>1. Beyond(reader[r].cursor) = {}
    BY DEF EndsInv, AtEnd, HasAll
  <2>2. Has(reader[r].got, reader[r].cursor)
    BY DEF EndsInv, ReadersInv, Followed, ReaderOK, Got
  <2>3. rows[i].seq \in Nat /\ reader[r].cursor \in Nat /\ ~(rows[i].seq > reader[r].cursor)
    BY <2>1, <2>2, KeptFacts DEF Beyond, Has, EndsInv, ReadersInv, Base
  <2>4. i \in UpToSeq(reader[r].cursor)
    BY <2>3 DEF UpToSeq
  <2> QED BY <2>2, <2>4 DEF Has
<1> QED BY <1>1, <1>2, <1>3, PTL DEF Spec

=============================================================================
