---------------------------- MODULE InodesProofs ----------------------------
(***************************************************************************)
(* Proofs about Inodes.  The counts of the in-core inodes are the numbers  *)
(* of the references there are, the free list has each inode that nobody   *)
(* refers to, once, and a lock is the lock of one process.                 *)
(*                                                                         *)
(* Cardinalities of sets of processes and numbers of occurrences in lists  *)
(* are compared before and after a step: one process moves, and one        *)
(* element comes or goes.  What a step has to do for the invariant is said *)
(* once (Keeps), and each action does it.                                  *)
(***************************************************************************)
EXTENDS Inodes, SequenceTheorems, FiniteSums

-------------------------------------------------------------------------------
(* Sequences                                                               *)

\* How often elements of V are in the sequence s
Occurs(s, V) == Cardinality({k \in DOMAIN s : s[k] \in V})

\* It is a number, which is 0 when there are none
LEMMA OccursType ==
    ASSUME NEW S, NEW s \in Seq(S), NEW V
    PROVE  /\ IsFiniteSet({k \in DOMAIN s : s[k] \in V})
           /\ Occurs(s, V) \in Nat
           /\ \A k \in DOMAIN s : s[k] \in V => Occurs(s, V) >= 1
           /\ (\A k \in DOMAIN s : s[k] \notin V) => Occurs(s, V) = 0
<1>1. DOMAIN s = 1 .. Len(s) /\ Len(s) \in Nat
    BY LenProperties
<1>2. IsFiniteSet(1 .. Len(s))
    BY <1>1, FS_Interval
<1> DEFINE A == {k \in DOMAIN s : s[k] \in V}
<1>3. IsFiniteSet(A)
    BY <1>1, <1>2, FS_Subset
<1>4. Cardinality(A) \in Nat
    BY <1>3, FS_CardinalityType
<1>5. \A k \in DOMAIN s : s[k] \in V => Cardinality(A) >= 1
    BY <1>3, CountPositive
<1>6. (\A k \in DOMAIN s : s[k] \notin V) => Cardinality(A) = 0
    <2>1. ASSUME \A k \in DOMAIN s : s[k] \notin V PROVE A = {}
        BY <2>1
    <2> QED
        BY <2>1, FS_EmptySet
<1> QED
    BY <1>3, <1>4, <1>5, <1>6 DEF Occurs

\* t is s without its k-th element
Without(t, s, k) == /\ Len(t) = Len(s) - 1
                    /\ \A j \in 1 .. Len(t) : t[j] = IF j < k THEN s[j] ELSE s[j + 1]

\* It has one less if that was one
LEMMA OccursWithout ==
    ASSUME NEW S, NEW s \in Seq(S), NEW t \in Seq(S), NEW k \in 1 .. Len(s), Without(t, s, k), NEW V
    PROVE  Occurs(t, V) = Occurs(s, V) - One(s[k] \in V)
<1> DEFINE A == {j \in DOMAIN s : s[j] \in V}
           B == {j \in DOMAIN t : t[j] \in V}
           f == [j \in B |-> IF j < k THEN j ELSE j + 1]
<1>1. /\ DOMAIN s = 1 .. Len(s) /\ DOMAIN t = 1 .. Len(t) /\ Len(s) \in Nat /\ Len(t) \in Nat
      /\ Len(t) = Len(s) - 1 /\ k \in 1 .. Len(s)
    BY LenProperties DEF Without
<1>2. \A j \in 1 .. Len(t) : t[j] = IF j < k THEN s[j] ELSE s[j + 1]
    BY DEF Without
<1>3. IsFiniteSet(A) /\ IsFiniteSet(B)
    BY OccursType
<1>4. \A j \in B : f[j] \in A \ {k}
    BY <1>1, <1>2
<1>5. \A i, j \in B : f[i] = f[j] => i = j
    BY <1>1
<1>6. \A i \in A \ {k} : \E j \in B : f[j] = i
    <2> TAKE i \in A \ {k}
    <2>1. CASE i < k
        <3>1. i \in B /\ f[i] = i
            BY <1>1, <1>2, <2>1
        <3> QED
            BY <3>1
    <2>2. CASE i > k
        <3>1. i - 1 \in 1 .. Len(t) /\ ~(i - 1 < k) /\ (i - 1) + 1 = i
            BY <1>1, <2>2
        <3>2. t[i - 1] = s[i]
            BY <1>2, <3>1
        <3>3. i - 1 \in B /\ f[i - 1] = i
            BY <1>1, <3>1, <3>2
        <3> QED
            BY <3>3
    <2>3. i \in Int /\ k \in Int /\ i # k
        BY <1>1
    <2> QED
        BY <2>1, <2>2, <2>3
<1>7. f \in Bijection(B, A \ {k})
    <2>1. f \in [B -> A \ {k}] /\ DOMAIN f = B
        BY <1>4
    <2> HIDE DEF f
    <2>2. f \in Injection(B, A \ {k})
        BY <1>5, <2>1 DEF Injection, IsInjective
    <2>3. f \in Surjection(B, A \ {k})
        BY <1>6, <2>1 DEF Surjection
    <2> QED
        BY <2>2, <2>3 DEF Bijection
<1>8. Cardinality(A \ {k}) = Cardinality(B)
    <2>1. ExistsBijection(B, A \ {k})
        BY <1>7 DEF ExistsBijection
    <2> HIDE DEF A, B, f
    <2> QED
        BY <1>3, <2>1, FS_Bijection
<1>9. Cardinality(A \ {k}) = Cardinality(A) - One(k \in A)
    <2> HIDE DEF A
    <2>1. Cardinality(A) \in Nat
        BY <1>3, FS_CardinalityType
    <2>2. Cardinality(A \ {k}) = IF k \in A THEN Cardinality(A) - 1 ELSE Cardinality(A)
        BY <1>3, FS_RemoveElement
    <2> QED
        BY <2>1, <2>2 DEF One
<1>10. k \in A <=> s[k] \in V
    BY <1>1
<1> QED
    BY <1>8, <1>9, <1>10 DEF Occurs, One

\* Append
LEMMA OccursAppend ==
    ASSUME NEW S, NEW s \in Seq(S), NEW e \in S, NEW V
    PROVE  /\ Append(s, e) \in Seq(S)
           /\ Occurs(Append(s, e), V) = Occurs(s, V) + One(e \in V)
<1>1. PICK t : t = Append(s, e)
    OBVIOUS
<1>2. /\ t \in Seq(S) /\ Len(t) = Len(s) + 1 /\ (\A i \in 1 .. Len(s) : t[i] = s[i])
      /\ t[Len(s) + 1] = e
    BY <1>1, AppendProperties
<1>3. DOMAIN s = 1 .. Len(s) /\ DOMAIN t = 1 .. Len(t) /\ Len(s) \in Nat
    BY <1>2, LenProperties
<1>4. Len(s) + 1 \in 1 .. Len(t) /\ Without(s, t, Len(s) + 1)
    BY <1>2, <1>3 DEF Without
<1>5. Occurs(s, V) = Occurs(t, V) - One(t[Len(s) + 1] \in V)
    BY <1>2, <1>4, OccursWithout
<1>6. Occurs(s, V) \in Nat /\ Occurs(t, V) \in Nat
    BY <1>2, OccursType
<1> QED
    BY <1>1, <1>2, <1>5, <1>6 DEF One

\* Tail
LEMMA OccursTail ==
    ASSUME NEW S, NEW s \in Seq(S), s # <<>>, NEW V
    PROVE  /\ Tail(s) \in Seq(S) /\ Head(s) \in S /\ Without(Tail(s), s, 1)
           /\ Occurs(Tail(s), V) = Occurs(s, V) - One(Head(s) \in V)
<1>1. PICK t : t = Tail(s)
    OBVIOUS
<1>2. /\ t \in Seq(S) /\ Len(t) = Len(s) - 1 /\ (\A i \in 1 .. Len(t) : t[i] = s[i + 1])
      /\ Head(s) \in S
    BY <1>1, HeadTailProperties
<1>3. Len(s) \in Nat /\ Len(s) # 0 /\ Head(s) = s[1]
    BY LenProperties, EmptySeq
<1>4. 1 \in 1 .. Len(s) /\ Without(t, s, 1)
    BY <1>2, <1>3 DEF Without
<1>5. Occurs(t, V) = Occurs(s, V) - One(s[1] \in V)
    BY <1>2, <1>4, OccursWithout
<1> QED
    BY <1>1, <1>2, <1>3, <1>4, <1>5

\* RemoveAt
LEMMA OccursRemoveAt ==
    ASSUME NEW S, NEW s \in Seq(S), NEW k \in DOMAIN s, NEW V
    PROVE  /\ RemoveAt(s, k) \in Seq(S) /\ s[k] \in S /\ Without(RemoveAt(s, k), s, k)
           /\ Occurs(RemoveAt(s, k), V) = Occurs(s, V) - One(s[k] \in V)
<1>1. DOMAIN s = 1 .. Len(s) /\ Len(s) \in Nat /\ k \in 1 .. Len(s) /\ s[k] \in S
    BY LenProperties, ElementOfSeq
<1>2. PICK a, b, t : a = SubSeq(s, 1, k - 1) /\ b = SubSeq(s, k + 1, Len(s)) /\ t = a \o b
    OBVIOUS
<1>3. \A i \in 1 .. Len(s) : s[i] \in S
    BY ElementOfSeq
<1>4. a \in Seq(S) /\ Len(a) = k - 1 /\ \A i \in 1 .. k - 1 : a[i] = s[i]
    <2>1. /\ a \in Seq(S) /\ Len(a) = IF 1 <= k - 1 THEN (k - 1) - 1 + 1 ELSE 0
          /\ \A i \in 1 .. (k - 1) - 1 + 1 : a[i] = s[1 + i - 1]
        BY <1>1, <1>2, <1>3, SubSeqProperties
    <2> QED
        BY <1>1, <2>1
<1>5. b \in Seq(S) /\ Len(b) = Len(s) - k /\ \A i \in 1 .. Len(s) - k : b[i] = s[k + i]
    <2>1. PICK m, n : m = k + 1 /\ n = Len(s)
        OBVIOUS
    <2>2. m \in Int /\ n \in Int /\ \A i \in m .. n : s[i] \in S
        BY <1>1, <1>3, <2>1
    <2>3. b = SubSeq(s, m, n)
        BY <1>2, <2>1
    <2>4. b \in Seq(S) /\ Len(b) = IF m <= n THEN n - m + 1 ELSE 0
        BY <2>2, <2>3, SubSeqProperties
    <2>5. \A i \in 1 .. n - m + 1 : b[i] = s[m + i - 1]
        BY <2>2, <2>3, SubSeqProperties
    <2>6. n - m + 1 = Len(s) - k /\ Len(b) = Len(s) - k
        BY <1>1, <2>1, <2>4
    <2>7. \A i \in 1 .. Len(s) - k : m + i - 1 = k + i
        BY <1>1, <2>1
    <2> QED
        BY <2>4, <2>5, <2>6, <2>7
<1>6. /\ t \in Seq(S) /\ Len(t) = Len(a) + Len(b)
      /\ \A i \in 1 .. Len(a) + Len(b) : t[i] = IF i <= Len(a) THEN a[i] ELSE b[i - Len(a)]
    <2>1. a \in Seq(S) /\ b \in Seq(S) /\ t = a \o b
        BY <1>2, <1>4, <1>5
    <2>2. t \in Seq(S) /\ Len(t) = Len(a) + Len(b)
        BY <2>1, ConcatProperties
    <2>3. \A i \in 1 .. Len(a) + Len(b) : t[i] = IF i <= Len(a) THEN a[i] ELSE b[i - Len(a)]
        BY <2>1, ConcatProperties
    <2> QED
        BY <2>2, <2>3
<1>7. Without(t, s, k)
    <2>1. Len(t) = Len(s) - 1
        BY <1>1, <1>4, <1>5, <1>6
    <2>2. ASSUME NEW i \in 1 .. Len(t), i < k PROVE t[i] = s[i]
        BY <1>1, <1>4, <1>5, <1>6, <2>1, <2>2
    <2>3. ASSUME NEW i \in 1 .. Len(t), ~(i < k) PROVE t[i] = s[i + 1]
        <3>1. i - (k - 1) \in 1 .. Len(s) - k /\ ~(i <= Len(a)) /\ i \in 1 .. Len(a) + Len(b)
            BY <1>1, <1>4, <1>5, <1>6, <2>1, <2>3
        <3>2. t[i] = b[i - (k - 1)]
            BY <1>4, <1>6, <3>1
        <3>3. b[i - (k - 1)] = s[k + (i - (k - 1))]
            BY <1>5, <3>1
        <3>4. k + (i - (k - 1)) = i + 1
            BY <1>1
        <3> QED
            BY <3>2, <3>3, <3>4
    <2> QED
        BY <2>1, <2>2, <2>3 DEF Without
<1>8. Occurs(t, V) = Occurs(s, V) - One(s[k] \in V)
    BY <1>1, <1>6, <1>7, OccursWithout
<1>9. t = RemoveAt(s, k)
    BY <1>2 DEF RemoveAt
<1> QED
    BY <1>1, <1>6, <1>7, <1>8, <1>9

\* RemoveFirst takes one out, if there is one
LEMMA OccursRemoveFirst ==
    ASSUME NEW S, NEW s \in Seq(S), NEW e, NEW V
    PROVE  /\ RemoveFirst(s, e) \in Seq(S)
           /\ Occurs(RemoveFirst(s, e), V) = Occurs(s, V) - One(e \in V /\ e \in ToSet(s))
<1>1. DOMAIN s = 1 .. Len(s) /\ Len(s) \in Nat
    BY LenProperties
<1>2. CASE \E i \in 1 .. Len(s) : s[i] = e
    <2> DEFINE I == {i \in 1 .. Len(s) : s[i] = e}
    <2>1. PICK k \in I : \A j \in I : k <= j
        <3>1. I \subseteq Nat /\ I # {}
            BY <1>1, <1>2
        <3> HIDE DEF I
        <3> QED
            BY <3>1, LeastNat
    <2>2. SelectInSeq(s, LAMBDA v : v = e) = Min(I)
        BY <1>2 DEF SelectInSeq
    <2>3. Min(I) = CHOOSE x \in I : \A y \in I : x <= y
        BY DEF Min
    <2>4. Min(I) \in I
        <3> HIDE DEF I
        <3> QED
            BY <2>1, <2>3
    <2>5. PICK m \in DOMAIN s : m = Min(I) /\ s[m] = e
        BY <1>1, <2>4
    <2>6. RemoveFirst(s, e) = RemoveAt(s, m)
        BY <1>2, <2>2, <2>5 DEF RemoveFirst
    <2>7. e \in ToSet(s)
        BY <2>5 DEF ToSet
    <2>8. Occurs(RemoveAt(s, m), V) = Occurs(s, V) - One(e \in V) /\ RemoveAt(s, m) \in Seq(S)
        BY <2>5, OccursRemoveAt
    <2> QED
        BY <2>6, <2>7, <2>8 DEF One
<1>3. CASE ~ \E i \in 1 .. Len(s) : s[i] = e
    <2>1. RemoveFirst(s, e) = s /\ e \notin ToSet(s)
        BY <1>1, <1>3 DEF RemoveFirst, ToSet
    <2>2. Occurs(s, V) \in Nat
        BY OccursType
    <2> QED
        BY <2>1, <2>2 DEF One
<1> QED
    BY <1>2, <1>3

-------------------------------------------------------------------------------
(* The invariant                                                           *)

Labels == {"idle", "dir", "ilock", "ialloc", "iget", "done", "open", "got", "purge", "bread",
           "inactive", "rele", "write", "scan", "make", "again", "addentry", "enter", "entered",
           "trunc", "flush", "update"}
CallNames == {"none", "lookup", "mkdir", "rmdir", "mkfifo", "vget", "sync"}
Thens == {"none", "done", "purge", "got", "entered", "ialloc"}
Contents == [used : BOOLEAN, nlink : {0, 1}]
Incore == [num : Inos \cup {0, Foreign}, locked : BOOLEAN, want : BOOLEAN, ref : BOOLEAN,
           dirty : BOOLEAN, count : Int, d : Contents]
Entries == [name : Names \cup {"none"}, vp : Table]
Steps == [at : Labels, call : CallNames, name : Names \cup {"none"}, ino : Inos \cup {0},
          ip : Table \cup {"none"}, vic : Table \cup {"none"}, then : Thens]

Chans == {NoChan} \cup {Pinod(i) : i \in Table}

\* The types of the variables, but for two that do not matter here
InoTypes ==
    /\ inode \in [Table -> Incore]
    /\ chain \in Seq(Table)
    /\ ifreeq \in Seq(Table)
    /\ ncache \in Seq(Entries)
    /\ disk \in [Inos \cup {0} -> Contents]
    /\ dir \in [Names -> Inos \cup {0}]
    /\ spare \subseteq Inos \cup {0}
    /\ pc \in [Procs -> Steps]
    /\ wchan \in [Procs -> Chans]

\* An in-core inode of this file system; it stays one
Ours(i) == i \in Table /\ inode[i].num # Foreign

\* What is true of a process, of the inode it has and of the one it releases, where it is
Places(p) ==
    /\ \/ pc[p].at \in {"bread", "got", "write", "make", "again", "addentry", "enter", "entered",
                        "ilock", "open", "update"}
       \/ Releasing(p) /\ pc[p].then \in {"entered", "got"}
       => Ours(pc[p].ip)
    /\ Releasing(p) => Ours(pc[p].vic) /\ pc[p].then # "none"
    /\ pc[p].at = "dir" => pc[p].name \in Names
    /\ pc[p].at = "make" => pc[p].call \in {"mkdir", "mkfifo"}
    /\ pc[p].at = "addentry" => pc[p].call = "mkdir"
    /\ pc[p].at = "enter" => pc[p].call \in {"lookup", "mkdir"}
    /\ pc[p].at = "entered" \/ (Releasing(p) /\ pc[p].then = "entered")
          => pc[p].call \in {"lookup", "mkdir"}
    /\ pc[p].at = "bread" => inode[pc[p].ip].count = 0
    /\ pc[p].at = "inactive" => ~inode[pc[p].vic].locked /\ inode[pc[p].vic].count = 0
                                /\ inode[pc[p].vic].ref
    /\ pc[p].at \in {"trunc", "flush"} => inode[pc[p].vic].count = 0

\* The references to i: of processes that have it, of those about to release it, of the names
Rel(p, i) == pc[p].at = "rele" /\ pc[p].vic = i
Holders(i) == {p \in Procs : Holds(p, i)}
Rels(i) == {p \in Procs : Rel(p, i)}
NamesOf(i) == Occurs(ncache, {e \in Entries : e.vp = i})

Counted(i) == inode[i].count = Cardinality(Holders(i)) + Cardinality(Rels(i)) + NamesOf(i)
                               + One(inode[i].num = Foreign)
FreeOnce(i) == Occurs(ifreeq, {i}) = One(~inode[i].ref)
InUse(i) == inode[i].count > 0 \/ inode[i].locked => inode[i].ref

OneRuns == \A p, q \in Procs : pc[p].at \in Running /\ pc[q].at \in Running => p = q
NamesOurs == \A k \in DOMAIN ncache : Ours(ncache[k].vp)
ForeignClean == \A i \in Table : inode[i].num = Foreign => ~inode[i].dirty

\* A lock has one owner, and those that wait for it are known
OneOwner == \A p, q \in Procs, i \in Table : Locks(p, i) /\ Locks(q, i) => p = q
Owned(i) == /\ \A p \in Procs : Locks(p, i) => inode[i].locked
            /\ inode[i].locked => \E p \in Procs : Locks(p, i)
Waited(i) == \A p \in Procs : wchan[p] = Pinod(i) => inode[i].locked /\ inode[i].want

InoInv ==
    /\ InoTypes
    /\ OneRuns
    /\ \A p \in Procs : Places(p)
    /\ NamesOurs
    /\ ForeignClean
    /\ \A i \in Table : Counted(i)
    /\ \A i \in Table : FreeOnce(i)
    /\ \A i \in Table : InUse(i)
    /\ OneOwner
    /\ \A i \in Table : Owned(i)
    /\ \A i \in Table : Waited(i)

-------------------------------------------------------------------------------
(* What a step of a process has to do for the invariant                    *)

\* The references of a process to i
Has(p, i) == One(Holds(p, i)) + One(Rel(p, i))

Moved(p) == Turns(p) /\ \A q \in Procs \ {p} : pc'[q] = pc[q]

\* A count changes with the references
CountKept(p) ==
    \A i \in Table :
        /\ inode'[i].num = Foreign <=> inode[i].num = Foreign
        /\ inode'[i].count = inode[i].count + (Has(p, i)' - Has(p, i)) + (NamesOf(i)' - NamesOf(i))
\* An inode that somebody else has locked, and nobody holds, gets no reference
LockedKept(p) ==
    \A i \in Table : inode[i].locked /\ inode[i].count = 0 /\ ~Locks(p, i) => inode'[i].count = 0
FreeKept ==
    \A i \in Table : Occurs(ifreeq, {i})' = Occurs(ifreeq, {i}) + One(~inode'[i].ref) - One(~inode[i].ref)
\* Only p's locks change, and it takes a lock that is free
LocksKept(p) ==
    \A i \in Table :
        /\ Locks(p, i)' /\ ~Locks(p, i) => ~inode[i].locked
        /\ inode'[i].locked <=> Locks(p, i)' \/ (inode[i].locked /\ ~Locks(p, i))

Keeps(p) ==
    /\ InoTypes' /\ Moved(p) /\ Places(p)' /\ NamesOurs' /\ ForeignClean'
    /\ CountKept(p) /\ LockedKept(p) /\ FreeKept /\ LocksKept(p)
    /\ \A i \in Table : InUse(i)' /\ Waited(i)'

\* The cardinalities after a step of p
LEMMA CardinalitiesMove ==
    ASSUME NEW p \in Procs, Moved(p), NEW i
    PROVE  /\ Cardinality(Holders(i)) \in Nat /\ Cardinality(Rels(i)) \in Nat
           /\ Cardinality(Holders(i))' = Cardinality(Holders(i)) - One(Holds(p, i)) + One(Holds(p, i)')
           /\ Cardinality(Rels(i))' = Cardinality(Rels(i)) - One(Rel(p, i)) + One(Rel(p, i)')
<1>1. IsFiniteSet(Procs)
    BY InodesAssumption
<1>2. PICK A, B, C, D : A = Holders(i) /\ B = Holders(i)' /\ C = Rels(i) /\ D = Rels(i)'
    OBVIOUS
<1>3. A \in SUBSET Procs /\ C \in SUBSET Procs
    BY <1>2 DEF Holders, Rels
<1>4. IsFiniteSet(A) /\ IsFiniteSet(C)
    BY <1>1, <1>3, FS_Subset
<1>5. A \ {p} = B \ {p}
    BY <1>2 DEF Holders, Holds, Moved, Releasing
<1>6. C \ {p} = D \ {p}
    BY <1>2 DEF Rels, Rel, Moved
<1>7. (p \in A <=> Holds(p, i)) /\ (p \in B <=> Holds(p, i)')
    BY <1>2 DEF Holders
<1>8. (p \in C <=> Rel(p, i)) /\ (p \in D <=> Rel(p, i)')
    BY <1>2 DEF Rels
<1>9. Cardinality(A) \in Nat /\ Cardinality(B) = Cardinality(A) - One(p \in A) + One(p \in B)
    BY <1>4, <1>5, CountChange
<1>10. Cardinality(C) \in Nat /\ Cardinality(D) = Cardinality(C) - One(p \in C) + One(p \in D)
    BY <1>4, <1>6, CountChange
<1>11. Cardinality(Holders(i))' = Cardinality(B) /\ Cardinality(Rels(i))' = Cardinality(D)
    BY <1>2
<1>12. /\ One(p \in A) = One(Holds(p, i)) /\ One(p \in B) = One(Holds(p, i)')
       /\ One(p \in C) = One(Rel(p, i)) /\ One(p \in D) = One(Rel(p, i)')
    BY <1>7, <1>8 DEF One
<1> QED
    BY <1>2, <1>9, <1>10, <1>11, <1>12

\* The number of the names is one
LEMMA NamesOfType ==
    ASSUME InoTypes, NEW i
    PROVE  NamesOf(i) \in Nat /\ \A k \in DOMAIN ncache : ncache[k].vp = i => NamesOf(i) >= 1
<1>1. ncache \in Seq(Entries)
    BY DEF InoTypes
<1>2. \A k \in DOMAIN ncache : ncache[k] \in Entries
    BY <1>1, LenProperties, ElementOfSeq
<1>3. PICK V : V = {e \in Entries : e.vp = i}
    OBVIOUS
<1>4. Occurs(ncache, V) \in Nat /\ \A k \in DOMAIN ncache : ncache[k] \in V => Occurs(ncache, V) >= 1
    BY <1>1, OccursType
<1> QED
    BY <1>2, <1>3, <1>4 DEF NamesOf

\* What is referred to is counted
LEMMA CountBounds ==
    ASSUME InoInv, NEW i \in Table
    PROVE  /\ inode[i].count \in Nat
           /\ \A p \in Procs : Holds(p, i) \/ Rel(p, i) => inode[i].count >= 1
           /\ \A p, q \in Procs : Holds(p, i) /\ Rel(q, i) => inode[i].count >= 2
           /\ \A k \in DOMAIN ncache : ncache[k].vp = i => inode[i].count >= 1
           /\ inode[i].num = Foreign => inode[i].count >= 1
<1>1. PICK a, b, n : a = Cardinality(Holders(i)) /\ b = Cardinality(Rels(i)) /\ n = NamesOf(i)
    OBVIOUS
<1>2. IsFiniteSet(Procs) /\ Holders(i) \in SUBSET Procs /\ Rels(i) \in SUBSET Procs
    BY InodesAssumption DEF Holders, Rels
<1>3. IsFiniteSet(Holders(i)) /\ IsFiniteSet(Rels(i))
    BY <1>2, FS_Subset
<1>4. a \in Nat /\ b \in Nat
    BY <1>1, <1>3, FS_CardinalityType
<1>5. \A p \in Procs : Holds(p, i) => a >= 1
    BY <1>1, <1>3, CountPositive DEF Holders
<1>6. \A p \in Procs : Rel(p, i) => b >= 1
    BY <1>1, <1>3, CountPositive DEF Rels
<1>7. n \in Nat /\ \A k \in DOMAIN ncache : ncache[k].vp = i => n >= 1
    BY <1>1, NamesOfType DEF InoInv
<1>8. inode[i].count = a + b + n + One(inode[i].num = Foreign)
    BY <1>1 DEF InoInv, Counted
<1> QED
    BY <1>4, <1>5, <1>6, <1>7, <1>8 DEF One

\* What a process has locked it holds, or nobody refers to
LEMMA LockerHolds ==
    ASSUME InoInv, NEW i \in Table, NEW p \in Procs, Locks(p, i)
    PROVE  inode[i].locked /\ (Holds(p, i) \/ inode[i].count = 0)
<1>1. inode[i].locked
    BY DEF InoInv, Owned
<1>2. Places(p)
    BY DEF InoInv
<1> QED
    BY <1>1, <1>2 DEF Locks, Holds, Releasing, Places

\* A step that does it keeps the invariant
LEMMA KeepsInv ==
    ASSUME InoInv, NEW p \in Procs, Keeps(p) PROVE InoInv'
<1>1. Moved(p) /\ InoTypes' /\ Places(p)' /\ NamesOurs' /\ ForeignClean'
    BY DEF Keeps
<1>2. OneRuns'
    BY <1>1 DEF OneRuns, Moved, Turns
<1>3. \A i \in Table : Ours(i) => Ours(i)'
    BY DEF Keeps, CountKept, Ours
<1>4. ASSUME NEW q \in Procs \ {p} PROVE Places(q)'
    <2>1. Places(q) /\ pc'[q] = pc[q] /\ pc[q].at \notin Running
        BY <1>1 DEF InoInv, Moved, Turns
    <2>2. \A i \in Table : Locks(q, i) /\ inode[i].count = 0 => inode'[i].count = 0
        <3> TAKE i \in Table
        <3>1. Locks(q, i) => inode[i].locked /\ ~Locks(p, i)
            BY DEF InoInv, Owned, OneOwner
        <3> QED
            BY <3>1 DEF Keeps, LockedKept
    <2>3. pc[q].at = "bread" => /\ Locks(q, pc[q].ip) /\ pc[q].ip \in Table
                                /\ inode[pc[q].ip].count = 0
        BY <2>1 DEF Locks, Places, Ours
    <2>4. pc[q].at \in {"trunc", "flush"} => /\ Locks(q, pc[q].vic) /\ pc[q].vic \in Table
                                             /\ inode[pc[q].vic].count = 0
        BY <2>1 DEF Locks, Places, Ours, Releasing
    <2>5. pc[q].at = "bread" => inode'[pc[q].ip].count = 0
        BY <2>2, <2>3
    <2>6. pc[q].at \in {"trunc", "flush"} => inode'[pc[q].vic].count = 0
        BY <2>2, <2>4
    <2>7. Ours(pc[q].ip) => Ours(pc[q].ip)'
        BY <1>3, <2>1 DEF Ours
    <2>8. Ours(pc[q].vic) => Ours(pc[q].vic)'
        BY <1>3, <2>1 DEF Ours
    <2>9. pc[q].at # "inactive"
        BY <2>1 DEF Running
    <2> QED
        BY <2>1, <2>5, <2>6, <2>7, <2>8, <2>9 DEF Places, Releasing
<1>5. ASSUME NEW i \in Table PROVE Counted(i)'
    <2>1. PICK a, b, n, m : /\ a = Cardinality(Holders(i)) /\ b = Cardinality(Rels(i))
                            /\ n = NamesOf(i) /\ m = NamesOf(i)'
        OBVIOUS
    <2>2. a \in Nat /\ b \in Nat
        BY <1>1, <2>1, CardinalitiesMove
    <2>3. Cardinality(Holders(i))' = a - One(Holds(p, i)) + One(Holds(p, i)')
        BY <1>1, <2>1, CardinalitiesMove
    <2>4. Cardinality(Rels(i))' = b - One(Rel(p, i)) + One(Rel(p, i)')
        BY <1>1, <2>1, CardinalitiesMove
    <2>5. n \in Nat
        BY <2>1, NamesOfType DEF InoInv
    <2>6. m \in Nat
        <3>1. PICK s, V : s = ncache' /\ V = {e \in Entries : e.vp = i}
            OBVIOUS
        <3>2. s \in Seq(Entries)
            BY <1>1, <3>1 DEF InoTypes
        <3>3. Occurs(s, V) \in Nat
            BY <3>2, OccursType
        <3> QED
            BY <2>1, <3>1, <3>3 DEF NamesOf, Occurs
    <2>7. inode[i].count = a + b + n + One(inode[i].num = Foreign)
        BY <2>1 DEF InoInv, Counted
    <2>8. /\ inode'[i].count = inode[i].count + (Has(p, i)' - Has(p, i)) + (m - n)
          /\ inode'[i].num = Foreign <=> inode[i].num = Foreign
        BY <2>1 DEF Keeps, CountKept
    <2>9. One(inode'[i].num = Foreign) = One(inode[i].num = Foreign) /\ One(inode[i].num = Foreign) \in Nat
        BY <2>8 DEF One
    <2>10. /\ One(Holds(p, i)) \in Nat /\ One(Holds(p, i)') \in Nat
           /\ One(Rel(p, i)) \in Nat /\ One(Rel(p, i)') \in Nat
        BY DEF One
    <2>11. inode'[i].count = (a - One(Holds(p, i)) + One(Holds(p, i)'))
                             + (b - One(Rel(p, i)) + One(Rel(p, i)')) + m + One(inode'[i].num = Foreign)
        BY <2>2, <2>5, <2>6, <2>7, <2>8, <2>9, <2>10 DEF Has
    <2> QED
        BY <2>1, <2>3, <2>4, <2>11 DEF Counted
<1>6. ASSUME NEW i \in Table PROVE FreeOnce(i)'
    <2>1. Occurs(ifreeq, {i}) = One(~inode[i].ref)
        BY DEF InoInv, FreeOnce
    <2>2. Occurs(ifreeq, {i})' = Occurs(ifreeq, {i}) + One(~inode'[i].ref) - One(~inode[i].ref)
        BY DEF Keeps, FreeKept
    <2>3. One(~inode'[i].ref) \in Nat /\ One(~inode[i].ref) \in Nat
        BY DEF One
    <2>4. Occurs(ifreeq, {i})' = One(~inode'[i].ref)
        BY <2>1, <2>2, <2>3
    <2> QED
        BY <2>4 DEF FreeOnce
<1>7. ASSUME NEW q \in Procs \ {p}, NEW i PROVE Locks(q, i)' <=> Locks(q, i)
    BY <1>1 DEF Moved, Locks, Releasing
<1>8. OneOwner'
    <2>1. ASSUME NEW q \in Procs \ {p}, NEW i \in Table, Locks(q, i)', Locks(p, i)' PROVE FALSE
        <3>1. Locks(q, i)
            BY <1>7, <2>1
        <3>2. inode[i].locked /\ ~Locks(p, i)
            BY <3>1 DEF InoInv, Owned, OneOwner
        <3> QED
            BY <2>1, <3>2 DEF Keeps, LocksKept
    <2>2. ASSUME NEW q \in Procs \ {p}, NEW r \in Procs \ {p}, NEW i \in Table,
                 Locks(q, i)', Locks(r, i)'
          PROVE  q = r
        <3>1. Locks(q, i) /\ Locks(r, i)
            BY <1>7, <2>2
        <3> QED
            BY <3>1 DEF InoInv, OneOwner
    <2> QED
        BY <2>1, <2>2 DEF OneOwner
<1>9. ASSUME NEW i \in Table PROVE Owned(i)'
    <2>1. inode'[i].locked <=> Locks(p, i)' \/ (inode[i].locked /\ ~Locks(p, i))
        BY DEF Keeps, LocksKept
    <2>2. ASSUME NEW q \in Procs, Locks(q, i)' PROVE inode'[i].locked
        <3>1. CASE q = p
            BY <2>1, <2>2, <3>1
        <3>2. CASE q # p
            <4>1. Locks(q, i)
                BY <1>7, <2>2, <3>2
            <4>2. inode[i].locked /\ ~Locks(p, i)
                BY <3>2, <4>1 DEF InoInv, Owned, OneOwner
            <4> QED
                BY <2>1, <4>2
        <3> QED
            BY <3>1, <3>2
    <2>3. ASSUME inode'[i].locked PROVE \E q \in Procs : Locks(q, i)'
        <3>1. CASE Locks(p, i)'
            BY <3>1
        <3>2. CASE inode[i].locked /\ ~Locks(p, i)
            <4>1. PICK q \in Procs : Locks(q, i)
                BY <3>2 DEF InoInv, Owned
            <4>2. Locks(q, i)'
                BY <1>7, <3>2, <4>1
            <4> QED
                BY <4>2
        <3> QED
            BY <2>1, <2>3, <3>1, <3>2
    <2> QED
        BY <2>2, <2>3 DEF Owned
<1>10. \A i \in Table : InUse(i)' /\ Waited(i)'
    BY DEF Keeps
<1> QED
    BY <1>1, <1>2, <1>4, <1>5, <1>6, <1>8, <1>9, <1>10 DEF InoInv

-------------------------------------------------------------------------------
(* The beginning, and what the invariant says                              *)

\* The sequence of a set has each of its elements once
LEMMA SetToSeqOnce ==
    ASSUME NEW S, IsFiniteSet(S), NEW x
    PROVE  SetToSeq(S) \in Seq(S) /\ Occurs(SetToSeq(S), {x}) = One(x \in S)
<1>1. PICK n : n = Cardinality(S)
    OBVIOUS
<1>2. n \in Nat
    BY <1>1, FS_CardinalityType
<1>3. \E f \in [1 .. n -> S] : IsInjective(f) /\ \A y \in S : \E k \in 1 .. n : f[k] = y
    <2>1. IsFiniteSet(1 .. n) /\ Cardinality(1 .. n) = n
        BY <1>2, FS_Interval
    <2>2. ExistsBijection(1 .. n, S)
        BY <1>1, <2>1, FS_SameCardinalityBij
    <2>3. PICK f \in Bijection(1 .. n, S) : TRUE
        BY <2>2 DEF ExistsBijection
    <2>4. f \in [1 .. n -> S] /\ IsInjective(f) /\ \A y \in S : \E k \in 1 .. n : f[k] = y
        BY <2>3 DEF Bijection, Injection, Surjection
    <2> QED
        BY <2>4
<1>4. PICK s : s = SetToSeq(S)
    OBVIOUS
<1>5. s \in [1 .. n -> S] /\ IsInjective(s)
    BY <1>1, <1>3, <1>4 DEF SetToSeq
<1>6. s \in Seq(S) /\ DOMAIN s = 1 .. n
    BY <1>2, <1>5
<1>7. \A y \in S : \E k \in 1 .. n : s[k] = y
    <2>1. s \in Injection(1 .. n, S)
        BY <1>5 DEF Injection
    <2>2. IsFiniteSet(1 .. n) /\ Cardinality(1 .. n) = n
        BY <1>2, FS_Interval
    <2>3. s \in Surjection(1 .. n, S)
        BY <1>1, <2>1, <2>2, FS_Injection
    <2> QED
        BY <2>3 DEF Surjection
<1> DEFINE K == {k \in DOMAIN s : s[k] \in {x}}
<1>8. Cardinality(K) = One(x \in S)
    <2>1. CASE x \in S
        <3>1. PICK k \in 1 .. n : s[k] = x
            BY <1>7, <2>1
        <3>2. K = {k}
            BY <1>5, <1>6, <3>1 DEF IsInjective
        <3>3. Cardinality({k}) = 1
            BY FS_Singleton
        <3> QED
            BY <2>1, <3>2, <3>3 DEF One
    <2>2. CASE x \notin S
        <3>1. K = {}
            BY <1>5, <1>6, <2>2
        <3> QED
            BY <2>2, <3>1, FS_EmptySet DEF One
    <2> QED
        BY <2>1, <2>2
<1> QED
    BY <1>4, <1>6, <1>8 DEF Occurs

\* The invariant holds at first
LEMMA InoInvInit == InoInit => InoInv
<1> SUFFICES ASSUME InoInit PROVE InoInv
    OBVIOUS
<1>1. PICK others \in SUBSET Table :
          /\ inode = [i \in Table |->
                        IF i \in others
                        THEN [num |-> Foreign, locked |-> FALSE, want |-> FALSE, ref |-> TRUE,
                              dirty |-> FALSE, count |-> 1, d |-> Used]
                        ELSE [num |-> 0, locked |-> FALSE, want |-> FALSE, ref |-> FALSE,
                              dirty |-> FALSE, count |-> 0, d |-> Unused]]
          /\ ifreeq = SetToSeq(Table \ others)
    BY DEF InoInit
<1>2. \A i \in Table :
          inode[i] = IF i \in others
                     THEN [num |-> Foreign, locked |-> FALSE, want |-> FALSE, ref |-> TRUE,
                           dirty |-> FALSE, count |-> 1, d |-> Used]
                     ELSE [num |-> 0, locked |-> FALSE, want |-> FALSE, ref |-> FALSE,
                           dirty |-> FALSE, count |-> 0, d |-> Unused]
    BY <1>1
<1>3. chain = <<>> /\ ncache = <<>> /\ spare = {}
    BY DEF InoInit
<1>4. \A p \in Procs : pc[p] = Idle /\ wchan[p] = NoChan
    BY DEF InoInit
<1>5. \A p \in Procs : pc[p].at = "idle" /\ ~Releasing(p)
    <2>1. \A p \in Procs : pc[p].at = "idle"
        <3>1. Idle.at = "idle"
            BY DEF Idle
        <3> QED
            BY <1>4, <3>1
    <2> QED
        BY <2>1 DEF Releasing
<1>6. IsFiniteSet(Table \ others)
    BY InodesAssumption, FS_Subset
<1>7. ifreeq \in Seq(Table \ others) /\ \A i : Occurs(ifreeq, {i}) = One(i \in Table \ others)
    BY <1>1, <1>6, SetToSeqOnce
<1>8. InoTypes
    <2>1. inode \in [Table -> Incore]
        BY <1>1 DEF Incore, Contents, Used, Unused
    <2>2. chain \in Seq(Table) /\ ncache \in Seq(Entries)
        BY <1>3
    <2>3. ifreeq \in Seq(Table)
        <3>1. Table \ others \subseteq Table
            OBVIOUS
        <3> QED
            BY <1>7, <3>1
    <2>4. disk \in [Inos \cup {0} -> Contents] /\ dir \in [Names -> Inos \cup {0}]
        BY DEF InoInit, Contents, Used, Unused
    <2>5. Idle \in Steps
        BY DEF Idle, Steps, Labels, CallNames, Thens
    <2>6. pc \in [Procs -> Steps] /\ wchan \in [Procs -> Chans]
        BY <2>5 DEF InoInit, Chans
    <2> QED
        BY <1>3, <2>1, <2>2, <2>3, <2>4, <2>6 DEF InoTypes
<1>9. OneRuns /\ \A p \in Procs : Places(p)
    BY <1>5 DEF OneRuns, Places, Running
<1>10. NamesOurs /\ ForeignClean
    BY <1>2, <1>3 DEF NamesOurs, ForeignClean
<1>11. ASSUME NEW i \in Table PROVE Counted(i)
    <2>1. Holders(i) = {} /\ Rels(i) = {}
        BY <1>5 DEF Holders, Rels, Holds, Rel
    <2>2. Cardinality(Holders(i)) = 0 /\ Cardinality(Rels(i)) = 0
        BY <2>1, FS_EmptySet
    <2>3. NamesOf(i) = 0
        <3>1. {k \in DOMAIN ncache : ncache[k] \in {e \in Entries : e.vp = i}} = {}
            BY <1>3
        <3> QED
            BY <3>1, FS_EmptySet DEF NamesOf, Occurs
    <2>4. inode[i].count = One(inode[i].num = Foreign)
        BY <1>2 DEF One, Foreign
    <2>5. One(inode[i].num = Foreign) \in Nat
        BY DEF One
    <2> QED
        BY <2>2, <2>3, <2>4, <2>5 DEF Counted
<1>12. \A i \in Table : FreeOnce(i) /\ InUse(i) /\ Owned(i) /\ Waited(i)
    <2> TAKE i \in Table
    <2>1. FreeOnce(i)
        BY <1>2, <1>7 DEF FreeOnce, One
    <2>2. InUse(i)
        BY <1>2 DEF InUse
    <2>3. Owned(i)
        BY <1>2, <1>5 DEF Owned, Locks
    <2>4. Waited(i)
        BY <1>4 DEF Waited, Pinod, NoChan
    <2> QED
        BY <2>1, <2>2, <2>3, <2>4
<1>13. OneOwner
    BY <1>5 DEF OneOwner, Locks
<1> QED
    BY <1>8, <1>9, <1>10, <1>11, <1>12, <1>13 DEF InoInv

\* The invariant says what RefsExact says
LEMMA RefsOfInv == InoInv => RefsExact
<1> SUFFICES ASSUME InoInv, NEW i \in Table
             PROVE  /\ inode[i].count = Cardinality({p \in Procs : Holds(p, i)})
                           + Cardinality({p \in Procs : pc[p].at = "rele" /\ pc[p].vic = i})
                           + Cardinality({k \in DOMAIN ncache : ncache[k].vp = i})
                           + IF inode[i].num = Foreign THEN 1 ELSE 0
                    /\ Cardinality({k \in DOMAIN ifreeq : ifreeq[k] = i}) = IF inode[i].ref THEN 0 ELSE 1
                    /\ inode[i].count > 0 \/ inode[i].locked => inode[i].ref
    BY DEF RefsExact
<1>1. Counted(i) /\ FreeOnce(i) /\ InUse(i)
    BY DEF InoInv
<1>2. \A k \in DOMAIN ncache : ncache[k] \in Entries
    BY LenProperties, ElementOfSeq DEF InoInv, InoTypes
<1>3. {k \in DOMAIN ncache : ncache[k].vp = i}
         = {k \in DOMAIN ncache : ncache[k] \in {e \in Entries : e.vp = i}}
    BY <1>2
<1>4. Cardinality({k \in DOMAIN ncache : ncache[k].vp = i}) = NamesOf(i)
    BY <1>3 DEF NamesOf, Occurs
<1>5. Cardinality({p \in Procs : pc[p].at = "rele" /\ pc[p].vic = i}) = Cardinality(Rels(i))
    BY DEF Rels, Rel
<1>6. Cardinality({p \in Procs : Holds(p, i)}) = Cardinality(Holders(i))
    BY DEF Holders
<1>7. {k \in DOMAIN ifreeq : ifreeq[k] = i} = {k \in DOMAIN ifreeq : ifreeq[k] \in {i}}
    OBVIOUS
<1>8. Cardinality({k \in DOMAIN ifreeq : ifreeq[k] = i}) = One(~inode[i].ref)
    BY <1>1, <1>7 DEF FreeOnce, Occurs
<1>9. One(~inode[i].ref) = IF inode[i].ref THEN 0 ELSE 1
    BY DEF One
<1>10. One(inode[i].num = Foreign) = IF inode[i].num = Foreign THEN 1 ELSE 0
    BY DEF One
<1>11. inode[i].count = Cardinality(Holders(i)) + Cardinality(Rels(i)) + NamesOf(i)
                        + (IF inode[i].num = Foreign THEN 1 ELSE 0)
    BY <1>1, <1>10 DEF Counted
<1> QED
    BY <1>1, <1>4, <1>5, <1>6, <1>8, <1>9, <1>11 DEF InUse

\* ... and what LockOwned says
LEMMA LocksOfInv == InoInv => LockOwned
<1> SUFFICES ASSUME InoInv, NEW i \in Table
             PROVE  /\ Cardinality({p \in Procs : Locks(p, i)}) = IF inode[i].locked THEN 1 ELSE 0
                    /\ \A p \in Procs : wchan[p] = Pinod(i) => inode[i].locked /\ inode[i].want
    BY DEF LockOwned
<1>1. Owned(i) /\ OneOwner /\ Waited(i)
    BY DEF InoInv
<1>2. CASE inode[i].locked
    <2>1. PICK p \in Procs : Locks(p, i)
        BY <1>1, <1>2 DEF Owned
    <2>2. {q \in Procs : Locks(q, i)} = {p}
        BY <1>1, <2>1 DEF OneOwner
    <2>3. Cardinality({p}) = 1
        BY FS_Singleton
    <2> QED
        BY <1>1, <1>2, <2>2, <2>3 DEF Waited
<1>3. CASE ~inode[i].locked
    <2>1. {q \in Procs : Locks(q, i)} = {}
        BY <1>1, <1>3 DEF Owned
    <2> QED
        BY <1>1, <1>3, <2>1, FS_EmptySet DEF Waited
<1> QED
    BY <1>2, <1>3

-------------------------------------------------------------------------------
(* Steps that refer to nothing, before and after                           *)

Bare == {"idle", "dir", "iget", "ialloc", "scan", "purge", "done"}

\* A step that changes only the place of p, which has no inode before and after
LEMMA BareKeeps ==
    ASSUME InoInv, NEW p \in Procs, InoTypes', Moved(p), pc[p].at \in Bare, pc'[p].at \in Bare,
           pc'[p].at = "dir" => pc'[p].name \in Names, inode' = inode, ifreeq' = ifreeq, ncache' = ncache, wchan' = wchan
    PROVE  Keeps(p)
<1>1. \A i : ~Holds(p, i) /\ ~Rel(p, i) /\ ~Locks(p, i)
    BY DEF Bare, Holds, Rel, Locks, Releasing
<1>2. \A i \in Table : ~Holds(p, i)' /\ ~Rel(p, i)' /\ ~Locks(p, i)'
    BY DEF Bare, Holds, Rel, Locks, Releasing
<1>3. Places(p)'
    BY DEF Bare, Places, Releasing
<1>4. NamesOurs' /\ ForeignClean'
    BY DEF InoInv, NamesOurs, ForeignClean, Ours
<1>5. CountKept(p)
    <2> SUFFICES ASSUME NEW i \in Table
                 PROVE inode'[i].count = inode[i].count + (Has(p, i)' - Has(p, i)) + (NamesOf(i)' - NamesOf(i))
        BY DEF CountKept
    <2>1. Has(p, i) = 0 /\ Has(p, i)' = 0
        BY <1>1, <1>2 DEF Has, One
    <2>2. NamesOf(i)' = NamesOf(i) /\ NamesOf(i) \in Nat
        BY NamesOfType DEF NamesOf, InoInv
    <2>3. inode[i].count \in Int
        BY DEF InoInv, InoTypes, Incore
    <2> QED
        BY <2>1, <2>2, <2>3
<1>6. LockedKept(p)
    BY DEF LockedKept
<1>7. FreeKept
    <2> SUFFICES ASSUME NEW i \in Table
                 PROVE Occurs(ifreeq, {i})' = Occurs(ifreeq, {i}) + One(~inode'[i].ref) - One(~inode[i].ref)
        BY DEF FreeKept
    <2>1. Occurs(ifreeq, {i})' = Occurs(ifreeq, {i})
        BY DEF Occurs
    <2>2. Occurs(ifreeq, {i}) \in Nat /\ One(~inode[i].ref) \in Nat
        BY DEF InoInv, FreeOnce, One
    <2> QED
        BY <2>1, <2>2
<1>8. LocksKept(p)
    <2>1. \A i \in Table : inode[i].locked \in BOOLEAN
        BY DEF InoInv, InoTypes, Incore
    <2> QED
        BY <1>1, <1>2, <2>1 DEF LocksKept
<1>9. \A i \in Table : InUse(i)' /\ Waited(i)'
    BY DEF InoInv, InUse, Waited
<1> QED
    BY <1>3, <1>4, <1>5, <1>6, <1>7, <1>8, <1>9 DEF Keeps

\* A step that changes only where the process is
LEMMA TypesOfStep ==
    ASSUME InoTypes, UNCHANGED <<inode, chain, ifreeq, ncache, disk, dir, spare, wchan>>,
           pc' \in [Procs -> Steps]
    PROVE  InoTypes'
BY DEF InoTypes

\* The steps that refer to nothing
LEMMA BareSteps ==
    ASSUME InoInv, NEW p \in Procs,
           \/ \E n \in Names : Start(p, "lookup", n) \/ Start(p, "mkdir", n) \/ Start(p, "rmdir", n)
           \/ Mkfifo(p) \/ Search(p) \/ (\E n \in Inos : Vget(p, n)) \/ Done(p) \/ IgetPurge(p)
           \/ IgetFull(p) \/ Ialloc(p) \/ IallocScan(p) \/ IallocScanned(p)
    PROVE  Keeps(p)
<1> USE DEF Moved, At, Goto, tables, onDisk
<1>1. InoTypes /\ pc \in [Procs -> Steps] /\ pc[p] \in Steps
    BY DEF InoInv, InoTypes
<1>2. Idle \in Steps
    BY DEF Idle, Steps, Labels, CallNames, Thens
<1>3. ASSUME NEW n \in Names, NEW c \in {"lookup", "mkdir", "rmdir"}, Start(p, c, n) PROVE Keeps(p)
    <2>1. PICK r : r = [Idle EXCEPT !.at = "dir", !.call = c, !.name = n]
        OBVIOUS
    <2>2. r \in Steps /\ r.at = "dir" /\ r.name = n
        BY <1>3, <2>1 DEF Steps, Idle, Labels, CallNames, Thens
    <2>3. pc' = [pc EXCEPT ![p] = r] /\ pc[p].at = "idle" /\ Turns(p)
        BY <1>3, <2>1 DEF Start
    <2>4. pc' \in [Procs -> Steps] /\ pc'[p].at = "dir" /\ pc'[p].name = n /\ Moved(p)
        BY <1>1, <2>2, <2>3
    <2>5. InoTypes'
        BY <1>1, <1>3, <2>4, TypesOfStep DEF Start
    <2> QED
        BY <1>3, <2>3, <2>4, <2>5, BareKeeps DEF Start, Bare
<1>4. CASE Mkfifo(p)
    <2>1. PICK r : r = [Idle EXCEPT !.at = "ialloc", !.call = "mkfifo"]
        OBVIOUS
    <2>2. r \in Steps /\ r.at = "ialloc"
        BY <2>1 DEF Steps, Idle, Labels, CallNames, Thens
    <2>3. pc' = [pc EXCEPT ![p] = r] /\ pc[p].at = "idle" /\ Turns(p)
        BY <1>4, <2>1 DEF Mkfifo
    <2>4. pc' \in [Procs -> Steps] /\ pc'[p].at = "ialloc" /\ Moved(p)
        BY <1>1, <2>2, <2>3
    <2>5. InoTypes'
        BY <1>1, <1>4, <2>4, TypesOfStep DEF Mkfifo
    <2> QED
        BY <1>4, <2>3, <2>4, <2>5, BareKeeps DEF Mkfifo, Bare
<1>5. ASSUME NEW n \in Inos, Vget(p, n) PROVE Keeps(p)
    <2>1. PICK r : r = [Idle EXCEPT !.at = "iget", !.call = "vget", !.ino = n]
        OBVIOUS
    <2>2. r \in Steps /\ r.at = "iget"
        BY <2>1 DEF Steps, Idle, Labels, CallNames, Thens
    <2>3. pc' = [pc EXCEPT ![p] = r] /\ pc[p].at = "idle" /\ Turns(p)
        BY <1>5, <2>1 DEF Vget
    <2>4. pc' \in [Procs -> Steps] /\ pc'[p].at = "iget" /\ Moved(p)
        BY <1>1, <2>2, <2>3
    <2>5. InoTypes'
        BY <1>1, <1>5, <2>4, TypesOfStep DEF Vget
    <2> QED
        BY <1>5, <2>3, <2>4, <2>5, BareKeeps DEF Vget, Bare
<1>6. CASE Search(p)
    <2>1. PICK n, l : /\ n = dir[pc[p].name]
                      /\ l = CASE n # 0 -> "iget"
                               [] n = 0 /\ pc[p].call = "mkdir" -> "ialloc"
                               [] OTHER -> "done"
        OBVIOUS
    <2>2. pc' = [pc EXCEPT ![p].ino = n, ![p].at = l] /\ pc[p].at = "dir" /\ Turns(p)
        BY <1>6, <2>1 DEF Search
    <2>3. l \in {"iget", "ialloc", "done"}
        BY <2>1
    <2>4. n \in Inos \cup {0}
        <3>1. Places(p)
            BY DEF InoInv
        <3> QED
            BY <1>1, <2>1, <2>2, <3>1 DEF Places, InoTypes
    <2>5. pc' \in [Procs -> Steps] /\ pc'[p].at = l /\ Moved(p)
        BY <1>1, <2>2, <2>3, <2>4 DEF Steps, Labels
    <2>6. InoTypes'
        BY <1>1, <1>6, <2>5, TypesOfStep DEF Search
    <2> QED
        BY <1>6, <2>2, <2>3, <2>5, <2>6, BareKeeps DEF Search, Bare
<1>7. CASE Done(p)
    <2>1. pc' = [pc EXCEPT ![p] = Idle] /\ pc[p].at = "done" /\ Turns(p) /\ Idle.at = "idle"
        BY <1>7 DEF Done, Idle
    <2>2. pc' \in [Procs -> Steps] /\ pc'[p].at = "idle" /\ Moved(p)
        BY <1>1, <1>2, <2>1
    <2>3. InoTypes'
        BY <1>1, <1>7, <2>2, TypesOfStep DEF Done
    <2> QED
        BY <1>7, <2>1, <2>2, <2>3, BareKeeps DEF Done, Bare
<1>8. CASE IgetPurge(p)
    <2>1. pc' = [pc EXCEPT ![p].at = "purge"] /\ pc[p].at = "iget" /\ Turns(p)
        BY <1>8 DEF IgetPurge
    <2>2. pc' \in [Procs -> Steps] /\ pc'[p].at = "purge" /\ Moved(p)
        BY <1>1, <2>1 DEF Steps, Labels
    <2>3. InoTypes'
        BY <1>1, <1>8, <2>2, TypesOfStep DEF IgetPurge
    <2> QED
        BY <1>8, <2>1, <2>2, <2>3, BareKeeps DEF IgetPurge, Bare
<1>9. CASE IgetFull(p)
    <2>1. pc' = [pc EXCEPT ![p].at = "done"] /\ pc[p].at = "purge" /\ Turns(p)
        BY <1>9 DEF IgetFull
    <2>2. pc' \in [Procs -> Steps] /\ pc'[p].at = "done" /\ Moved(p)
        BY <1>1, <2>1 DEF Steps, Labels
    <2>3. InoTypes'
        BY <1>1, <1>9, <2>2, TypesOfStep DEF IgetFull
    <2> QED
        BY <1>9, <2>1, <2>2, <2>3, BareKeeps DEF IgetFull, Bare
<1>10. CASE Ialloc(p)
    <2>1. PICK n \in spare \ {0} : spare' = spare \ {n} /\ pc' = [pc EXCEPT ![p].ino = n, ![p].at = "iget"]
        BY <1>10 DEF Ialloc
    <2>2. pc[p].at = "ialloc" /\ Turns(p)
        BY <1>10 DEF Ialloc
    <2>3. pc' \in [Procs -> Steps] /\ pc'[p].at = "iget" /\ Moved(p)
        BY <1>1, <2>1, <2>2 DEF Steps, Labels, InoTypes
    <2>4. InoTypes'
        BY <1>1, <1>10, <2>1, <2>3 DEF Ialloc, InoTypes
    <2> QED
        BY <1>10, <2>2, <2>3, <2>4, BareKeeps DEF Ialloc, Bare
<1>11. CASE IallocScan(p)
    <2>1. pc' = [pc EXCEPT ![p].at = "scan"] /\ pc[p].at = "ialloc" /\ Turns(p)
        BY <1>11 DEF IallocScan
    <2>2. pc' \in [Procs -> Steps] /\ pc'[p].at = "scan" /\ Moved(p)
        BY <1>1, <2>1 DEF Steps, Labels
    <2>3. InoTypes'
        BY <1>1, <1>11, <2>2, TypesOfStep DEF IallocScan
    <2> QED
        BY <1>11, <2>1, <2>2, <2>3, BareKeeps DEF IallocScan, Bare
<1>12. CASE IallocScanned(p)
    <2>1. PICK l \in {"done", "ialloc"} : pc' = [pc EXCEPT ![p].at = l]
        BY <1>12 DEF IallocScanned
    <2>2. pc[p].at = "scan" /\ Turns(p)
        BY <1>12 DEF IallocScanned
    <2>3. pc' \in [Procs -> Steps] /\ pc'[p].at = l /\ Moved(p)
        BY <1>1, <2>1, <2>2 DEF Steps, Labels
    <2>4. spare' \subseteq Inos
        BY <1>12 DEF IallocScanned
    <2>5. InoTypes'
        BY <1>1, <1>12, <2>3, <2>4 DEF IallocScanned, InoTypes
    <2> QED
        BY <1>12, <2>1, <2>2, <2>3, <2>5, BareKeeps DEF IallocScanned, Bare
<1> QED
    BY <1>3, <1>4, <1>5, <1>6, <1>7, <1>8, <1>9, <1>10, <1>11, <1>12

-------------------------------------------------------------------------------
(* Steps that change no count and no lock                                  *)

\* Num, count, lock and use of an inode stay
Alike(i) == /\ inode'[i].num = inode[i].num /\ inode'[i].count = inode[i].count
            /\ inode'[i].locked = inode[i].locked /\ inode'[i].ref = inode[i].ref

\* A step that changes no count, no lock, no flag of being in use and no list
LEMMA QuietKeeps ==
    ASSUME InoInv, NEW p \in Procs, InoTypes', Moved(p), Places(p)', ForeignClean',
           ifreeq' = ifreeq, ncache' = ncache,
           \A i \in Table : /\ Alike(i) /\ Waited(i)' /\ Has(p, i)' = Has(p, i)
                            /\ Locks(p, i)' <=> Locks(p, i)
    PROVE  Keeps(p)
<1>1. NamesOurs'
    <2>1. \A i \in Table : Ours(i) => Ours(i)'
        BY DEF Alike, Ours
    <2>2. \A k \in DOMAIN ncache : Ours(ncache[k].vp)
        BY DEF InoInv, NamesOurs
    <2> QED
        BY <2>1, <2>2 DEF NamesOurs, Ours
<1>2. CountKept(p)
    <2> SUFFICES ASSUME NEW i \in Table
                 PROVE /\ inode'[i].num = Foreign <=> inode[i].num = Foreign
                       /\ inode'[i].count = inode[i].count + (Has(p, i)' - Has(p, i))
                                                           + (NamesOf(i)' - NamesOf(i))
        BY DEF CountKept
    <2>1. Has(p, i) \in Int /\ Has(p, i)' = Has(p, i)
        BY DEF Has, One
    <2>2. NamesOf(i)' = NamesOf(i) /\ NamesOf(i) \in Nat
        BY NamesOfType DEF NamesOf, InoInv
    <2>3. inode[i].count \in Int
        BY DEF InoInv, InoTypes, Incore
    <2> QED
        BY <2>1, <2>2, <2>3 DEF Alike
<1>3. LockedKept(p)
    BY DEF LockedKept, Alike
<1>4. FreeKept
    <2> SUFFICES ASSUME NEW i \in Table
                 PROVE Occurs(ifreeq, {i})' = Occurs(ifreeq, {i}) + One(~inode'[i].ref) - One(~inode[i].ref)
        BY DEF FreeKept
    <2>1. Occurs(ifreeq, {i})' = Occurs(ifreeq, {i})
        BY DEF Occurs
    <2>2. Occurs(ifreeq, {i}) \in Nat /\ One(~inode[i].ref) \in Nat
        BY DEF InoInv, FreeOnce, One
    <2>3. One(~inode'[i].ref) = One(~inode[i].ref)
        BY DEF Alike
    <2> QED
        BY <2>1, <2>2, <2>3
<1>5. LocksKept(p)
    <2>1. \A i \in Table : inode[i].locked \in BOOLEAN /\ (Locks(p, i) => inode[i].locked)
        BY DEF InoInv, InoTypes, Incore, Owned
    <2> QED
        BY <2>1 DEF LocksKept, Alike
<1>6. \A i \in Table : InUse(i)'
    BY DEF InoInv, InUse, Alike
<1> QED
    BY <1>1, <1>2, <1>3, <1>4, <1>5, <1>6 DEF Keeps

\* Nobody goes to sleep
LEMMA WaitedSame ==
    ASSUME InoInv, NEW i \in Table, wchan' = wchan, inode'[i].locked = inode[i].locked,
           inode'[i].want = inode[i].want
    PROVE  Waited(i)'
BY DEF InoInv, Waited

\* The dirty flag of an inode of this file system, or its contents, change
LEMMA ForeignCleanStays ==
    ASSUME InoInv, NEW i, Ours(i), \A j \in Table \ {i} : inode'[j] = inode[j],
           inode'[i].num = inode[i].num
    PROVE  ForeignClean'
BY DEF InoInv, ForeignClean, Ours

\* close
LEMMA CloseKeeps ==
    ASSUME InoInv, NEW p \in Procs, Close(p) PROVE Keeps(p)
<1>1. InoTypes /\ pc[p] \in Steps /\ Places(p)
    BY DEF InoInv, InoTypes
<1>2. /\ pc' = [pc EXCEPT ![p].at = "rele", ![p].vic = pc[p].ip, ![p].then = "done"]
      /\ Moved(p) /\ pc[p].at = "open"
    BY DEF Close, Release, At, Moved, InoInv, InoTypes
<1>3. pc' \in [Procs -> Steps]
    BY <1>1, <1>2 DEF InoTypes, Steps, Labels, Thens
<1>4. pc'[p].at = "rele" /\ pc'[p].vic = pc[p].ip /\ pc'[p].then = "done" /\ Ours(pc[p].ip)
    BY <1>1, <1>2 DEF InoTypes, Steps, Places
<1>5. UNCHANGED <<inode, chain, ifreeq, ncache, disk, dir, spare, wchan>>
    BY DEF Close, tables, onDisk
<1>6. InoTypes'
    BY <1>1, <1>3, <1>5, TypesOfStep
<1>7. Places(p)'
    BY <1>4, <1>5 DEF Places, Ours, Releasing
<1>8. ASSUME NEW i \in Table PROVE Has(p, i)' = Has(p, i) /\ (Locks(p, i)' <=> Locks(p, i))
    <2>1. /\ Holds(p, i) <=> pc[p].ip = i
          /\ ~Rel(p, i) /\ ~Locks(p, i)
        BY <1>2 DEF Holds, Rel, Locks, Releasing
    <2>2. /\ Rel(p, i)' <=> pc[p].ip = i
          /\ ~Holds(p, i)' /\ ~Locks(p, i)'
        BY <1>4 DEF Holds, Rel, Locks, Releasing
    <2> QED
        BY <2>1, <2>2 DEF Has, One
<1>9. ForeignClean' /\ \A i \in Table : Alike(i) /\ Waited(i)'
    BY <1>5 DEF InoInv, ForeignClean, Alike, Waited
<1> QED
    BY <1>2, <1>5, <1>6, <1>7, <1>8, <1>9, QuietKeeps

\* The process goes on with the inode it has
LEMMA OnwardKeeps ==
    ASSUME InoInv, NEW p \in Procs, InoTypes', Moved(p), Places(p)', NEW i \in Table, Ours(i),
           \A j \in Table \ {i} : inode'[j] = inode[j], Alike(i), inode'[i].want = inode[i].want,
           ifreeq' = ifreeq, ncache' = ncache, wchan' = wchan,
           pc'[p].ip = pc[p].ip, pc'[p].call = pc[p].call, ~Releasing(p), ~Releasing(p)',
           \/ /\ pc[p].at \in {"got", "write", "make", "again"}
              /\ pc'[p].at \in {"got", "write", "make", "again"} \/
                 (pc'[p].at = "enter" /\ pc[p].call = "lookup")
           \/ /\ pc[p].at \in {"addentry", "enter"} /\ pc[p].call # "lookup"
              /\ pc'[p].at \in {"enter", "ilock"}
           \/ pc[p].at = "open" /\ pc'[p].at = "open"
    PROVE  Keeps(p)
<1>1. ASSUME NEW j \in Table PROVE Has(p, j)' = Has(p, j) /\ (Locks(p, j)' <=> Locks(p, j))
    <2>1. (Holds(p, j)' <=> Holds(p, j)) /\ ~Rel(p, j) /\ ~Rel(p, j)'
        BY DEF Holds, Rel
    <2>2. Locks(p, j)' <=> Locks(p, j)
        BY DEF Locks, Releasing
    <2> QED
        BY <2>1, <2>2 DEF Has, One
<1>2. \A j \in Table : Alike(j) /\ Waited(j)'
    BY WaitedSame DEF Alike
<1>3. ForeignClean'
    BY ForeignCleanStays DEF Alike
<1> QED
    BY <1>1, <1>2, <1>3, QuietKeeps

\* A read marks the inode as changed
LEMMA ReadKeeps ==
    ASSUME InoInv, NEW p \in Procs, Read(p) PROVE Keeps(p)
<1>1. InoTypes /\ pc[p] \in Steps /\ Places(p)
    BY DEF InoInv, InoTypes
<1>2. pc[p].at = "open" /\ pc' = pc /\ Moved(p)
    BY DEF Read, At, Moved
<1>3. PICK i : i = pc[p].ip
    OBVIOUS
<1>4. Ours(i) /\ i \in Table
    BY <1>1, <1>2, <1>3 DEF Places, Ours
<1>5. inode' = [inode EXCEPT ![i].dirty = TRUE]
    BY <1>3 DEF Read
<1>6. /\ inode' \in [Table -> Incore] /\ Alike(i) /\ inode'[i].want = inode[i].want
      /\ \A j \in Table \ {i} : inode'[j] = inode[j]
    BY <1>1, <1>4, <1>5 DEF InoTypes, Incore, Alike
<1>7. InoTypes'
    BY <1>1, <1>2, <1>6 DEF Read, InoTypes, onDisk
<1>8. Places(p)'
    BY <1>2, <1>3, <1>4, <1>6 DEF Places, Ours, Releasing, Alike
<1>9. ~Releasing(p) /\ ~Releasing(p)'
    BY <1>2 DEF Releasing
<1> QED
    BY <1>2, <1>4, <1>6, <1>7, <1>8, <1>9, OnwardKeeps DEF Read

\* Goto changes the place
LEMMA GotoPlace ==
    ASSUME InoTypes, NEW p \in Procs, NEW l \in Labels, Goto(p, l)
    PROVE  /\ pc' \in [Procs -> Steps] /\ \A q \in Procs \ {p} : pc'[q] = pc[q]
           /\ pc'[p].at = l /\ pc'[p].ip = pc[p].ip /\ pc'[p].call = pc[p].call
           /\ pc'[p].name = pc[p].name /\ pc'[p].ino = pc[p].ino
           /\ pc'[p].vic = pc[p].vic /\ pc'[p].then = pc[p].then
<1>1. pc \in [Procs -> Steps] /\ pc[p] \in Steps /\ pc' = [pc EXCEPT ![p].at = l]
    BY DEF InoTypes, Goto
<1> QED
    BY <1>1 DEF Steps

\* The lookup unlocks the directory and goes on to enter the name
LEMMA GotLookupKeeps ==
    ASSUME InoInv, NEW p \in Procs, GotLookup(p) PROVE Keeps(p)
<1>1. InoTypes /\ Places(p)
    BY DEF InoInv
<1>2. /\ pc[p].at = "got" /\ pc[p].call = "lookup" /\ Turns(p) /\ Goto(p, "enter")
      /\ UNCHANGED <<inode, chain, ifreeq, ncache, disk, dir, spare, wchan>>
    BY DEF GotLookup, Got, At, tables, onDisk
<1>3. /\ pc' \in [Procs -> Steps] /\ Moved(p)
      /\ pc'[p].at = "enter" /\ pc'[p].ip = pc[p].ip /\ pc'[p].call = pc[p].call
    BY <1>1, <1>2, GotoPlace DEF Labels, Moved
<1>4. InoTypes'
    BY <1>1, <1>2, <1>3, TypesOfStep
<1>5. Ours(pc[p].ip)
    BY <1>1, <1>2 DEF Places
<1>6. ~Releasing(p) /\ ~Releasing(p)'
    BY <1>2, <1>3 DEF Releasing
<1>7. Places(p)'
    BY <1>2, <1>3, <1>5, <1>6 DEF Places, Ours
<1>8. pc[p].ip \in Table /\ Alike(pc[p].ip)
    BY <1>2, <1>5 DEF Ours, Alike
<1> QED
    BY <1>2, <1>3, <1>4, <1>5, <1>6, <1>7, <1>8, OnwardKeeps

\* The name leaves the directory
LEMMA GotRemoveKeeps ==
    ASSUME InoInv, NEW p \in Procs, GotRemove(p) PROVE Keeps(p)
<1>1. InoTypes /\ Places(p)
    BY DEF InoInv
<1>2. /\ pc[p].at = "got" /\ pc[p].call = "rmdir" /\ Turns(p) /\ Goto(p, "write")
      /\ UNCHANGED <<inode, chain, ifreeq, ncache, disk, spare, wchan>>
      /\ dir' = [dir EXCEPT ![pc[p].name] = 0]
    BY DEF GotRemove, Got, At, tables
<1>3. /\ pc' \in [Procs -> Steps] /\ Moved(p)
      /\ pc'[p].at = "write" /\ pc'[p].ip = pc[p].ip /\ pc'[p].call = pc[p].call
    BY <1>1, <1>2, GotoPlace DEF Labels, Moved
<1>4. InoTypes'
    BY <1>1, <1>2, <1>3 DEF InoTypes
<1>5. Ours(pc[p].ip)
    BY <1>1, <1>2 DEF Places
<1>6. ~Releasing(p) /\ ~Releasing(p)'
    BY <1>2, <1>3 DEF Releasing
<1>7. Places(p)'
    BY <1>2, <1>3, <1>5, <1>6 DEF Places, Ours
<1>8. pc[p].ip \in Table /\ Alike(pc[p].ip)
    BY <1>2, <1>5 DEF Ours, Alike
<1> QED
    BY <1>2, <1>3, <1>4, <1>5, <1>6, <1>7, <1>8, OnwardKeeps

\* ialloc has an inode that is free, or that is not
LEMMA MakeKeeps ==
    ASSUME InoInv, NEW p \in Procs, Make(p) \/ MakeAgain(p) PROVE Keeps(p)
<1>1. InoTypes /\ Places(p)
    BY DEF InoInv
<1>2. PICK l \in {"make", "again"} :
          /\ pc[p].at = "got" /\ pc[p].call \in {"mkfifo", "mkdir"} /\ Turns(p) /\ Goto(p, l)
          /\ UNCHANGED <<chain, ifreeq, ncache, disk, dir, spare, wchan>>
    BY DEF Make, MakeAgain, GotSpare, Got, At, onDisk
<1>3. /\ pc' \in [Procs -> Steps] /\ Moved(p)
      /\ pc'[p].at = l /\ pc'[p].ip = pc[p].ip /\ pc'[p].call = pc[p].call
    BY <1>1, <1>2, GotoPlace DEF Labels, Moved
<1>4. PICK i : i = pc[p].ip
    OBVIOUS
<1>5. Ours(i) /\ i \in Table
    BY <1>1, <1>2, <1>4 DEF Places, Ours
<1>6. PICK c \in Contents : inode' = [inode EXCEPT ![i].d = c, ![i].dirty = TRUE]
    <2>1. CASE Make(p)
        <3>1. PICK c : c = IF pc[p].call = "mkfifo" THEN Pipe ELSE Used
            OBVIOUS
        <3>2. c \in Contents
            BY <3>1 DEF Contents, Pipe, Used
        <3>3. inode' = [inode EXCEPT ![i].d = c, ![i].dirty = TRUE]
            BY <1>4, <2>1, <3>1 DEF Make
        <3> QED
            BY <3>2, <3>3
    <2>2. CASE MakeAgain(p)
        <3>1. inode' = [inode EXCEPT ![i].dirty = TRUE]
            BY <1>4, <2>2 DEF MakeAgain
        <3>2. inode[i].d \in Contents /\ [inode EXCEPT ![i].d = inode[i].d, ![i].dirty = TRUE]
                                          = [inode EXCEPT ![i].dirty = TRUE]
            BY <1>1, <1>5 DEF InoTypes, Incore
        <3> QED
            BY <3>1, <3>2
    <2> QED
        BY <2>1, <2>2
<1>7. /\ inode' \in [Table -> Incore] /\ Alike(i) /\ inode'[i].want = inode[i].want
      /\ \A j \in Table \ {i} : inode'[j] = inode[j]
    <2>1. inode \in [Table -> Incore] /\ inode[i] \in Incore
        BY <1>1, <1>5 DEF InoTypes
    <2>2. PICK r : r = [inode[i] EXCEPT !.d = c, !.dirty = TRUE]
        OBVIOUS
    <2>3. /\ r \in Incore /\ r.num = inode[i].num /\ r.count = inode[i].count
          /\ r.locked = inode[i].locked /\ r.ref = inode[i].ref /\ r.want = inode[i].want
        BY <2>1, <2>2 DEF Incore
    <2>4. inode' = [inode EXCEPT ![i] = r]
        BY <1>5, <1>6, <2>1, <2>2 DEF Incore
    <2> QED
        BY <1>5, <2>1, <2>3, <2>4 DEF Alike
<1>8. InoTypes'
    BY <1>1, <1>2, <1>3, <1>7 DEF InoTypes
<1>9. ~Releasing(p) /\ ~Releasing(p)'
    BY <1>2, <1>3 DEF Releasing
<1>10. Places(p)'
    BY <1>2, <1>3, <1>4, <1>5, <1>7, <1>9 DEF Places, Ours, Alike
<1> QED
    BY <1>2, <1>3, <1>5, <1>7, <1>8, <1>9, <1>10, OnwardKeeps

\* The new name is in the directory
LEMMA AddEntryKeeps ==
    ASSUME InoInv, NEW p \in Procs, AddEntry(p) PROVE Keeps(p)
<1>1. InoTypes /\ Places(p)
    BY DEF InoInv
<1>2. /\ pc[p].at = "addentry" /\ Turns(p) /\ Goto(p, "enter")
      /\ UNCHANGED <<inode, chain, ifreeq, ncache, disk, spare, wchan>>
      /\ dir' = [dir EXCEPT ![pc[p].name] = inode[pc[p].ip].num]
    BY DEF AddEntry, At, tables
<1>3. /\ pc' \in [Procs -> Steps] /\ Moved(p)
      /\ pc'[p].at = "enter" /\ pc'[p].ip = pc[p].ip /\ pc'[p].call = pc[p].call
    BY <1>1, <1>2, GotoPlace DEF Labels, Moved
<1>4. Ours(pc[p].ip) /\ pc[p].call = "mkdir"
    BY <1>1, <1>2 DEF Places
<1>5. inode[pc[p].ip].num \in Inos \cup {0}
    BY <1>1, <1>4 DEF Ours, InoTypes, Incore
<1>6. InoTypes'
    BY <1>1, <1>2, <1>3, <1>5 DEF InoTypes
<1>7. ~Releasing(p) /\ ~Releasing(p)'
    BY <1>2, <1>3 DEF Releasing
<1>8. Places(p)'
    BY <1>2, <1>3, <1>4, <1>7 DEF Places, Ours
<1>9. pc[p].ip \in Table /\ Alike(pc[p].ip)
    BY <1>2, <1>4 DEF Ours, Alike
<1> QED
    BY <1>2, <1>3, <1>4, <1>6, <1>7, <1>8, <1>9, OnwardKeeps

\* The name is not entered, and the inode is released with no link
LEMMA AddEntryFailsKeeps ==
    ASSUME InoInv, NEW p \in Procs, AddEntryFails(p) PROVE Keeps(p)
<1>1. InoTypes /\ pc[p] \in Steps /\ Places(p)
    BY DEF InoInv, InoTypes
<1>2. PICK i : i = pc[p].ip
    OBVIOUS
<1>3. /\ pc' = [pc EXCEPT ![p].at = "rele", ![p].vic = i, ![p].then = "done"]
      /\ Moved(p) /\ pc[p].at = "addentry" /\ pc[p].call = "mkdir"
    BY <1>2 DEF AddEntryFails, Release, At, Moved, InoInv, InoTypes, Places
<1>4. Ours(i) /\ i \in Table /\ inode[i] \in Incore
    BY <1>1, <1>2, <1>3 DEF Places, Ours, InoTypes
<1>5. pc' \in [Procs -> Steps]
    BY <1>1, <1>3, <1>4 DEF InoTypes, Steps, Labels, Thens
<1>6. pc'[p].at = "rele" /\ pc'[p].vic = i /\ pc'[p].then = "done"
    BY <1>1, <1>3 DEF InoTypes, Steps
<1>7. PICK r : r = [inode[i] EXCEPT !.d.nlink = 0, !.dirty = TRUE]
    OBVIOUS
<1>8. /\ r \in Incore /\ r.num = inode[i].num /\ r.locked = inode[i].locked
      /\ r.want = inode[i].want /\ r.ref = inode[i].ref /\ r.count = inode[i].count
    BY <1>4, <1>7 DEF Incore, Contents
<1>9. inode' = [inode EXCEPT ![i] = r] /\ UNCHANGED <<chain, ifreeq, ncache, disk, dir, spare, wchan>>
    BY <1>2, <1>7 DEF AddEntryFails, onDisk
<1>10. /\ inode' \in [Table -> Incore] /\ Alike(i) /\ inode'[i].want = inode[i].want
       /\ \A j \in Table \ {i} : inode'[j] = inode[j]
    BY <1>1, <1>4, <1>8, <1>9 DEF InoTypes, Alike
<1>11. InoTypes'
    BY <1>1, <1>5, <1>9, <1>10 DEF InoTypes
<1>12. Places(p)'
    BY <1>4, <1>6, <1>10 DEF Places, Ours, Releasing, Alike
<1>13. ASSUME NEW j \in Table PROVE Has(p, j)' = Has(p, j) /\ (Locks(p, j)' <=> Locks(p, j))
    <2>1. (Holds(p, j) <=> i = j) /\ ~Rel(p, j) /\ ~Locks(p, j)
        BY <1>2, <1>3 DEF Holds, Rel, Locks, Releasing
    <2>2. (Rel(p, j)' <=> i = j) /\ ~Holds(p, j)' /\ ~Locks(p, j)'
        BY <1>6 DEF Holds, Rel, Locks, Releasing
    <2> QED
        BY <2>1, <2>2 DEF Has, One
<1>14. ForeignClean'
    BY <1>4, <1>10, ForeignCleanStays DEF Alike
<1>15. \A j \in Table : Alike(j) /\ Waited(j)'
    BY <1>9, <1>10, WaitedSame DEF Alike
<1> QED
    BY <1>3, <1>9, <1>11, <1>12, <1>13, <1>14, <1>15, QuietKeeps

\* What iupdat leaves on the disk
LEMMA WrittenTypes ==
    ASSUME InoTypes, NEW i, NEW d \in Contents, NEW ok, Written(i, d, ok)
    PROVE  disk' \in [Inos \cup {0} -> Contents]
BY DEF Written, InoTypes

\* The file is truncated
LEMMA TruncatedKeeps ==
    ASSUME InoInv, NEW p \in Procs, Truncated(p) PROVE Keeps(p)
<1>1. InoTypes /\ Places(p)
    BY DEF InoInv
<1>2. /\ pc[p].at = "trunc" /\ Turns(p) /\ Goto(p, "flush")
      /\ UNCHANGED <<chain, ifreeq, ncache, dir, wchan>>
    BY DEF Truncated, At
<1>3. /\ pc' \in [Procs -> Steps] /\ Moved(p)
      /\ pc'[p].at = "flush" /\ pc'[p].ip = pc[p].ip /\ pc'[p].call = pc[p].call
      /\ pc'[p].vic = pc[p].vic /\ pc'[p].then = pc[p].then
    BY <1>1, <1>2, GotoPlace DEF Labels, Moved
<1>4. PICK i : i = pc[p].vic
    OBVIOUS
<1>5. Ours(i) /\ i \in Table /\ inode[i] \in Incore /\ inode[i].num \in Inos \cup {0}
    BY <1>1, <1>2, <1>4 DEF Places, Ours, Releasing, InoTypes, Incore
<1>6. inode' = [inode EXCEPT ![i].d = Unused] /\ Unused \in Contents
    BY <1>4 DEF Truncated, Contents, Unused
<1>7. /\ inode' \in [Table -> Incore] /\ Alike(i) /\ inode'[i].want = inode[i].want
      /\ \A j \in Table \ {i} : inode'[j] = inode[j]
    BY <1>1, <1>5, <1>6 DEF InoTypes, Incore, Alike
<1>8. disk' \in [Inos \cup {0} -> Contents]
    <2>1. PICK d \in Contents : \E ok : Written(i, d, ok)
        BY <1>4, <1>5 DEF Truncated, Incore
    <2> QED
        BY <1>1, <2>1, WrittenTypes
<1>9. spare' \subseteq Inos \cup {0}
    BY <1>1, <1>4, <1>5 DEF Truncated, Ifree, InoTypes
<1>10. InoTypes'
    BY <1>1, <1>2, <1>3, <1>7, <1>8, <1>9 DEF InoTypes
<1>11. Places(p)'
    <2>1. Ours(pc[p].ip) => Ours(pc[p].ip)'
        BY <1>3, <1>7 DEF Ours, Alike
    <2> QED
        BY <1>1, <1>2, <1>3, <1>4, <1>5, <1>7, <2>1 DEF Places, Ours, Alike, Releasing
<1>12. ASSUME NEW j \in Table PROVE Has(p, j)' = Has(p, j) /\ (Locks(p, j)' <=> Locks(p, j))
    <2>1. (Holds(p, j)' <=> Holds(p, j)) /\ ~Rel(p, j) /\ ~Rel(p, j)'
        BY <1>2, <1>3 DEF Holds, Rel, Releasing
    <2>2. Locks(p, j)' <=> Locks(p, j)
        BY <1>2, <1>3 DEF Locks, Releasing
    <2> QED
        BY <2>1, <2>2 DEF Has, One
<1>13. \A j \in Table : Alike(j) /\ Waited(j)'
    BY <1>2, <1>7, WaitedSame DEF Alike
<1>14. ForeignClean'
    BY <1>5, <1>7, ForeignCleanStays DEF Alike
<1> QED
    BY <1>2, <1>3, <1>10, <1>11, <1>12, <1>13, <1>14, QuietKeeps

-------------------------------------------------------------------------------
(* Steps that sleep, and steps that unlock                                 *)

\* Channels of inodes
LEMMA Channels == \A i, j : Pinod(i) # NoChan /\ (Pinod(i) = Pinod(j) => i = j)
BY DEF Pinod, NoChan

\* An inode in core is one of this file system
LEMMA FoundOurs ==
    ASSUME InoTypes, NEW n \in Inos \cup {0}, NEW i \in Found(n) PROVE Ours(i) /\ inode[i].num = n
<1>1. i \in ToSet(chain) /\ inode[i].num = n
    BY DEF Found
<1>2. i \in Table
    <2>1. chain \in Seq(Table)
        BY DEF InoTypes
    <2> QED
        BY <1>1, <2>1, LenProperties, ElementOfSeq DEF ToSet
<1> QED
    BY <1>1, <1>2, InodesAssumption DEF Ours, Foreign

\* A process goes to sleep on an inode that is locked, and marks it as wanted
LEMMA SleepKeeps ==
    ASSUME InoInv, NEW p \in Procs, NEW i \in Table, Ours(i), Turns(p), inode[i].locked,
           inode' = [inode EXCEPT ![i].want = TRUE], Sleep(p, Pinod(i), {}),
           UNCHANGED <<chain, ifreeq, ncache, disk, dir, spare, pc>>
    PROVE  Keeps(p)
<1>1. InoTypes /\ Places(p)
    BY DEF InoInv
<1>2. /\ inode' \in [Table -> Incore] /\ Alike(i) /\ inode'[i].want /\ inode'[i].dirty = inode[i].dirty
      /\ \A j \in Table \ {i} : inode'[j] = inode[j]
    BY <1>1 DEF InoTypes, Incore, Alike
<1>3. /\ wchan' \in [Procs -> Chans]
      /\ wchan'[p] = Pinod(i) /\ \A q \in Procs \ {p} : wchan'[q] = wchan[q]
    <2>1. Woken({}) = wchan
        BY <1>1 DEF Woken, InoTypes
    <2>2. wchan' = [wchan EXCEPT ![p] = Pinod(i)]
        BY <2>1 DEF Sleep
    <2> QED
        BY <1>1, <2>2 DEF InoTypes, Chans
<1>4. InoTypes'
    BY <1>1, <1>2, <1>3 DEF InoTypes
<1>5. Moved(p)
    BY DEF Moved
<1>6. \A j \in Table : Alike(j)
    BY <1>2 DEF Alike
<1>7. Places(p)'
    BY <1>1, <1>6 DEF Places, Ours, Releasing, Alike
<1>8. ASSUME NEW j \in Table PROVE Has(p, j)' = Has(p, j) /\ (Locks(p, j)' <=> Locks(p, j))
    BY DEF Has, One, Holds, Rel, Locks, Releasing
<1>9. ASSUME NEW j \in Table PROVE Waited(j)'
    <2> SUFFICES ASSUME NEW q \in Procs, wchan'[q] = Pinod(j) PROVE inode'[j].locked /\ inode'[j].want
        BY DEF Waited
    <2>1. CASE q = p
        <3>1. Pinod(i) = Pinod(j)
            BY <1>3, <2>1
        <3>2. i = j
            BY <3>1, Channels
        <3> QED
            BY <1>2, <3>2 DEF Alike
    <2>2. CASE q # p
        BY <1>2, <1>3, <2>2 DEF InoInv, Waited, Alike
    <2> QED
        BY <2>1, <2>2
<1>10. ForeignClean'
    BY <1>2, ForeignCleanStays DEF Alike
<1> QED
    BY <1>4, <1>5, <1>6, <1>7, <1>8, <1>9, <1>10, QuietKeeps

\* iget waits for the lock
LEMMA IgetWaitKeeps ==
    ASSUME InoInv, NEW p \in Procs, IgetWait(p) PROVE Keeps(p)
<1>1. PICK i \in Found(pc[p].ino) : /\ inode[i].locked
                                    /\ inode' = [inode EXCEPT ![i].want = TRUE]
                                    /\ Sleep(p, Pinod(i), {})
    BY DEF IgetWait
<1>2. pc[p].ino \in Inos \cup {0} /\ InoTypes
    BY DEF InoInv, InoTypes, Steps
<1>3. Ours(i) /\ i \in Table
    BY <1>2, FoundOurs DEF Ours
<1>4. Turns(p) /\ UNCHANGED <<chain, ifreeq, ncache, disk, dir, spare, pc>>
    BY DEF IgetWait, At, onDisk
<1> QED
    BY <1>1, <1>3, <1>4, SleepKeeps

\* A call ends with the inode open
LEMMA OpenStep ==
    ASSUME InoTypes, NEW p \in Procs, NEW i \in Table, Open(p, i)
    PROVE  \E s \in Steps : pc' = [pc EXCEPT ![p] = s] /\ s.at = "open" /\ s.ip = i
<1>1. PICK c \in CallNames : c = IF pc[p].call = "vget" THEN "vget" ELSE "none"
    BY DEF CallNames
<1>2. PICK s : s = [Idle EXCEPT !.at = "open", !.ip = i, !.call = c]
    OBVIOUS
<1>3. s \in Steps /\ s.at = "open" /\ s.ip = i
    BY <1>2 DEF Idle, Steps, Labels, CallNames, Thens
<1>4. pc' = [pc EXCEPT ![p] = s]
    BY <1>1, <1>2 DEF Open
<1> QED
    BY <1>3, <1>4

\* ilock waits for the lock, or finds the inode unlocked
LEMMA IlockKeeps ==
    ASSUME InoInv, NEW p \in Procs, Ilock(p) PROVE Keeps(p)
<1>1. InoTypes /\ Places(p) /\ pc[p] \in Steps
    BY DEF InoInv, InoTypes
<1>2. PICK i : i = pc[p].ip
    OBVIOUS
<1>3. pc[p].at = "ilock" /\ Turns(p) /\ UNCHANGED <<chain, ifreeq, ncache, disk, dir, spare>>
    BY DEF Ilock, At, onDisk
<1>4. Ours(i) /\ i \in Table
    BY <1>1, <1>2, <1>3 DEF Places, Ours
<1>5. CASE inode[i].locked
    <2>1. inode' = [inode EXCEPT ![i].want = TRUE] /\ Sleep(p, Pinod(i), {}) /\ UNCHANGED pc
        BY <1>2, <1>5 DEF Ilock
    <2> QED
        BY <1>3, <1>4, <1>5, <2>1, SleepKeeps
<1>6. CASE ~inode[i].locked
    <2>1. Open(p, i) /\ inode' = inode /\ wchan' = wchan
        BY <1>2, <1>6 DEF Ilock
    <2>2. PICK r \in Steps : pc' = [pc EXCEPT ![p] = r] /\ r.at = "open" /\ r.ip = i
        BY <1>1, <1>4, <2>1, OpenStep
    <2>3. pc' = [pc EXCEPT ![p] = r] /\ inode' = inode /\ wchan' = wchan
        BY <2>1, <2>2
    <2>4. /\ pc' \in [Procs -> Steps] /\ Moved(p) /\ pc'[p].at = "open" /\ pc'[p].ip = i
          /\ \A q \in Procs \ {p} : pc'[q] = pc[q]
        BY <1>1, <1>3, <2>2, <2>3 DEF InoTypes, Moved
    <2>5. InoTypes'
        BY <1>1, <1>3, <2>3, <2>4, TypesOfStep
    <2>6. Places(p)'
        BY <1>4, <2>3, <2>4 DEF Places, Ours, Releasing
    <2>7. ASSUME NEW j \in Table PROVE Has(p, j)' = Has(p, j) /\ (Locks(p, j)' <=> Locks(p, j))
        <3>1. (Holds(p, j)' <=> Holds(p, j)) /\ ~Rel(p, j) /\ ~Rel(p, j)'
            BY <1>2, <1>3, <2>4 DEF Holds, Rel, Releasing
        <3>2. ~Locks(p, j)' /\ ~Locks(p, j)
            BY <1>3, <2>4 DEF Locks, Releasing
        <3> QED
            BY <3>1, <3>2 DEF Has, One
    <2>8. ForeignClean' /\ \A j \in Table : Alike(j) /\ Waited(j)'
        BY <2>3 DEF InoInv, ForeignClean, Alike, Waited
    <2> QED
        BY <1>3, <2>4, <2>5, <2>6, <2>7, <2>8, QuietKeeps
<1> QED
    BY <1>5, <1>6

\* Nobody sleeps any more on an inode that is unlocked
LEMMA UnlockWakes ==
    ASSUME InoInv, NEW i \in Table, Wakeup(WakesOn(i))
    PROVE  /\ wchan' \in [Procs -> Chans]
           /\ \A q \in Procs, j \in Table : wchan'[q] = Pinod(j) => wchan[q] = Pinod(j) /\ j # i
<1>1. InoTypes
    BY DEF InoInv
<1>2. \A q \in Procs : wchan'[q] = IF wchan[q] \in WakesOn(i) THEN NoChan ELSE wchan[q]
    BY DEF Wakeup, Woken
<1>3. wchan' \in [Procs -> Chans]
    BY <1>1 DEF Wakeup, Woken, InoTypes, Chans
<1>4. ASSUME NEW q \in Procs, NEW j \in Table, wchan'[q] = Pinod(j) PROVE wchan[q] = Pinod(j) /\ j # i
    <2>1. wchan[q] = Pinod(j) /\ wchan[q] \notin WakesOn(i)
        BY <1>2, <1>4, Channels
    <2>2. wchan[q] = Pinod(i) => inode[i].want
        BY DEF InoInv, Waited
    <2> QED
        BY <2>1, <2>2 DEF WakesOn
<1> QED
    BY <1>3, <1>4

\* p unlocks i and changes no count
LEMMA UnlockKeeps ==
    ASSUME InoInv, NEW p \in Procs, NEW i \in Table, Locks(p, i), InoTypes', Moved(p), Places(p)',
           ForeignClean', ifreeq' = ifreeq, ncache' = ncache, Wakeup(WakesOn(i)),
           inode'[i].num = inode[i].num, inode'[i].count = inode[i].count,
           inode'[i].ref = inode[i].ref, ~inode'[i].locked,
           \A j \in Table \ {i} : inode'[j] = inode[j],
           \A j \in Table : Has(p, j)' = Has(p, j) /\ (Locks(p, j)' <=> Locks(p, j) /\ j # i)
    PROVE  Keeps(p)
<1>1. NamesOurs'
    <2>1. \A j \in Table : Ours(j) => Ours(j)'
        BY DEF Ours
    <2>2. \A k \in DOMAIN ncache : Ours(ncache[k].vp)
        BY DEF InoInv, NamesOurs
    <2> QED
        BY <2>1, <2>2 DEF NamesOurs, Ours
<1>2. CountKept(p)
    <2> SUFFICES ASSUME NEW j \in Table
                 PROVE /\ inode'[j].num = Foreign <=> inode[j].num = Foreign
                       /\ inode'[j].count = inode[j].count + (Has(p, j)' - Has(p, j))
                                                           + (NamesOf(j)' - NamesOf(j))
        BY DEF CountKept
    <2>1. Has(p, j) \in Int /\ Has(p, j)' = Has(p, j)
        BY DEF Has, One
    <2>2. NamesOf(j)' = NamesOf(j) /\ NamesOf(j) \in Nat
        BY NamesOfType DEF NamesOf, InoInv
    <2>3. inode[j].count \in Int
        BY DEF InoInv, InoTypes, Incore
    <2> QED
        BY <2>1, <2>2, <2>3
<1>3. LockedKept(p)
    BY DEF LockedKept
<1>4. FreeKept
    <2> SUFFICES ASSUME NEW j \in Table
                 PROVE Occurs(ifreeq, {j})' = Occurs(ifreeq, {j}) + One(~inode'[j].ref) - One(~inode[j].ref)
        BY DEF FreeKept
    <2>1. Occurs(ifreeq, {j})' = Occurs(ifreeq, {j})
        BY DEF Occurs
    <2>2. Occurs(ifreeq, {j}) \in Nat /\ One(~inode[j].ref) \in Nat
        BY DEF InoInv, FreeOnce, One
    <2>3. One(~inode'[j].ref) = One(~inode[j].ref)
        OBVIOUS
    <2> QED
        BY <2>1, <2>2, <2>3
<1>5. LocksKept(p)
    <2>1. \A j \in Table : inode[j].locked \in BOOLEAN /\ (Locks(p, j) => inode[j].locked)
        BY DEF InoInv, InoTypes, Incore, Owned
    <2> QED
        BY <2>1 DEF LocksKept
<1>6. \A j \in Table : InUse(j)'
    BY DEF InoInv, InUse
<1>7. \A j \in Table : Waited(j)'
    <2> SUFFICES ASSUME NEW j \in Table, NEW q \in Procs, wchan'[q] = Pinod(j)
                 PROVE  inode'[j].locked /\ inode'[j].want
        BY DEF Waited
    <2>1. wchan[q] = Pinod(j) /\ j # i
        BY UnlockWakes
    <2> QED
        BY <2>1 DEF InoInv, Waited
<1> QED
    BY <1>1, <1>2, <1>3, <1>4, <1>5, <1>6, <1>7 DEF Keeps

\* It unlocks the inode it has, and keeps it or is about to release it
LEMMA HandsOn ==
    ASSUME InoInv, NEW p \in Procs, NEW i \in Table, Turns(p), i = pc[p].ip,
           \/ pc[p].at \in {"got", "write", "make", "again", "update"}
           \/ pc[p].at = "enter" /\ pc[p].call = "lookup",
           NEW r \in Incore, inode' = [inode EXCEPT ![i] = r], ~r.locked,
           r.num = inode[i].num, r.count = inode[i].count, r.ref = inode[i].ref,
           UNCHANGED <<chain, ifreeq, ncache, dir, spare>>,
           disk' \in [Inos \cup {0} -> Contents],
           Wakeup(WakesOn(i)),
           NEW s \in Steps, pc' = [pc EXCEPT ![p] = s],
           \/ s.at = "rele" /\ s.vic = i /\ s.then \in {"done", "ialloc"}
           \/ s.at = "open" /\ s.ip = i
           \/ s.at = "addentry" /\ s.ip = i /\ s.call = "mkdir"
    PROVE  Keeps(p)
<1>1. InoTypes /\ Places(p)
    BY DEF InoInv
<1>2. /\ pc' \in [Procs -> Steps] /\ Moved(p) /\ pc'[p] = s
    BY <1>1 DEF InoTypes, Moved
<1>3. /\ inode' \in [Table -> Incore] /\ inode'[i] = r /\ \A j \in Table \ {i} : inode'[j] = inode[j]
    BY <1>1 DEF InoTypes
<1>4. Ours(i)
    BY <1>1 DEF Places
<1>6. InoTypes'
    BY <1>1, <1>2, <1>3, UnlockWakes DEF InoTypes
<1>7. Ours(i)'
    BY <1>3, <1>4 DEF Ours
<1>8. Places(p)'
    BY <1>2, <1>7 DEF Places, Ours, Releasing
<1>9. ForeignClean'
    BY <1>3, <1>4, ForeignCleanStays
<1>10. Locks(p, i)
    BY DEF Locks
<1>11. ASSUME NEW j \in Table PROVE Has(p, j)' = Has(p, j) /\ (Locks(p, j)' <=> Locks(p, j) /\ j # i)
    <2>1. ~Locks(p, j)'
        BY <1>2 DEF Locks, Releasing
    <2>2. Locks(p, j) <=> j = i
        BY DEF Locks, Releasing
    <2>3. (Holds(p, j) <=> j = i) /\ ~Rel(p, j)
        BY DEF Holds, Rel, Releasing
    <2>4. CASE s.at = "rele"
        <3>1. ~Holds(p, j)' /\ (Rel(p, j)' <=> j = i)
            BY <1>2, <2>4 DEF Holds, Rel, Releasing
        <3> QED
            BY <2>1, <2>2, <2>3, <3>1 DEF Has, One
    <2>5. CASE s.at \in {"open", "addentry"}
        <3>1. (Holds(p, j)' <=> j = i) /\ ~Rel(p, j)'
            BY <1>2, <2>5 DEF Holds, Rel, Releasing
        <3> QED
            BY <2>1, <2>2, <2>3, <3>1 DEF Has, One
    <2> QED
        BY <2>4, <2>5
<1> QED
    BY <1>2, <1>3, <1>6, <1>8, <1>9, <1>10, <1>11, UnlockKeeps

\* IUNLOCK
LEMMA IunlockedType ==
    ASSUME NEW r \in Incore
    PROVE  /\ Iunlocked(r) \in Incore /\ ~Iunlocked(r).locked /\ ~Iunlocked(r).want
           /\ Iunlocked(r).num = r.num /\ Iunlocked(r).count = r.count /\ Iunlocked(r).ref = r.ref
           /\ Iunlocked(r).dirty = r.dirty /\ Iunlocked(r).d = r.d
BY DEF Iunlocked, Incore

\* The steps that unlock the inode that the process has
LEMMA UnlockSteps ==
    ASSUME InoInv, NEW p \in Procs,
           \/ GotHandle(p) \/ GotExisting(p) \/ GotBusy(p) \/ RemoveDone(p) \/ Again(p) \/ Made(p)
           \/ Updated(p)
    PROVE  Keeps(p)
<1>1. InoTypes /\ Places(p) /\ pc[p] \in Steps
    BY DEF InoInv, InoTypes
<1>2. PICK i : i = pc[p].ip
    OBVIOUS
<1>3. pc[p].at \in {"got", "write", "make", "again", "update"} /\ Turns(p)
    BY DEF GotHandle, GotExisting, GotBusy, RemoveDone, Again, Made, Updated, Got, At
<1>4. i \in Table /\ inode[i] \in Incore
    BY <1>1, <1>2, <1>3 DEF Places, Ours, InoTypes
<1>5. PICK u : u = Iunlocked(inode[i])
    OBVIOUS
<1>6. /\ u \in Incore /\ ~u.locked /\ ~u.want /\ u.num = inode[i].num /\ u.count = inode[i].count
      /\ u.ref = inode[i].ref
    BY <1>4, <1>5, IunlockedType
<1>7. Wakeup(WakesOn(i)) /\ UNCHANGED <<chain, ifreeq, ncache, dir, spare>>
    BY <1>2 DEF GotHandle, GotExisting, GotBusy, RemoveDone, Again, Made, Updated, onDisk
<1>8. disk' \in [Inos \cup {0} -> Contents]
    <2>1. CASE GotHandle(p) \/ GotExisting(p) \/ GotBusy(p)
        BY <1>1, <2>1 DEF GotHandle, GotExisting, GotBusy, onDisk, InoTypes
    <2>2. CASE RemoveDone(p)
        <3>1. PICK d : d = [inode[i].d EXCEPT !.nlink = 0]
            OBVIOUS
        <3>2. d \in Contents
            BY <1>4, <3>1 DEF Incore, Contents
        <3>3. PICK ok : Written(i, d, ok)
            BY <1>2, <2>2, <3>1 DEF RemoveDone
        <3> QED
            BY <1>1, <3>2, <3>3, WrittenTypes
    <2>3. CASE Again(p) \/ Made(p) \/ Updated(p)
        <3>1. PICK d : d = inode[i].d
            OBVIOUS
        <3>2. d \in Contents
            BY <1>4, <3>1 DEF Incore
        <3>3. PICK ok : Written(i, d, ok)
            BY <1>2, <2>3, <3>1 DEF Again, Made, Updated
        <3> QED
            BY <1>1, <3>2, <3>3, WrittenTypes
    <2> QED
        BY <2>1, <2>2, <2>3
<1>9. PICK r \in Incore : /\ inode' = [inode EXCEPT ![i] = r] /\ ~r.locked
                          /\ r.num = inode[i].num /\ r.count = inode[i].count /\ r.ref = inode[i].ref
    <2>1. CASE GotHandle(p) \/ GotExisting(p) \/ GotBusy(p)
        <3>1. inode' = [inode EXCEPT ![i] = u]
            BY <1>2, <1>5, <2>1 DEF GotHandle, GotExisting, GotBusy
        <3> QED
            BY <1>6, <3>1
    <2>2. CASE RemoveDone(p)
        <3>1. PICK v : v = [u EXCEPT !.dirty = TRUE, !.d.nlink = 0]
            OBVIOUS
        <3>2. inode' = [inode EXCEPT ![i] = v]
            BY <1>2, <1>5, <2>2, <3>1 DEF RemoveDone
        <3>3. /\ v \in Incore /\ ~v.locked /\ v.num = u.num /\ v.count = u.count /\ v.ref = u.ref
            BY <1>6, <3>1 DEF Incore, Contents
        <3> QED
            BY <1>6, <3>2, <3>3
    <2>3. CASE Again(p) \/ Made(p) \/ Updated(p)
        <3>0. PICK b \in BOOLEAN : inode' = [inode EXCEPT ![i] = [u EXCEPT !.dirty = b]]
            <4>1. CASE Again(p) \/ Updated(p)
                BY <1>2, <1>5, <4>1 DEF Again, Updated
            <4>2. CASE Made(p)
                BY <1>2, <1>5, <4>2 DEF Made
            <4> QED
                BY <2>3, <4>1, <4>2
        <3>1. PICK v : v = [u EXCEPT !.dirty = b]
            OBVIOUS
        <3>2. inode' = [inode EXCEPT ![i] = v]
            BY <3>0, <3>1
        <3>3. /\ v \in Incore /\ ~v.locked /\ v.num = u.num /\ v.count = u.count /\ v.ref = u.ref
            BY <1>6, <3>1 DEF Incore
        <3> QED
            BY <1>6, <3>2, <3>3
    <2> QED
        BY <2>1, <2>2, <2>3
<1>10. PICK s \in Steps : /\ pc' = [pc EXCEPT ![p] = s]
                          /\ \/ s.at = "rele" /\ s.vic = i /\ s.then \in {"done", "ialloc"}
                             \/ s.at = "open" /\ s.ip = i
                             \/ s.at = "addentry" /\ s.ip = i /\ s.call = "mkdir"
    <2>1. CASE GotHandle(p) \/ (Made(p) /\ pc[p].call = "mkfifo")
        <3>1. Open(p, i)
            BY <1>2, <2>1 DEF GotHandle, Made
        <3> QED
            BY <1>1, <1>4, <3>1, OpenStep
    <2>2. CASE Made(p) /\ pc[p].call # "mkfifo"
        <3>1. PICK s : s = [pc[p] EXCEPT !.at = "addentry"]
            OBVIOUS
        <3>2. pc[p].call = "mkdir"
            BY <1>1, <2>2 DEF Made, At, Places
        <3>3. s \in Steps /\ s.at = "addentry" /\ s.ip = i /\ s.call = "mkdir"
            BY <1>1, <1>2, <3>1, <3>2 DEF Steps, Labels
        <3>4. pc' = [pc EXCEPT ![p] = s]
            BY <1>1, <2>2, <3>1 DEF Made, Goto
        <3> QED
            BY <3>3, <3>4
    <2>3. CASE GotExisting(p) \/ GotBusy(p) \/ RemoveDone(p) \/ Updated(p) \/ Again(p)
        <3>1. PICK t \in {"done", "ialloc"} : Release(p, i, t)
            BY <1>2, <2>3 DEF GotExisting, GotBusy, RemoveDone, Updated, Again
        <3>2. PICK s : s = [pc[p] EXCEPT !.at = "rele", !.vic = i, !.then = t]
            OBVIOUS
        <3>3. s \in Steps /\ s.at = "rele" /\ s.vic = i /\ s.then = t
            BY <1>1, <1>4, <3>2 DEF Steps, Labels, Thens
        <3>4. pc' = [pc EXCEPT ![p] = s]
            BY <1>1, <3>1, <3>2 DEF Release, InoTypes, Steps
        <3> QED
            BY <3>1, <3>3, <3>4
    <2> QED
        BY <2>1, <2>2, <2>3
<1> QED
    BY <1>2, <1>3, <1>4, <1>7, <1>8, <1>9, <1>10, HandsOn

\* The name is not entered
LEMMA EnterNotKeeps ==
    ASSUME InoInv, NEW p \in Procs, EnterNot(p) PROVE Keeps(p)
<1>1. InoTypes /\ Places(p) /\ pc[p] \in Steps
    BY DEF InoInv, InoTypes
<1>2. PICK i : i = pc[p].ip
    OBVIOUS
<1>3. pc[p].at = "enter" /\ Turns(p) /\ UNCHANGED <<chain, ifreeq, ncache, disk, dir, spare>>
    BY DEF EnterNot, At, onDisk
<1>4. Ours(i) /\ i \in Table /\ inode[i] \in Incore
    BY <1>1, <1>2, <1>3 DEF Places, Ours, InoTypes
<1>5. CASE pc[p].call = "lookup"
    <2>1. PICK u : u = Iunlocked(inode[i])
        OBVIOUS
    <2>2. /\ inode' = [inode EXCEPT ![i] = u] /\ Open(p, i) /\ Wakeup(WakesOn(i))
        BY <1>2, <1>5, <2>1 DEF EnterNot, Entered
    <2>3. /\ u \in Incore /\ ~u.locked /\ u.num = inode[i].num /\ u.count = inode[i].count
          /\ u.ref = inode[i].ref
        BY <1>4, <2>1, IunlockedType
    <2>4. PICK s \in Steps : pc' = [pc EXCEPT ![p] = s] /\ s.at = "open" /\ s.ip = i
        BY <1>1, <1>4, <2>2, OpenStep
    <2>5. disk' \in [Inos \cup {0} -> Contents]
        BY <1>1, <1>3 DEF InoTypes
    <2> QED
        BY <1>2, <1>3, <1>4, <1>5, <2>2, <2>3, <2>4, <2>5, HandsOn
<1>6. CASE pc[p].call # "lookup"
    <2>1. inode' = [inode EXCEPT ![i] = inode[i]] /\ Goto(p, "ilock") /\ wchan' = wchan
        BY <1>2, <1>6 DEF EnterNot, Entered
    <2>2. inode' = inode
        BY <1>1, <2>1 DEF InoTypes
    <2>3. /\ pc' \in [Procs -> Steps] /\ Moved(p)
          /\ pc'[p].at = "ilock" /\ pc'[p].ip = pc[p].ip /\ pc'[p].call = pc[p].call
        BY <1>1, <1>3, <2>1, GotoPlace DEF Labels, Moved
    <2>4. InoTypes'
        BY <1>1, <1>3, <2>1, <2>2, <2>3, TypesOfStep
    <2>5. ~Releasing(p) /\ ~Releasing(p)'
        BY <1>3, <2>3 DEF Releasing
    <2>6. Places(p)'
        BY <1>2, <1>4, <2>2, <2>3, <2>5 DEF Places, Ours
    <2>7. Alike(i)
        BY <2>2 DEF Alike
    <2> QED
        BY <1>3, <1>4, <1>6, <2>1, <2>2, <2>3, <2>4, <2>5, <2>6, <2>7, OnwardKeeps
<1> QED
    BY <1>5, <1>6

-------------------------------------------------------------------------------
(* Steps that take names from the cache and enter them                     *)

\* An entry leaves the cache
LEMMA NamesWithout ==
    ASSUME InoTypes, NEW k \in DOMAIN ncache, ncache' \in Seq(Entries), Without(ncache', ncache, k)
    PROVE  /\ \A i : NamesOf(i)' = NamesOf(i) - One(ncache[k].vp = i)
           /\ \A j \in DOMAIN ncache' : \E m \in DOMAIN ncache : ncache'[j] = ncache[m]
           /\ ncache[k] \in Entries
<1>1. PICK s, t : s = ncache /\ t = ncache'
    OBVIOUS
<1>2. s \in Seq(Entries) /\ t \in Seq(Entries) /\ k \in DOMAIN s /\ Without(t, s, k)
    BY <1>1 DEF InoTypes
<1>3. /\ Len(s) \in Nat /\ DOMAIN s = 1 .. Len(s) /\ DOMAIN t = 1 .. Len(t) /\ Len(t) = Len(s) - 1
      /\ k \in 1 .. Len(s)
    BY <1>2, LenProperties DEF Without
<1>4. s[k] \in Entries
    BY <1>2, <1>3, ElementOfSeq
<1>5. ASSUME NEW i PROVE NamesOf(i)' = NamesOf(i) - One(ncache[k].vp = i)
    <2>1. PICK V : V = {e \in Entries : e.vp = i}
        OBVIOUS
    <2>2. Occurs(t, V) = Occurs(s, V) - One(s[k] \in V)
        BY <1>2, <1>3, OccursWithout
    <2>3. One(s[k] \in V) = One(s[k].vp = i)
        BY <1>4, <2>1 DEF One
    <2>4. NamesOf(i) = Occurs(s, V) /\ NamesOf(i)' = Occurs(t, V)
        BY <1>1, <2>1 DEF NamesOf, Occurs
    <2> QED
        BY <1>1, <2>2, <2>3, <2>4
<1>6. ASSUME NEW j \in DOMAIN t PROVE \E m \in DOMAIN s : t[j] = s[m]
    <2>1. t[j] = IF j < k THEN s[j] ELSE s[j + 1]
        BY <1>2, <1>3 DEF Without
    <2>2. j \in 1 .. Len(s) /\ j + 1 \in 1 .. Len(s)
        BY <1>3
    <2> QED
        BY <1>3, <2>1, <2>2
<1> QED
    BY <1>1, <1>4, <1>5, <1>6

\* An entry comes to the cache
LEMMA NamesAppended ==
    ASSUME InoTypes, NEW e \in Entries, ncache' = Append(ncache, e)
    PROVE  /\ ncache' \in Seq(Entries)
           /\ \A i : NamesOf(i)' = NamesOf(i) + One(e.vp = i)
           /\ \A j \in DOMAIN ncache' : ncache'[j] = e \/ \E m \in DOMAIN ncache : ncache'[j] = ncache[m]
<1>1. PICK s, t : s = ncache /\ t = ncache'
    OBVIOUS
<1>2. s \in Seq(Entries) /\ t = Append(s, e)
    BY <1>1 DEF InoTypes
<1>3. /\ t \in Seq(Entries) /\ Len(t) = Len(s) + 1 /\ (\A m \in 1 .. Len(s) : t[m] = s[m])
      /\ t[Len(s) + 1] = e
    BY <1>2, AppendProperties
<1>4. Len(s) \in Nat /\ DOMAIN s = 1 .. Len(s) /\ DOMAIN t = 1 .. Len(t)
    BY <1>2, <1>3, LenProperties
<1>5. ASSUME NEW i PROVE NamesOf(i)' = NamesOf(i) + One(e.vp = i)
    <2>1. PICK V : V = {x \in Entries : x.vp = i}
        OBVIOUS
    <2>2. Occurs(t, V) = Occurs(s, V) + One(e \in V)
        BY <1>2, OccursAppend
    <2>3. One(e \in V) = One(e.vp = i)
        BY <2>1 DEF One
    <2>4. NamesOf(i) = Occurs(s, V) /\ NamesOf(i)' = Occurs(t, V)
        BY <1>1, <2>1 DEF NamesOf, Occurs
    <2> QED
        BY <2>2, <2>3, <2>4
<1>6. ASSUME NEW j \in DOMAIN t PROVE t[j] = e \/ \E m \in DOMAIN s : t[j] = s[m]
    <2>1. j \in 1 .. Len(s) \/ j = Len(s) + 1
        BY <1>3, <1>4
    <2> QED
        BY <1>3, <1>4, <2>1
<1> QED
    BY <1>1, <1>3, <1>5, <1>6

\* What does not change when the inodes do not
LEMMA SameInodes ==
    ASSUME InoInv, NEW p \in Procs, inode' = inode, ifreeq' = ifreeq, wchan' = wchan,
           \A i \in Table : Locks(p, i)' <=> Locks(p, i)
    PROVE  /\ FreeKept /\ LockedKept(p) /\ LocksKept(p) /\ ForeignClean'
           /\ \A i \in Table : InUse(i)' /\ Waited(i)' /\ (Ours(i) => Ours(i)')
<1>1. FreeKept
    <2> SUFFICES ASSUME NEW i \in Table
                 PROVE Occurs(ifreeq, {i})' = Occurs(ifreeq, {i}) + One(~inode'[i].ref) - One(~inode[i].ref)
        BY DEF FreeKept
    <2>1. Occurs(ifreeq, {i})' = Occurs(ifreeq, {i})
        BY DEF Occurs
    <2>2. Occurs(ifreeq, {i}) \in Nat /\ One(~inode[i].ref) \in Nat
        BY DEF InoInv, FreeOnce, One
    <2> QED
        BY <2>1, <2>2
<1>2. LockedKept(p)
    BY DEF LockedKept
<1>3. LocksKept(p)
    <2>1. \A i \in Table : inode[i].locked \in BOOLEAN /\ (Locks(p, i) => inode[i].locked)
        BY DEF InoInv, InoTypes, Incore, Owned
    <2> QED
        BY <2>1 DEF LocksKept
<1>4. ForeignClean' /\ \A i \in Table : InUse(i)' /\ Waited(i)' /\ (Ours(i) => Ours(i)')
    BY DEF InoInv, ForeignClean, InUse, Waited, Ours
<1> QED
    BY <1>1, <1>2, <1>3, <1>4

\* A name leaves the cache and its inode is released, and then comes what comes next
LEMMA NameReleased ==
    ASSUME InoInv, NEW p \in Procs, Turns(p), NEW k \in DOMAIN ncache,
           ncache' \in Seq(Entries), Without(ncache', ncache, k),
           UNCHANGED <<inode, chain, ifreeq, disk, dir, spare, wchan>>,
           NEW t \in Thens, Release(p, ncache[k].vp, t),
           \/ pc[p].at = "purge" /\ t = "purge"
           \/ pc[p].at = "got" /\ t = "got"
           \/ pc[p].at = "enter" /\ t = "entered"
    PROVE  Keeps(p)
<1>1. InoTypes /\ Places(p) /\ pc[p] \in Steps
    BY DEF InoInv, InoTypes
<1>2. PICK i : i = ncache[k].vp
    OBVIOUS
<1>3. ncache[k] \in Entries
    BY <1>1, NamesWithout
<1>4. i \in Table /\ Ours(i)
    BY <1>2 DEF InoInv, NamesOurs, Ours
<1>5. PICK s : s = [pc[p] EXCEPT !.at = "rele", !.vic = i, !.then = t]
    OBVIOUS
<1>6. /\ s \in Steps /\ s.at = "rele" /\ s.vic = i /\ s.then = t /\ s.ip = pc[p].ip
      /\ s.call = pc[p].call
    BY <1>1, <1>4, <1>5 DEF Steps, Labels, Thens
<1>7. pc' = [pc EXCEPT ![p] = s]
    BY <1>1, <1>2, <1>5 DEF Release, InoTypes, Steps
<1>8. pc' \in [Procs -> Steps] /\ Moved(p) /\ pc'[p] = s
    BY <1>1, <1>6, <1>7 DEF InoTypes, Moved
<1>9. InoTypes'
    BY <1>1, <1>8 DEF InoTypes
<1>10. Places(p)'
    <2>1. t \in {"got", "entered"} => Ours(pc[p].ip)
        BY <1>1 DEF Places
    <2>2. t = "entered" => pc[p].call \in {"lookup", "mkdir"}
        BY <1>1 DEF Places
    <2> QED
        BY <1>4, <1>6, <1>8, <2>1, <2>2 DEF Places, Ours, Releasing
<1>11. ASSUME NEW j \in Table
       PROVE  /\ Holds(p, j)' <=> Holds(p, j)
              /\ ~Rel(p, j) /\ (Rel(p, j)' <=> j = i)
              /\ Locks(p, j)' <=> Locks(p, j)
    BY <1>6, <1>8 DEF Holds, Rel, Locks, Releasing
<1>12. CountKept(p)
    <2> SUFFICES ASSUME NEW j \in Table
                 PROVE /\ inode'[j].num = Foreign <=> inode[j].num = Foreign
                       /\ inode'[j].count = inode[j].count + (Has(p, j)' - Has(p, j))
                                                           + (NamesOf(j)' - NamesOf(j))
        BY DEF CountKept
    <2>1. Has(p, j) \in Int /\ Has(p, j)' = Has(p, j) + One(j = i)
        BY <1>11 DEF Has, One
    <2>2. NamesOf(j)' = NamesOf(j) - One(j = i) /\ NamesOf(j) \in Nat
        <3>1. NamesOf(j)' = NamesOf(j) - One(i = j)
            BY <1>1, <1>2, NamesWithout
        <3>2. NamesOf(j) \in Nat
            BY <1>1, NamesOfType
        <3> QED
            BY <3>1, <3>2 DEF One
    <2>3. inode[j].count \in Int /\ One(j = i) \in Int
        BY <1>1 DEF InoTypes, Incore, One
    <2> QED
        BY <2>1, <2>2, <2>3
<1>13. /\ FreeKept /\ LockedKept(p) /\ LocksKept(p) /\ ForeignClean'
       /\ \A j \in Table : InUse(j)' /\ Waited(j)' /\ (Ours(j) => Ours(j)')
    BY <1>11, SameInodes
<1>14. NamesOurs'
    <2>1. \A j \in DOMAIN ncache' : \E m \in DOMAIN ncache : ncache'[j] = ncache[m]
        BY <1>1, NamesWithout
    <2>2. \A m \in DOMAIN ncache : Ours(ncache[m].vp)
        BY DEF InoInv, NamesOurs
    <2> QED
        BY <1>13, <2>1, <2>2 DEF NamesOurs, Ours
<1> QED
    BY <1>8, <1>9, <1>10, <1>12, <1>13, <1>14 DEF Keeps

\* The steps that take a name from the cache
LEMMA NameSteps ==
    ASSUME InoInv, NEW p \in Procs, Purge(p) \/ GotCached(p) \/ EnterOver(p) PROVE Keeps(p)
<1>1. ncache \in Seq(Entries) /\ DOMAIN ncache = 1 .. Len(ncache)
    BY LenProperties DEF InoInv, InoTypes
<1>2. Turns(p) /\ UNCHANGED <<inode, chain, ifreeq, disk, dir, spare, wchan>>
    BY DEF Purge, GotCached, EnterOver, Got, At, tables, onDisk
<1>3. PICK k \in DOMAIN ncache, t \in Thens :
          /\ ncache' \in Seq(Entries) /\ Without(ncache', ncache, k) /\ Release(p, ncache[k].vp, t)
          /\ \/ pc[p].at = "purge" /\ t = "purge"
             \/ pc[p].at = "got" /\ t = "got"
             \/ pc[p].at = "enter" /\ t = "entered"
    <2>1. CASE Purge(p)
        <3>1. PICK k \in DOMAIN ncache : ncache' = RemoveAt(ncache, k) /\ Release(p, ncache[k].vp, "purge")
            BY <2>1 DEF Purge
        <3>2. RemoveAt(ncache, k) \in Seq(Entries) /\ Without(RemoveAt(ncache, k), ncache, k)
            BY <1>1, OccursRemoveAt
        <3> QED
            BY <2>1, <3>1, <3>2 DEF Purge, At, Thens
    <2>2. CASE GotCached(p)
        <3>1. PICK k \in Cached(pc[p].name) : ncache' = RemoveAt(ncache, k)
                                              /\ Release(p, ncache[k].vp, "got")
            BY <2>2 DEF GotCached
        <3>2. k \in DOMAIN ncache
            BY DEF Cached
        <3>3. RemoveAt(ncache, k) \in Seq(Entries) /\ Without(RemoveAt(ncache, k), ncache, k)
            BY <1>1, <3>2, OccursRemoveAt
        <3> QED
            BY <2>2, <3>1, <3>2, <3>3 DEF GotCached, Got, At, Thens
    <2>3. CASE EnterOver(p)
        <3>1. ncache' = Tail(ncache) /\ ncache # <<>> /\ Release(p, Head(ncache).vp, "entered")
            BY <2>3 DEF EnterOver
        <3>2. Tail(ncache) \in Seq(Entries) /\ Without(Tail(ncache), ncache, 1)
            BY <1>1, <3>1, OccursTail
        <3>3. 1 \in DOMAIN ncache /\ Head(ncache) = ncache[1]
            BY <1>1, <3>1, EmptySeq
        <3> QED
            BY <2>3, <3>1, <3>2, <3>3 DEF EnterOver, At, Thens
    <2> QED
        BY <2>1, <2>2, <2>3
<1> QED
    BY <1>2, <1>3, NameReleased

-------------------------------------------------------------------------------
(* Steps that count, lock, free or take an inode                           *)

\* The free list has an inode a number of times
LEMMA FreeType ==
    ASSUME InoInv, NEW i \in Table
    PROVE  Occurs(ifreeq, {i}) \in Nat /\ Occurs(ifreeq, {i}) = One(~inode[i].ref)
<1>1. Occurs(ifreeq, {i}) = One(~inode[i].ref)
    BY DEF InoInv, FreeOnce
<1>2. One(~inode[i].ref) \in Nat
    BY DEF One
<1> QED
    BY <1>1, <1>2

\* A step that changes the inode i
LEMMA OneInodeKeeps ==
    ASSUME InoInv, NEW p \in Procs, NEW i \in Table, InoTypes', Moved(p), Places(p)', NamesOurs',
           inode[i].num # Foreign, inode'[i].num # Foreign,
           \A j \in Table \ {i} : /\ inode'[j] = inode[j]
                                  /\ Has(p, j)' - Has(p, j) + (NamesOf(j)' - NamesOf(j)) = 0
                                  /\ Locks(p, j)' <=> Locks(p, j)
                                  /\ Occurs(ifreeq, {j})' = Occurs(ifreeq, {j}),
           inode'[i].count = inode[i].count + (Has(p, i)' - Has(p, i)) + (NamesOf(i)' - NamesOf(i)),
           inode[i].locked /\ inode[i].count = 0 /\ ~Locks(p, i) => inode'[i].count = 0,
           Occurs(ifreeq, {i})' = Occurs(ifreeq, {i}) + One(~inode'[i].ref) - One(~inode[i].ref),
           Locks(p, i)' /\ ~Locks(p, i) => ~inode[i].locked,
           inode'[i].locked <=> Locks(p, i)' \/ (inode[i].locked /\ ~Locks(p, i)),
           InUse(i)', \A j \in Table : Waited(j)'
    PROVE  Keeps(p)
<1>1. ForeignClean'
    BY DEF InoInv, ForeignClean
<1>2. CountKept(p)
    <2>1. ASSUME NEW j \in Table \ {i}
          PROVE  inode'[j].count = inode[j].count + (Has(p, j)' - Has(p, j)) + (NamesOf(j)' - NamesOf(j))
        <3>1. PICK a, b, m, n : a = Has(p, j) /\ b = Has(p, j)' /\ m = NamesOf(j) /\ n = NamesOf(j)'
            OBVIOUS
        <3>2. a \in Int /\ b \in Int
            BY <3>1 DEF Has, One
        <3>3. m \in Int
            BY <3>1, NamesOfType DEF InoInv
        <3>4. n \in Int
            <4>1. PICK s, V : s = ncache' /\ V = {e \in Entries : e.vp = j}
                OBVIOUS
            <4>2. s \in Seq(Entries)
                BY <4>1 DEF InoTypes
            <4>3. Occurs(s, V) \in Nat
                BY <4>2, OccursType
            <4> QED
                BY <3>1, <4>1, <4>3 DEF NamesOf, Occurs
        <3>5. b - a + (n - m) = 0 /\ inode'[j] = inode[j]
            BY <3>1
        <3>6. inode[j].count \in Int
            BY DEF InoInv, InoTypes, Incore
        <3>7. inode'[j].count = inode[j].count + (b - a) + (n - m)
            BY <3>2, <3>3, <3>4, <3>5, <3>6
        <3> QED
            BY <3>1, <3>7
    <2> QED
        BY <2>1 DEF CountKept
<1>3. LockedKept(p)
    BY DEF LockedKept
<1>4. FreeKept
    <2> SUFFICES ASSUME NEW j \in Table
                 PROVE Occurs(ifreeq, {j})' = Occurs(ifreeq, {j}) + One(~inode'[j].ref) - One(~inode[j].ref)
        BY DEF FreeKept
    <2>1. CASE j = i
        BY <2>1
    <2>2. CASE j # i
        <3>1. Occurs(ifreeq, {j})' = Occurs(ifreeq, {j}) /\ inode'[j] = inode[j]
            BY <2>2
        <3>2. Occurs(ifreeq, {j}) \in Nat
            BY FreeType
        <3>3. One(~inode'[j].ref) = One(~inode[j].ref) /\ One(~inode[j].ref) \in Nat
            BY <3>1 DEF One
        <3> QED
            BY <3>1, <3>2, <3>3
    <2> QED
        BY <2>1, <2>2
<1>5. LocksKept(p)
    <2>1. \A j \in Table : inode[j].locked \in BOOLEAN /\ (Locks(p, j) => inode[j].locked)
        BY DEF InoInv, InoTypes, Incore, Owned
    <2> QED
        BY <2>1 DEF LocksKept
<1>6. \A j \in Table : InUse(j)'
    BY DEF InoInv, InUse
<1> QED
    BY <1>1, <1>2, <1>3, <1>4, <1>5, <1>6 DEF Keeps

\* The free list as it was
LEMMA FreeSame ==
    ASSUME ifreeq' = ifreeq PROVE \A j : Occurs(ifreeq, {j})' = Occurs(ifreeq, {j})
BY DEF Occurs

\* ... for the inode itself
LEMMA FreeStays ==
    ASSUME InoInv, NEW i \in Table, ifreeq' = ifreeq, inode'[i].ref = inode[i].ref
    PROVE  Occurs(ifreeq, {i})' = Occurs(ifreeq, {i}) + One(~inode'[i].ref) - One(~inode[i].ref)
<1>1. Occurs(ifreeq, {i})' = Occurs(ifreeq, {i}) /\ Occurs(ifreeq, {i}) \in Nat
    BY FreeSame, FreeType
<1>2. One(~inode'[i].ref) = One(~inode[i].ref) /\ One(~inode[i].ref) \in Nat
    BY DEF One
<1> QED
    BY <1>1, <1>2

\* An inode is appended
LEMMA FreeAppended ==
    ASSUME InoTypes, NEW i \in Table, ifreeq' = Append(ifreeq, i)
    PROVE  /\ ifreeq' \in Seq(Table)
           /\ \A j \in Table \ {i} : Occurs(ifreeq, {j})' = Occurs(ifreeq, {j})
           /\ Occurs(ifreeq, {i})' = Occurs(ifreeq, {i}) + 1
<1>1. PICK s, t : s = ifreeq /\ t = ifreeq'
    OBVIOUS
<1>2. s \in Seq(Table) /\ t = Append(s, i)
    BY <1>1 DEF InoTypes
<1>3. t \in Seq(Table)
    BY <1>2, OccursAppend
<1>4. ASSUME NEW j PROVE Occurs(ifreeq, {j})' = IF j = i THEN Occurs(ifreeq, {j}) + 1
                                                ELSE Occurs(ifreeq, {j})
    <2>1. PICK V : V = {j}
        OBVIOUS
    <2>2. Occurs(t, V) = Occurs(s, V) + One(i \in V) /\ Occurs(s, V) \in Nat
        BY <1>2, OccursAppend, OccursType
    <2>3. Occurs(t, V) = IF j = i THEN Occurs(s, V) + 1 ELSE Occurs(s, V)
        BY <2>1, <2>2 DEF One
    <2>4. Occurs(ifreeq, {j})' = Occurs(t, V) /\ Occurs(ifreeq, {j}) = Occurs(s, V)
        BY <1>1, <2>1 DEF Occurs
    <2> QED
        BY <2>3, <2>4
<1> QED
    BY <1>1, <1>3, <1>4

\* The first inode is taken
LEMMA FreeTail ==
    ASSUME InoTypes, ifreeq # <<>>, ifreeq' = Tail(ifreeq)
    PROVE  /\ ifreeq' \in Seq(Table) /\ Head(ifreeq) \in Table
           /\ \A j \in Table \ {Head(ifreeq)} : Occurs(ifreeq, {j})' = Occurs(ifreeq, {j})
           /\ Occurs(ifreeq, {Head(ifreeq)})  >= 1
           /\ \A j : j = Head(ifreeq) => Occurs(ifreeq, {j})' = Occurs(ifreeq, {j}) - 1
<1>1. PICK s, t, h : s = ifreeq /\ t = ifreeq' /\ h = Head(ifreeq)
    OBVIOUS
<1>2. s \in Seq(Table) /\ s # <<>> /\ t = Tail(s) /\ h = Head(s)
    BY <1>1 DEF InoTypes
<1>3. t \in Seq(Table) /\ h \in Table
    BY <1>2, OccursTail
<1>4. ASSUME NEW j PROVE Occurs(ifreeq, {j})' = IF j = h THEN Occurs(ifreeq, {j}) - 1
                                                ELSE Occurs(ifreeq, {j})
    <2>1. PICK V : V = {j}
        OBVIOUS
    <2>2. Occurs(t, V) = Occurs(s, V) - One(h \in V) /\ Occurs(s, V) \in Nat
        BY <1>2, OccursTail, OccursType
    <2>3. Occurs(t, V) = IF j = h THEN Occurs(s, V) - 1 ELSE Occurs(s, V)
        BY <2>1, <2>2 DEF One
    <2>4. Occurs(ifreeq, {j})' = Occurs(t, V) /\ Occurs(ifreeq, {j}) = Occurs(s, V)
        BY <1>1, <2>1 DEF Occurs
    <2> QED
        BY <2>3, <2>4
<1>5. Occurs(s, {h}) >= 1
    <2>1. 1 \in DOMAIN s /\ s[1] = h
        BY <1>2, LenProperties, EmptySeq
    <2> QED
        BY <1>2, <2>1, OccursType
<1> QED
    BY <1>1, <1>3, <1>4, <1>5

\* An inode is taken from the middle
LEMMA FreeRemoved ==
    ASSUME InoTypes, NEW i \in Table, ifreeq' = RemoveFirst(ifreeq, i), Occurs(ifreeq, {i}) = 1
    PROVE  /\ ifreeq' \in Seq(Table)
           /\ \A j \in Table \ {i} : Occurs(ifreeq, {j})' = Occurs(ifreeq, {j})
           /\ Occurs(ifreeq, {i})' = 0
<1>1. PICK s, t : s = ifreeq /\ t = ifreeq'
    OBVIOUS
<1>2. s \in Seq(Table) /\ t = RemoveFirst(s, i) /\ Occurs(s, {i}) = 1
    BY <1>1 DEF InoTypes
<1>3. t \in Seq(Table)
    BY <1>2, OccursRemoveFirst
<1>4. i \in ToSet(s)
    <2>1. SUFFICES ASSUME \A k \in DOMAIN s : s[k] \notin {i} PROVE FALSE
        BY DEF ToSet
    <2>2. Occurs(s, {i}) = 0
        BY <1>2, <2>1, OccursType
    <2> QED
        BY <1>2, <2>2
<1>5. ASSUME NEW j PROVE Occurs(ifreeq, {j})' = IF j = i THEN 0 ELSE Occurs(ifreeq, {j})
    <2>1. PICK V : V = {j}
        OBVIOUS
    <2>2. Occurs(t, V) = Occurs(s, V) - One(i \in V /\ i \in ToSet(s))
        BY <1>2, OccursRemoveFirst
    <2>3. Occurs(s, V) \in Nat
        BY <1>2, OccursType
    <2>4. Occurs(t, V) = IF j = i THEN Occurs(s, V) - 1 ELSE Occurs(s, V)
        BY <1>4, <2>1, <2>2, <2>3 DEF One
    <2>5. Occurs(ifreeq, {j})' = Occurs(t, V) /\ Occurs(ifreeq, {j}) = Occurs(s, V)
        BY <1>1, <2>1 DEF Occurs
    <2>6. CASE j = i
        <3>1. Occurs(s, V) = 1
            BY <1>2, <2>1, <2>6
        <3> QED
            BY <2>4, <2>5, <2>6, <3>1
    <2>7. CASE j # i
        BY <2>4, <2>5, <2>7
    <2> QED
        BY <2>6, <2>7
<1> QED
    BY <1>1, <1>3, <1>5

\* The names as they were
LEMMA NamesSame ==
    ASSUME InoInv, ncache' = ncache, \A i \in Table : Ours(i) => Ours(i)'
    PROVE  NamesOurs' /\ \A j : NamesOf(j)' = NamesOf(j) /\ NamesOf(j) \in Nat
<1>1. NamesOurs'
    <2>1. \A k \in DOMAIN ncache : Ours(ncache[k].vp)
        BY DEF InoInv, NamesOurs
    <2> QED
        BY <2>1 DEF NamesOurs, Ours
<1>2. \A j : NamesOf(j)' = NamesOf(j) /\ NamesOf(j) \in Nat
    BY NamesOfType DEF InoInv, NamesOf
<1> QED
    BY <1>1, <1>2

\* What p refers to
LEMMA HasType ==
    ASSUME NEW p, NEW i
    PROVE  /\ Has(p, i) \in Int /\ Has(p, i)' \in Int
           /\ Holds(p, i) /\ ~Rel(p, i) => Has(p, i) = 1
           /\ ~Holds(p, i) /\ Rel(p, i) => Has(p, i) = 1
           /\ ~Holds(p, i) /\ ~Rel(p, i) => Has(p, i) = 0
BY DEF Has, One

\* dirlook finds the name in the cache
LEMMA LookupCachedKeeps ==
    ASSUME InoInv, NEW p \in Procs, NEW n \in Names, LookupCached(p, n) PROVE Keeps(p)
<1>1. InoTypes /\ Places(p) /\ pc[p] \in Steps /\ ncache \in Seq(Entries)
    BY DEF InoInv, InoTypes
<1>2. PICK k \in Cached(n) :
          /\ ncache' = Append(RemoveAt(ncache, k), ncache[k])
          /\ inode' = [inode EXCEPT ![ncache[k].vp].count = @ + 1]
          /\ pc' = [pc EXCEPT ![p] = [Idle EXCEPT !.at = "ilock", !.call = "lookup", !.name = n,
                                                  !.ip = ncache[k].vp]]
    BY DEF LookupCached
<1>3. /\ pc[p].at = "idle" /\ Turns(p)
      /\ UNCHANGED <<chain, ifreeq, disk, dir, spare, wchan>>
    BY DEF LookupCached, At, onDisk
<1>4. PICK i : i = ncache[k].vp
    OBVIOUS
<1>5. k \in DOMAIN ncache
    BY DEF Cached
<1>6. Ours(i) /\ i \in Table
    BY <1>4, <1>5 DEF InoInv, NamesOurs, Ours
<1>7. /\ ncache' \in Seq(Entries)
      /\ \A j : NamesOf(j)' = NamesOf(j) /\ NamesOf(j) \in Nat
      /\ \A m \in DOMAIN ncache' : \E l \in DOMAIN ncache : ncache'[m] = ncache[l]
    <2>1. PICK r : r = RemoveAt(ncache, k)
        OBVIOUS
    <2>2. /\ r \in Seq(Entries) /\ ncache[k] \in Entries /\ Without(r, ncache, k)
        BY <1>1, <1>5, <2>1, OccursRemoveAt
    <2>3. \A V : Occurs(r, V) = Occurs(ncache, V) - One(ncache[k] \in V)
        BY <1>1, <1>5, <2>1, OccursRemoveAt
    <2>4. PICK e, t : e = ncache[k] /\ t = ncache'
        OBVIOUS
    <2>5. t = Append(r, e) /\ e \in Entries
        BY <1>2, <2>1, <2>2, <2>4
    <2>6. t \in Seq(Entries) /\ \A V : Occurs(t, V) = Occurs(r, V) + One(e \in V)
        BY <2>2, <2>5, OccursAppend
    <2>7. \A V : Occurs(ncache, V) \in Nat
        BY <1>1, OccursType
    <2>8. \A V : Occurs(t, V) = Occurs(ncache, V)
        BY <2>3, <2>4, <2>6, <2>7 DEF One
    <2>9. ASSUME NEW j PROVE NamesOf(j)' = NamesOf(j) /\ NamesOf(j) \in Nat
        <3>1. PICK V : V = {x \in Entries : x.vp = j}
            OBVIOUS
        <3> QED
            BY <2>4, <2>7, <2>8, <3>1 DEF NamesOf, Occurs
    <2>10. ASSUME NEW m \in DOMAIN t PROVE \E l \in DOMAIN ncache : t[m] = ncache[l]
        <3>1. /\ Len(t) = Len(r) + 1 /\ (\A l \in 1 .. Len(r) : t[l] = r[l]) /\ t[Len(r) + 1] = e
            BY <2>2, <2>5, AppendProperties
        <3>2. /\ DOMAIN t = 1 .. Len(t) /\ Len(r) \in Nat /\ DOMAIN ncache = 1 .. Len(ncache)
              /\ Len(ncache) \in Nat
            BY <1>1, <2>2, <2>6, LenProperties
        <3>3. Len(r) = Len(ncache) - 1 /\ \A l \in 1 .. Len(r) : r[l] = ncache[l] \/ r[l] = ncache[l + 1]
            BY <2>2 DEF Without
        <3>4. CASE m \in 1 .. Len(r)
            <4>1. m \in DOMAIN ncache /\ m + 1 \in DOMAIN ncache
                BY <3>2, <3>3, <3>4
            <4> QED
                BY <3>1, <3>3, <3>4, <4>1
        <3>5. CASE m = Len(r) + 1
            BY <1>5, <2>4, <3>1, <3>5
        <3> QED
            BY <3>1, <3>2, <3>4, <3>5
    <2> QED
        BY <2>4, <2>6, <2>9, <2>10
<1>8. /\ inode' \in [Table -> Incore] /\ inode'[i].count = inode[i].count + 1
      /\ inode'[i].num = inode[i].num /\ inode'[i].locked = inode[i].locked
      /\ inode'[i].want = inode[i].want /\ inode'[i].ref = inode[i].ref
      /\ \A j \in Table \ {i} : inode'[j] = inode[j]
    <2>1. inode \in [Table -> Incore] /\ inode[i] \in Incore
        BY <1>1, <1>6 DEF InoTypes
    <2>2. PICK r : r = [inode[i] EXCEPT !.count = inode[i].count + 1]
        OBVIOUS
    <2>3. /\ r \in Incore /\ r.num = inode[i].num /\ r.count = inode[i].count + 1
          /\ r.locked = inode[i].locked /\ r.want = inode[i].want /\ r.ref = inode[i].ref
        BY <2>1, <2>2 DEF Incore
    <2>4. inode' = [inode EXCEPT ![i] = r]
        BY <1>2, <1>4, <2>2
    <2> QED
        BY <1>6, <2>1, <2>3, <2>4
<1>9. PICK s : s = [Idle EXCEPT !.at = "ilock", !.call = "lookup", !.name = n, !.ip = i]
    OBVIOUS
<1>10. s \in Steps /\ s.at = "ilock" /\ s.ip = i
    BY <1>6, <1>9 DEF Idle, Steps, Labels, CallNames, Thens
<1>11. pc' \in [Procs -> Steps] /\ Moved(p) /\ pc'[p] = s
    BY <1>1, <1>2, <1>3, <1>4, <1>9, <1>10 DEF InoTypes, Moved
<1>12. InoTypes'
    BY <1>1, <1>3, <1>7, <1>8, <1>11 DEF InoTypes
<1>13. \A j \in Table : Ours(j) => Ours(j)'
    BY <1>8 DEF Ours
<1>14. Places(p)'
    BY <1>6, <1>8, <1>10, <1>11 DEF Places, Ours, Releasing
<1>15. NamesOurs'
    <2>1. \A m \in DOMAIN ncache : Ours(ncache[m].vp)
        BY DEF InoInv, NamesOurs
    <2> QED
        BY <1>7, <1>13, <2>1 DEF NamesOurs, Ours
<1>16. ASSUME NEW j \in Table
       PROVE  /\ Has(p, j) = 0 /\ Has(p, j)' = One(j = i) /\ ~Locks(p, j) /\ ~Locks(p, j)'
    BY <1>3, <1>10, <1>11 DEF Has, One, Holds, Rel, Locks, Releasing
<1>17. inode[i].count >= 1 /\ inode[i].count \in Nat /\ inode[i].ref
    BY <1>4, <1>5, <1>6, CountBounds DEF InoInv, InUse
<1>18. \A j \in Table : Waited(j)'
    BY <1>3, <1>8, WaitedSame
<1>19. \A j \in Table \ {i} : Has(p, j)' - Has(p, j) + (NamesOf(j)' - NamesOf(j)) = 0
    BY <1>7, <1>16 DEF One
<1>20. inode'[i].count = inode[i].count + (Has(p, i)' - Has(p, i)) + (NamesOf(i)' - NamesOf(i))
    BY <1>6, <1>7, <1>8, <1>16, <1>17 DEF One
<1>21. \A j : Occurs(ifreeq, {j})' = Occurs(ifreeq, {j})
    BY <1>3, FreeSame
<1>22. Occurs(ifreeq, {i})' = Occurs(ifreeq, {i}) + One(~inode'[i].ref) - One(~inode[i].ref)
    BY <1>3, <1>6, <1>8, FreeStays
<1>23. InUse(i)'
    BY <1>8, <1>17 DEF InUse
<1>24. inode[i].locked \in BOOLEAN
    BY <1>1, <1>6 DEF InoTypes, Incore
<1>25. /\ inode[i].num # Foreign /\ inode'[i].num # Foreign
       /\ inode[i].locked /\ inode[i].count = 0 /\ ~Locks(p, i) => inode'[i].count = 0
       /\ Locks(p, i)' /\ ~Locks(p, i) => ~inode[i].locked
       /\ inode'[i].locked <=> Locks(p, i)' \/ (inode[i].locked /\ ~Locks(p, i))
    BY <1>6, <1>8, <1>16, <1>17, <1>24 DEF Ours
<1> QED
    BY <1>6, <1>8, <1>11, <1>12, <1>14, <1>15, <1>16, <1>18, <1>19, <1>20, <1>21, <1>22, <1>23,
       <1>25, OneInodeKeeps

\* Nobody waits for an inode that is not locked
LEMMA UnlockedWaited ==
    ASSUME InoInv, NEW i \in Table, ~inode[i].locked, wchan' = wchan PROVE Waited(i)'
BY DEF InoInv, Waited

\* It is in core
LEMMA IgetHitKeeps ==
    ASSUME InoInv, NEW p \in Procs, IgetHit(p) PROVE Keeps(p)
<1>1. InoTypes /\ Places(p) /\ pc[p] \in Steps
    BY DEF InoInv, InoTypes
<1>2. PICK i \in Found(pc[p].ino) :
          /\ ~inode[i].locked
          /\ inode' = [inode EXCEPT ![i].locked = TRUE, ![i].ref = TRUE, ![i].count = @ + 1]
          /\ ifreeq' = IF inode[i].ref THEN ifreeq ELSE RemoveFirst(ifreeq, i)
          /\ pc' = [pc EXCEPT ![p].ip = i, ![p].at = "got"]
    BY DEF IgetHit
<1>3. pc[p].at = "iget" /\ Turns(p) /\ UNCHANGED <<chain, ncache, disk, dir, spare, wchan>>
    BY DEF IgetHit, At, onDisk
<1>4. Ours(i) /\ i \in Table
    <2>1. pc[p].ino \in Inos \cup {0}
        BY <1>1 DEF Steps
    <2> QED
        BY <1>1, <2>1, FoundOurs DEF Ours
<1>5. PICK r : r = [inode[i] EXCEPT !.locked = TRUE, !.ref = TRUE, !.count = inode[i].count + 1]
    OBVIOUS
<1>6. inode \in [Table -> Incore] /\ inode[i] \in Incore
    BY <1>1, <1>4 DEF InoTypes
<1>7. r \in Incore /\ r.num = inode[i].num /\ r.count = inode[i].count + 1 /\ r.locked /\ r.ref
    <2>1. PICK n \in Int : n = inode[i].count + 1
        BY <1>6 DEF Incore
    <2>2. r = [inode[i] EXCEPT !.locked = TRUE, !.ref = TRUE, !.count = n]
        BY <1>5, <2>1
    <2>3. r \in Incore /\ r.num = inode[i].num /\ r.count = n /\ r.locked /\ r.ref
        BY <1>6, <2>2 DEF Incore
    <2> QED
        BY <2>1, <2>3
<1>8. inode' = [inode EXCEPT ![i] = r]
    BY <1>2, <1>4, <1>5, <1>6 DEF Incore
<1>9. /\ inode' \in [Table -> Incore] /\ inode'[i] = r
      /\ \A j \in Table \ {i} : inode'[j] = inode[j]
    BY <1>4, <1>6, <1>7, <1>8
<1>10. PICK s : s = [pc[p] EXCEPT !.ip = i, !.at = "got"]
    OBVIOUS
<1>11. s \in Steps /\ s.at = "got" /\ s.ip = i
    BY <1>1, <1>4, <1>10 DEF Steps, Labels
<1>12. pc' = [pc EXCEPT ![p] = s]
    BY <1>1, <1>2, <1>10 DEF InoTypes, Steps
<1>13. pc' \in [Procs -> Steps] /\ Moved(p) /\ pc'[p] = s
    BY <1>1, <1>3, <1>11, <1>12 DEF InoTypes, Moved
<1>14. /\ ifreeq' \in Seq(Table)
       /\ \A j \in Table \ {i} : Occurs(ifreeq, {j})' = Occurs(ifreeq, {j})
       /\ Occurs(ifreeq, {i})' = Occurs(ifreeq, {i}) + One(~inode'[i].ref) - One(~inode[i].ref)
    <2>1. CASE inode[i].ref
        <3>1. ifreeq' = ifreeq
            BY <1>2, <2>1
        <3>2. Occurs(ifreeq, {i}) \in Nat /\ \A j : Occurs(ifreeq, {j})' = Occurs(ifreeq, {j})
            BY <1>4, <3>1, FreeSame, FreeType
        <3> QED
            BY <1>1, <1>7, <1>9, <2>1, <3>1, <3>2 DEF One, InoTypes
    <2>2. CASE ~inode[i].ref
        <3>1. ifreeq' = RemoveFirst(ifreeq, i) /\ Occurs(ifreeq, {i}) = 1
            BY <1>2, <1>4, <2>2, FreeType DEF One
        <3>2. /\ ifreeq' \in Seq(Table) /\ Occurs(ifreeq, {i})' = 0
              /\ \A j \in Table \ {i} : Occurs(ifreeq, {j})' = Occurs(ifreeq, {j})
            BY <1>1, <1>4, <3>1, FreeRemoved
        <3>3. One(~inode'[i].ref) = 0 /\ One(~inode[i].ref) = 1
            BY <1>7, <1>9, <2>2 DEF One
        <3> QED
            BY <3>1, <3>2, <3>3
    <2> QED
        BY <2>1, <2>2
<1>15. InoTypes'
    BY <1>1, <1>3, <1>9, <1>13, <1>14 DEF InoTypes
<1>16. \A j \in Table : Ours(j) => Ours(j)'
    BY <1>7, <1>9 DEF Ours
<1>17. Places(p)'
    BY <1>4, <1>7, <1>9, <1>11, <1>13 DEF Places, Ours, Releasing
<1>18. NamesOurs' /\ \A j : NamesOf(j)' = NamesOf(j) /\ NamesOf(j) \in Nat
    BY <1>3, <1>16, NamesSame
<1>19. ASSUME NEW j \in Table
       PROVE  /\ Has(p, j) = 0 /\ Has(p, j)' = One(j = i) /\ ~Locks(p, j) /\ (Locks(p, j)' <=> j = i)
    <2>1. ~Holds(p, j) /\ ~Rel(p, j) /\ ~Locks(p, j)
        BY <1>3 DEF Holds, Rel, Locks, Releasing
    <2>2. (Holds(p, j)' <=> j = i) /\ ~Rel(p, j)' /\ (Locks(p, j)' <=> j = i)
        BY <1>11, <1>13 DEF Holds, Rel, Locks, Releasing
    <2> QED
        BY <2>1, <2>2 DEF Has, One
<1>20. inode[i].count \in Nat
    BY <1>4, CountBounds
<1>21. \A j \in Table : Waited(j)'
    BY <1>2, <1>3, <1>9, UnlockedWaited, WaitedSame
<1>22. \A j \in Table \ {i} : Has(p, j)' - Has(p, j) + (NamesOf(j)' - NamesOf(j)) = 0
    BY <1>18, <1>19 DEF One
<1>23. inode'[i].count = inode[i].count + (Has(p, i)' - Has(p, i)) + (NamesOf(i)' - NamesOf(i))
    BY <1>4, <1>7, <1>9, <1>18, <1>19, <1>20 DEF One
<1>24. InUse(i)'
    BY <1>7, <1>9 DEF InUse
<1>25. /\ inode[i].num # Foreign /\ inode'[i].num # Foreign
       /\ inode[i].locked /\ inode[i].count = 0 /\ ~Locks(p, i) => inode'[i].count = 0
       /\ Locks(p, i)' /\ ~Locks(p, i) => ~inode[i].locked
       /\ inode'[i].locked <=> Locks(p, i)' \/ (inode[i].locked /\ ~Locks(p, i))
    BY <1>2, <1>4, <1>7, <1>9, <1>19 DEF Ours
<1> QED
    BY <1>4, <1>9, <1>13, <1>14, <1>15, <1>17, <1>18, <1>19, <1>21, <1>22, <1>23, <1>24,
       <1>25, OneInodeKeeps

\* update writes an inode
LEMMA UpdateKeeps ==
    ASSUME InoInv, NEW p \in Procs, NEW i \in Table, Update(p, i) PROVE Keeps(p)
<1>1. InoTypes /\ Places(p) /\ pc[p] \in Steps
    BY DEF InoInv, InoTypes
<1>2. /\ ~inode[i].locked /\ inode[i].ref /\ inode[i].dirty
      /\ inode' = [inode EXCEPT ![i].locked = TRUE, ![i].count = @ + 1]
      /\ pc' = [pc EXCEPT ![p] = [Idle EXCEPT !.at = "update", !.call = "sync", !.ip = i]]
    BY DEF Update
<1>3. pc[p].at = "idle" /\ Turns(p) /\ UNCHANGED <<chain, ifreeq, ncache, disk, dir, spare, wchan>>
    BY DEF Update, At, onDisk
<1>4. Ours(i)
    BY <1>2 DEF InoInv, ForeignClean, Ours
<1>5. PICK r : r = [inode[i] EXCEPT !.locked = TRUE, !.count = inode[i].count + 1]
    OBVIOUS
<1>6. inode \in [Table -> Incore] /\ inode[i] \in Incore
    BY <1>1, <1>4 DEF InoTypes
<1>7. /\ r \in Incore /\ r.num = inode[i].num /\ r.count = inode[i].count + 1 /\ r.locked
      /\ r.ref = inode[i].ref
    <2>1. PICK n \in Int : n = inode[i].count + 1
        BY <1>6 DEF Incore
    <2>2. r = [inode[i] EXCEPT !.locked = TRUE, !.count = n]
        BY <1>5, <2>1
    <2>3. r \in Incore /\ r.num = inode[i].num /\ r.count = n /\ r.locked /\ r.ref = inode[i].ref
        BY <1>6, <2>2 DEF Incore
    <2> QED
        BY <2>1, <2>3
<1>8. inode' = [inode EXCEPT ![i] = r]
    BY <1>2, <1>4, <1>5, <1>6 DEF Incore
<1>9. /\ inode' \in [Table -> Incore] /\ inode'[i] = r
      /\ \A j \in Table \ {i} : inode'[j] = inode[j]
    BY <1>4, <1>6, <1>7, <1>8
<1>10. PICK s : s = [Idle EXCEPT !.at = "update", !.call = "sync", !.ip = i]
    OBVIOUS
<1>11. s \in Steps /\ s.at = "update" /\ s.ip = i
    BY <1>10 DEF Idle, Steps, Labels, CallNames, Thens
<1>12. pc' = [pc EXCEPT ![p] = s]
    BY <1>2, <1>10
<1>13. pc' \in [Procs -> Steps] /\ Moved(p) /\ pc'[p] = s
    BY <1>1, <1>3, <1>11, <1>12 DEF InoTypes, Moved
<1>14. /\ \A j \in Table \ {i} : Occurs(ifreeq, {j})' = Occurs(ifreeq, {j})
       /\ Occurs(ifreeq, {i})' = Occurs(ifreeq, {i}) + One(~inode'[i].ref) - One(~inode[i].ref)
    BY <1>3, <1>7, <1>9, FreeSame, FreeStays
<1>15. InoTypes'
    BY <1>1, <1>3, <1>9, <1>13 DEF InoTypes
<1>16. \A j \in Table : Ours(j) => Ours(j)'
    BY <1>7, <1>9 DEF Ours
<1>17. Places(p)'
    BY <1>4, <1>7, <1>9, <1>11, <1>13 DEF Places, Ours, Releasing
<1>18. NamesOurs' /\ \A j : NamesOf(j)' = NamesOf(j) /\ NamesOf(j) \in Nat
    BY <1>3, <1>16, NamesSame
<1>19. ASSUME NEW j \in Table
       PROVE  /\ Has(p, j) = 0 /\ Has(p, j)' = One(j = i) /\ ~Locks(p, j) /\ (Locks(p, j)' <=> j = i)
    <2>1. ~Holds(p, j) /\ ~Rel(p, j) /\ ~Locks(p, j)
        BY <1>3 DEF Holds, Rel, Locks, Releasing
    <2>2. (Holds(p, j)' <=> j = i) /\ ~Rel(p, j)' /\ (Locks(p, j)' <=> j = i)
        BY <1>11, <1>13 DEF Holds, Rel, Locks, Releasing
    <2> QED
        BY <2>1, <2>2 DEF Has, One
<1>20. inode[i].count \in Nat
    BY <1>4, CountBounds
<1>21. \A j \in Table : Waited(j)'
    BY <1>2, <1>3, <1>9, UnlockedWaited, WaitedSame
<1>22. \A j \in Table \ {i} : Has(p, j)' - Has(p, j) + (NamesOf(j)' - NamesOf(j)) = 0
    BY <1>18, <1>19 DEF One
<1>23. inode'[i].count = inode[i].count + (Has(p, i)' - Has(p, i)) + (NamesOf(i)' - NamesOf(i))
    BY <1>4, <1>7, <1>9, <1>18, <1>19, <1>20 DEF One
<1>24. InUse(i)'
    BY <1>2, <1>7, <1>9 DEF InUse
<1>25. /\ inode[i].num # Foreign /\ inode'[i].num # Foreign
       /\ inode[i].locked /\ inode[i].count = 0 /\ ~Locks(p, i) => inode'[i].count = 0
       /\ Locks(p, i)' /\ ~Locks(p, i) => ~inode[i].locked
       /\ inode'[i].locked <=> Locks(p, i)' \/ (inode[i].locked /\ ~Locks(p, i))
    BY <1>2, <1>4, <1>7, <1>9, <1>19 DEF Ours
<1> QED
    BY <1>4, <1>9, <1>13, <1>14, <1>15, <1>17, <1>18, <1>19, <1>21, <1>22, <1>23, <1>24,
       <1>25, OneInodeKeeps

\* A free in-core inode is taken
LEMMA IgetTakeKeeps ==
    ASSUME InoInv, NEW p \in Procs, IgetTake(p) PROVE Keeps(p)
<1>1. InoTypes /\ Places(p) /\ pc[p] \in Steps
    BY DEF InoInv, InoTypes
<1>2. PICK i : i = Head(ifreeq)
    OBVIOUS
<1>3. /\ ifreeq # <<>> /\ ifreeq' = Tail(ifreeq)
      /\ chain' = <<i>> \o RemoveFirst(chain, i)
      /\ inode' = [inode EXCEPT ![i].num = pc[p].ino, ![i].locked = TRUE, ![i].want = FALSE,
                                ![i].ref = TRUE, ![i].dirty = FALSE]
      /\ pc' = [pc EXCEPT ![p].ip = i, ![p].at = "bread"]
    BY <1>2 DEF IgetTake
<1>4. pc[p].at \in {"iget", "purge"} /\ Turns(p) /\ UNCHANGED <<ncache, disk, dir, spare, wchan>>
    BY DEF IgetTake, At, onDisk
<1>5. /\ ifreeq' \in Seq(Table) /\ i \in Table
      /\ \A j \in Table \ {i} : Occurs(ifreeq, {j})' = Occurs(ifreeq, {j})
      /\ Occurs(ifreeq, {i}) >= 1 /\ Occurs(ifreeq, {i})' = Occurs(ifreeq, {i}) - 1
    BY <1>1, <1>2, <1>3, FreeTail
<1>6. ~inode[i].ref /\ Occurs(ifreeq, {i}) = 1
    BY <1>5, FreeType DEF One
<1>7. /\ ~inode[i].locked /\ inode[i].count = 0 /\ inode[i].num # Foreign
    <2>1. ~inode[i].locked /\ ~(inode[i].count > 0)
        BY <1>5, <1>6 DEF InoInv, InUse
    <2>2. inode[i].count \in Nat /\ (inode[i].num = Foreign => inode[i].count >= 1)
        BY <1>5, CountBounds
    <2> QED
        BY <2>1, <2>2
<1>8. inode \in [Table -> Incore] /\ inode[i] \in Incore /\ pc[p].ino \in Inos \cup {0}
    BY <1>1, <1>5 DEF InoTypes, Steps
<1>9. PICK r : r = [inode[i] EXCEPT !.num = pc[p].ino, !.locked = TRUE, !.want = FALSE, !.ref = TRUE,
                                    !.dirty = FALSE]
    OBVIOUS
<1>10. /\ r \in Incore /\ r.num = pc[p].ino /\ r.count = inode[i].count /\ r.locked /\ r.ref
    BY <1>8, <1>9 DEF Incore
<1>11. inode' = [inode EXCEPT ![i] = r]
    BY <1>3, <1>5, <1>8, <1>9 DEF Incore
<1>12. /\ inode' \in [Table -> Incore] /\ inode'[i] = r
       /\ \A j \in Table \ {i} : inode'[j] = inode[j]
    BY <1>5, <1>8, <1>10, <1>11
<1>13. r.num # Foreign
    BY <1>8, <1>10, InodesAssumption DEF Foreign
<1>14. PICK s : s = [pc[p] EXCEPT !.ip = i, !.at = "bread"]
    OBVIOUS
<1>15. s \in Steps /\ s.at = "bread" /\ s.ip = i
    BY <1>1, <1>5, <1>14 DEF Steps, Labels
<1>16. pc' = [pc EXCEPT ![p] = s]
    BY <1>1, <1>3, <1>14 DEF InoTypes, Steps
<1>17. pc' \in [Procs -> Steps] /\ Moved(p) /\ pc'[p] = s
    BY <1>1, <1>4, <1>15, <1>16 DEF InoTypes, Moved
<1>18. chain' \in Seq(Table)
    <2>1. PICK a, b : a = <<i>> /\ b = RemoveFirst(chain, i)
        OBVIOUS
    <2>2. b \in Seq(Table)
        BY <1>1, <2>1, OccursRemoveFirst DEF InoTypes
    <2>3. a \in Seq(Table)
        BY <1>5, <2>1
    <2> QED
        BY <1>3, <2>1, <2>2, <2>3, ConcatProperties
<1>19. InoTypes'
    BY <1>1, <1>4, <1>5, <1>12, <1>17, <1>18 DEF InoTypes
<1>20. \A j \in Table : Ours(j) => Ours(j)'
    BY <1>12, <1>13 DEF Ours
<1>21. Places(p)'
    BY <1>5, <1>7, <1>10, <1>12, <1>13, <1>15, <1>17 DEF Places, Ours, Releasing
<1>22. NamesOurs' /\ \A j : NamesOf(j)' = NamesOf(j) /\ NamesOf(j) \in Nat
    BY <1>4, <1>20, NamesSame
<1>23. ASSUME NEW j \in Table
       PROVE  /\ Has(p, j) = 0 /\ Has(p, j)' = 0 /\ ~Locks(p, j) /\ (Locks(p, j)' <=> j = i)
    <2>1. ~Holds(p, j) /\ ~Rel(p, j) /\ ~Locks(p, j)
        BY <1>4 DEF Holds, Rel, Locks, Releasing
    <2>2. ~Holds(p, j)' /\ ~Rel(p, j)' /\ (Locks(p, j)' <=> j = i)
        BY <1>15, <1>17 DEF Holds, Rel, Locks, Releasing
    <2> QED
        BY <2>1, <2>2 DEF Has, One
<1>24. \A j \in Table : Waited(j)'
    BY <1>4, <1>7, <1>12, UnlockedWaited, WaitedSame
<1>25. \A j \in Table \ {i} : Has(p, j)' - Has(p, j) + (NamesOf(j)' - NamesOf(j)) = 0
    BY <1>22, <1>23
<1>26. inode'[i].count = inode[i].count + (Has(p, i)' - Has(p, i)) + (NamesOf(i)' - NamesOf(i))
    BY <1>5, <1>7, <1>10, <1>12, <1>22, <1>23
<1>27. /\ \A j \in Table \ {i} : Occurs(ifreeq, {j})' = Occurs(ifreeq, {j})
       /\ Occurs(ifreeq, {i})' = Occurs(ifreeq, {i}) + One(~inode'[i].ref) - One(~inode[i].ref)
    <2>1. One(~inode'[i].ref) = 0 /\ One(~inode[i].ref) = 1
        BY <1>6, <1>10, <1>12 DEF One
    <2> QED
        BY <1>5, <1>6, <2>1
<1>28. InUse(i)'
    BY <1>10, <1>12 DEF InUse
<1>29. /\ inode'[i].num # Foreign
       /\ inode[i].locked /\ inode[i].count = 0 /\ ~Locks(p, i) => inode'[i].count = 0
       /\ Locks(p, i)' /\ ~Locks(p, i) => ~inode[i].locked
       /\ inode'[i].locked <=> Locks(p, i)' \/ (inode[i].locked /\ ~Locks(p, i))
    BY <1>5, <1>7, <1>10, <1>12, <1>13, <1>23
<1> QED
    BY <1>5, <1>7, <1>12, <1>17, <1>19, <1>21, <1>22, <1>23, <1>24, <1>25, <1>26, <1>27, <1>28,
       <1>29, OneInodeKeeps

-------------------------------------------------------------------------------
(* Steps that read, drop, enter and release an inode                       *)

\* The types after a step that changes the inode i
LEMMA StepOn ==
    ASSUME InoInv, NEW i \in Table, Ours(i),
           inode' \in [Table -> Incore], \A j \in Table \ {i} : inode'[j] = inode[j],
           inode'[i].num # Foreign, pc' \in [Procs -> Steps],
           chain' \in Seq(Table), ifreeq' \in Seq(Table), ncache' \in Seq(Entries),
           wchan' \in [Procs -> Chans],
           disk' = disk \/ disk' = [disk EXCEPT ![inode[i].num] = inode[i].d],
           UNCHANGED <<dir, spare>>
    PROVE  InoTypes' /\ \A j \in Table : Ours(j) => Ours(j)'
<1>1. InoTypes
    BY DEF InoInv
<1>2. disk' \in [Inos \cup {0} -> Contents]
    <2>1. inode[i].num \in Inos \cup {0} /\ inode[i].d \in Contents
        BY <1>1 DEF Ours, Incore, InoTypes
    <2> QED
        BY <1>1, <2>1 DEF InoTypes
<1>3. InoTypes'
    BY <1>1, <1>2 DEF InoTypes
<1>4. \A j \in Table : Ours(j) => Ours(j)'
    BY DEF Ours
<1> QED
    BY <1>3, <1>4

\* Nobody waits for the inode that is unlocked
LEMMA UnlockWaited ==
    ASSUME InoInv, NEW i \in Table, Wakeup(WakesOn(i)), \A j \in Table \ {i} : inode'[j] = inode[j]
    PROVE  \A j \in Table : Waited(j)'
<1> SUFFICES ASSUME NEW j \in Table, NEW q \in Procs, wchan'[q] = Pinod(j)
             PROVE  inode'[j].locked /\ inode'[j].want
    BY DEF Waited
<1>1. wchan[q] = Pinod(j) /\ j # i
    BY UnlockWakes
<1> QED
    BY <1>1 DEF InoInv, Waited

\* The inode is read
LEMMA IgetReadKeeps ==
    ASSUME InoInv, NEW p \in Procs, IgetRead(p) PROVE Keeps(p)
<1>1. InoTypes /\ Places(p) /\ pc[p] \in Steps
    BY DEF InoInv, InoTypes
<1>2. PICK i : i = pc[p].ip
    OBVIOUS
<1>3. /\ pc[p].at = "bread" /\ Turns(p) /\ UNCHANGED <<chain, ifreeq, ncache, disk, dir, spare, wchan>>
      /\ inode' = [inode EXCEPT ![i].d = disk[inode[i].num], ![i].count = 1]
      /\ pc' = [pc EXCEPT ![p].at = "got"]
    BY <1>2 DEF IgetRead, At, Goto, onDisk
<1>4. Ours(i) /\ i \in Table /\ inode[i].count = 0
    BY <1>1, <1>2, <1>3 DEF Places, Ours
<1>5. PICK c : c = disk[inode[i].num]
    OBVIOUS
<1>6. inode[i] \in Incore /\ c \in Contents
    BY <1>1, <1>4, <1>5 DEF InoTypes, Incore, Ours
<1>7. PICK r : r = [inode[i] EXCEPT !.d = c, !.count = 1]
    OBVIOUS
<1>8. /\ r \in Incore /\ r.num = inode[i].num /\ r.count = 1 /\ r.locked = inode[i].locked
      /\ r.want = inode[i].want /\ r.ref = inode[i].ref
    <2>1. PICK n \in Int : n = 1
        OBVIOUS
    <2>2. r = [inode[i] EXCEPT !.d = c, !.count = n]
        BY <1>7, <2>1
    <2>3. /\ r \in Incore /\ r.num = inode[i].num /\ r.count = n /\ r.locked = inode[i].locked
          /\ r.want = inode[i].want /\ r.ref = inode[i].ref
        BY <1>6, <2>2 DEF Incore
    <2> QED
        BY <2>1, <2>3
<1>9. inode' = [inode EXCEPT ![i] = r]
    BY <1>1, <1>3, <1>4, <1>5, <1>6, <1>7 DEF InoTypes, Incore
<1>10. PICK s : s = [pc[p] EXCEPT !.at = "got"]
    OBVIOUS
<1>11. s \in Steps /\ s.at = "got" /\ s.ip = i /\ pc' = [pc EXCEPT ![p] = s]
    BY <1>1, <1>2, <1>3, <1>10 DEF InoTypes, Steps, Labels
<1>12. /\ InoTypes' /\ Moved(p) /\ pc'[p] = s /\ inode'[i] = r
       /\ \A j \in Table \ {i} : inode'[j] = inode[j]
       /\ \A j \in Table : Ours(j) => Ours(j)'
    <2>1. /\ chain' \in Seq(Table) /\ ifreeq' \in Seq(Table) /\ ncache' \in Seq(Entries)
          /\ wchan' \in [Procs -> Chans]
        BY <1>1, <1>3 DEF InoTypes
    <2>2. /\ inode' \in [Table -> Incore] /\ inode'[i] = r
          /\ \A j \in Table \ {i} : inode'[j] = inode[j]
        BY <1>1, <1>4, <1>8, <1>9 DEF InoTypes
    <2>3. pc' \in [Procs -> Steps] /\ Moved(p) /\ pc'[p] = s
        BY <1>1, <1>3, <1>11 DEF InoTypes, Moved
    <2>4. inode'[i].num # Foreign
        BY <1>4, <1>8, <2>2 DEF Ours
    <2>5. InoTypes' /\ \A j \in Table : Ours(j) => Ours(j)'
        BY <1>3, <1>4, <2>1, <2>2, <2>3, <2>4, StepOn
    <2> QED
        BY <2>2, <2>3, <2>5
<1>13. Places(p)'
    BY <1>4, <1>11, <1>12 DEF Places, Ours, Releasing
<1>14. NamesOurs' /\ \A j : NamesOf(j)' = NamesOf(j) /\ NamesOf(j) \in Nat
    BY <1>3, <1>12, NamesSame
<1>15. ASSUME NEW j \in Table
       PROVE  /\ Has(p, j) = 0 /\ Has(p, j)' = One(j = i)
              /\ (Locks(p, j) <=> j = i) /\ (Locks(p, j)' <=> j = i)
    <2>1. ~Holds(p, j) /\ ~Rel(p, j) /\ (Locks(p, j) <=> j = i)
        BY <1>2, <1>3 DEF Holds, Rel, Locks, Releasing
    <2>2. (Holds(p, j)' <=> j = i) /\ ~Rel(p, j)' /\ (Locks(p, j)' <=> j = i)
        BY <1>11, <1>12 DEF Holds, Rel, Locks, Releasing
    <2> QED
        BY <2>1, <2>2 DEF Has, One
<1>16. inode[i].locked /\ inode[i].ref
    BY <1>4, <1>15 DEF InoInv, Owned, InUse
<1>17. \A j \in Table : Waited(j)'
    BY <1>3, <1>8, <1>12, WaitedSame
<1>18. \A j \in Table \ {i} : Has(p, j)' - Has(p, j) + (NamesOf(j)' - NamesOf(j)) = 0
    BY <1>14, <1>15 DEF One
<1>19. inode'[i].count = inode[i].count + (Has(p, i)' - Has(p, i)) + (NamesOf(i)' - NamesOf(i))
    BY <1>4, <1>8, <1>12, <1>14, <1>15 DEF One
<1>20. /\ \A j \in Table \ {i} : Occurs(ifreeq, {j})' = Occurs(ifreeq, {j})
       /\ Occurs(ifreeq, {i})' = Occurs(ifreeq, {i}) + One(~inode'[i].ref) - One(~inode[i].ref)
    BY <1>3, <1>4, <1>8, <1>12, FreeSame, FreeStays
<1>21. InUse(i)'
    BY <1>8, <1>12, <1>16 DEF InUse
<1>22. /\ inode[i].num # Foreign /\ inode'[i].num # Foreign
       /\ inode[i].locked /\ inode[i].count = 0 /\ ~Locks(p, i) => inode'[i].count = 0
       /\ Locks(p, i)' /\ ~Locks(p, i) => ~inode[i].locked
       /\ inode'[i].locked <=> Locks(p, i)' \/ (inode[i].locked /\ ~Locks(p, i))
    BY <1>4, <1>8, <1>12, <1>15, <1>16 DEF Ours
<1> QED
    BY <1>4, <1>12, <1>13, <1>14, <1>15, <1>17, <1>18, <1>19, <1>20, <1>21, <1>22, OneInodeKeeps

\* It cannot be read, and is inactive
LEMMA IgetErrorKeeps ==
    ASSUME InoInv, NEW p \in Procs, IgetError(p) PROVE Keeps(p)
<1>1. InoTypes /\ Places(p) /\ pc[p] \in Steps
    BY DEF InoInv, InoTypes
<1>2. PICK i : i = pc[p].ip
    OBVIOUS
<1>3. /\ pc[p].at = "bread" /\ Turns(p) /\ UNCHANGED <<ifreeq, ncache, disk, dir, spare>>
      /\ chain' = RemoveFirst(chain, i)
      /\ inode' = [inode EXCEPT ![i] = [Iunlocked(inode[i]) EXCEPT !.num = 0]]
      /\ pc' = [pc EXCEPT ![p].at = "inactive", ![p].vic = i, ![p].then = "done"]
      /\ Wakeup(WakesOn(i))
    BY <1>1, <1>2 DEF IgetError, At, onDisk, Places, Ours, InoTypes
<1>4. Ours(i) /\ i \in Table /\ inode[i].count = 0
    BY <1>1, <1>2, <1>3 DEF Places, Ours
<1>5. inode[i] \in Incore
    BY <1>1, <1>4 DEF InoTypes
<1>6. PICK u : u = Iunlocked(inode[i])
    OBVIOUS
<1>7. u \in Incore /\ ~u.locked /\ u.count = inode[i].count /\ u.ref = inode[i].ref
    BY <1>5, <1>6, IunlockedType
<1>8. PICK r : r = [u EXCEPT !.num = 0]
    OBVIOUS
<1>9. /\ r \in Incore /\ r.num = 0 /\ r.count = inode[i].count /\ ~r.locked /\ r.ref = inode[i].ref
    BY <1>7, <1>8 DEF Incore
<1>10. inode' = [inode EXCEPT ![i] = r]
    BY <1>3, <1>6, <1>8
<1>11. PICK s : s = [pc[p] EXCEPT !.at = "inactive", !.vic = i, !.then = "done"]
    OBVIOUS
<1>12. /\ s \in Steps /\ s.at = "inactive" /\ s.ip = i /\ s.vic = i /\ s.then = "done"
       /\ pc' = [pc EXCEPT ![p] = s]
    BY <1>1, <1>2, <1>3, <1>4, <1>11 DEF InoTypes, Steps, Labels, Thens
<1>13. chain' \in Seq(Table)
    BY <1>1, <1>3, OccursRemoveFirst DEF InoTypes
<1>14. /\ InoTypes' /\ Moved(p) /\ pc'[p] = s /\ inode'[i] = r
       /\ \A j \in Table \ {i} : inode'[j] = inode[j]
       /\ \A j \in Table : Ours(j) => Ours(j)'
    <2>1. wchan' \in [Procs -> Chans] /\ ifreeq' \in Seq(Table) /\ ncache' \in Seq(Entries)
        BY <1>1, <1>3, <1>4, UnlockWakes DEF InoTypes
    <2>2. /\ inode' \in [Table -> Incore] /\ inode'[i] = r
          /\ \A j \in Table \ {i} : inode'[j] = inode[j]
        BY <1>1, <1>4, <1>9, <1>10 DEF InoTypes
    <2>3. pc' \in [Procs -> Steps] /\ Moved(p) /\ pc'[p] = s
        BY <1>1, <1>3, <1>12 DEF InoTypes, Moved
    <2>4. inode'[i].num # Foreign
        BY <1>9, <2>2 DEF Foreign
    <2>5. InoTypes' /\ \A j \in Table : Ours(j) => Ours(j)'
        BY <1>3, <1>4, <1>13, <2>1, <2>2, <2>3, <2>4, StepOn
    <2> QED
        BY <2>2, <2>3, <2>5
<1>15. ASSUME NEW j \in Table
       PROVE  Has(p, j) = 0 /\ Has(p, j)' = 0 /\ (Locks(p, j) <=> j = i) /\ ~Locks(p, j)'
    <2>1. ~Holds(p, j) /\ ~Rel(p, j) /\ (Locks(p, j) <=> j = i)
        BY <1>2, <1>3 DEF Holds, Rel, Locks, Releasing
    <2>2. ~Holds(p, j)' /\ ~Rel(p, j)' /\ ~Locks(p, j)'
        BY <1>12, <1>14 DEF Holds, Rel, Locks, Releasing
    <2> QED
        BY <2>1, <2>2 DEF Has, One
<1>16. inode[i].locked /\ inode[i].ref
    BY <1>4, <1>15 DEF InoInv, Owned, InUse
<1>17. Places(p)'
    BY <1>4, <1>9, <1>12, <1>14, <1>16 DEF Places, Ours, Releasing
<1>18. NamesOurs' /\ \A j : NamesOf(j)' = NamesOf(j) /\ NamesOf(j) \in Nat
    BY <1>3, <1>14, NamesSame
<1>19. \A j \in Table : Waited(j)'
    BY <1>3, <1>4, <1>14, UnlockWaited
<1>20. \A j \in Table \ {i} : Has(p, j)' - Has(p, j) + (NamesOf(j)' - NamesOf(j)) = 0
    BY <1>15, <1>18
<1>21. inode'[i].count = inode[i].count + (Has(p, i)' - Has(p, i)) + (NamesOf(i)' - NamesOf(i))
    BY <1>4, <1>9, <1>14, <1>15, <1>18
<1>22. /\ \A j \in Table \ {i} : Occurs(ifreeq, {j})' = Occurs(ifreeq, {j})
       /\ Occurs(ifreeq, {i})' = Occurs(ifreeq, {i}) + One(~inode'[i].ref) - One(~inode[i].ref)
    BY <1>3, <1>4, <1>9, <1>14, FreeSame, FreeStays
<1>23. InUse(i)'
    BY <1>4, <1>9, <1>14 DEF InUse
<1>24. /\ inode[i].num # Foreign /\ inode'[i].num # Foreign
       /\ inode[i].locked /\ inode[i].count = 0 /\ ~Locks(p, i) => inode'[i].count = 0
       /\ Locks(p, i)' /\ ~Locks(p, i) => ~inode[i].locked
       /\ inode'[i].locked <=> Locks(p, i)' \/ (inode[i].locked /\ ~Locks(p, i))
    BY <1>4, <1>9, <1>14, <1>15 DEF Ours, Foreign
<1>25. \A j \in Table \ {i} : Locks(p, j)' <=> Locks(p, j)
    BY <1>15
<1> QED
    BY <1>4, <1>14, <1>17, <1>18, <1>19, <1>20, <1>21, <1>22, <1>23, <1>24, <1>25, OneInodeKeeps

\* The in-core inode that is not referenced any more goes to the free list
LEMMA FreedType ==
    ASSUME NEW r \in Incore
    PROVE  /\ Freed(r) \in Incore /\ ~Freed(r).ref /\ ~Freed(r).dirty
           /\ Freed(r).num = r.num /\ Freed(r).count = r.count
           /\ Freed(r).locked = r.locked /\ Freed(r).want = r.want
BY DEF Freed, Incore

\* It is appended, and was not there
LEMMA FreeGrows ==
    ASSUME InoInv, NEW i \in Table, ifreeq' = Append(ifreeq, i), inode[i].ref, ~inode'[i].ref
    PROVE  /\ ifreeq' \in Seq(Table)
           /\ \A j \in Table \ {i} : Occurs(ifreeq, {j})' = Occurs(ifreeq, {j})
           /\ Occurs(ifreeq, {i})' = Occurs(ifreeq, {i}) + One(~inode'[i].ref) - One(~inode[i].ref)
<1>1. InoTypes
    BY DEF InoInv
<1>2. /\ ifreeq' \in Seq(Table) /\ Occurs(ifreeq, {i})' = Occurs(ifreeq, {i}) + 1
      /\ \A j \in Table \ {i} : Occurs(ifreeq, {j})' = Occurs(ifreeq, {j})
    BY <1>1, FreeAppended
<1>3. One(~inode'[i].ref) = 1 /\ One(~inode[i].ref) = 0 /\ Occurs(ifreeq, {i}) \in Nat
    BY FreeType DEF One
<1> QED
    BY <1>2, <1>3

\* The inode is not that of the file handle: idrop
LEMMA IdropKeeps ==
    ASSUME InoInv, NEW p \in Procs, Idrop(p) PROVE Keeps(p)
<1>1. InoTypes /\ Places(p) /\ pc[p] \in Steps
    BY DEF InoInv, InoTypes
<1>2. PICK i : i = pc[p].ip
    OBVIOUS
<1>3. PICK d : d = [Iunlocked(inode[i]) EXCEPT !.count = Iunlocked(inode[i]).count - 1]
    OBVIOUS
<1>4. /\ pc[p].at = "got" /\ pc[p].call = "vget" /\ Turns(p)
      /\ UNCHANGED <<chain, ncache, disk, dir, spare>>
      /\ pc' = [pc EXCEPT ![p].at = "done"]
      /\ Wakeup(WakesOn(i))
    BY <1>2 DEF Idrop, Got, At, Goto, onDisk
<1>5. Ours(i) /\ i \in Table
    BY <1>1, <1>2, <1>4 DEF Places, Ours
<1>6. /\ inode' = [inode EXCEPT ![i] = IF d.count = 0 THEN Freed(d) ELSE d]
      /\ ifreeq' = IF d.count = 0 THEN Append(ifreeq, i) ELSE ifreeq
    BY <1>2, <1>3 DEF Idrop
<1>7. inode[i] \in Incore
    BY <1>1, <1>5 DEF InoTypes
<1>8. /\ Holds(p, i) /\ Locks(p, i)
      /\ \A j \in Table : (Holds(p, j) <=> j = i) /\ ~Rel(p, j) /\ (Locks(p, j) <=> j = i)
    BY <1>2, <1>4, <1>5 DEF Holds, Rel, Locks, Releasing
<1>9. inode[i].count \in Nat /\ inode[i].count >= 1 /\ inode[i].ref /\ inode[i].locked
    <2>1. inode[i].count \in Nat /\ inode[i].count >= 1
        BY <1>5, <1>8, CountBounds
    <2> QED
        BY <1>5, <1>8, <2>1 DEF InoInv, InUse, Owned
<1>10. /\ d \in Incore /\ d.num = inode[i].num /\ d.count = inode[i].count - 1 /\ ~d.locked
       /\ d.ref = inode[i].ref
    <2>1. PICK u : u = Iunlocked(inode[i])
        OBVIOUS
    <2>2. /\ u \in Incore /\ ~u.locked /\ u.num = inode[i].num /\ u.count = inode[i].count
          /\ u.ref = inode[i].ref
        BY <1>7, <2>1, IunlockedType
    <2>3. PICK n \in Int : n = u.count - 1
        BY <2>2 DEF Incore
    <2>4. d = [u EXCEPT !.count = n]
        BY <1>3, <2>1, <2>3
    <2>5. d \in Incore /\ d.num = u.num /\ d.count = n /\ d.locked = u.locked /\ d.ref = u.ref
        BY <2>2, <2>4 DEF Incore
    <2> QED
        BY <2>2, <2>3, <2>5
<1>11. PICK r : r = IF d.count = 0 THEN Freed(d) ELSE d
    OBVIOUS
<1>12. /\ r \in Incore /\ r.num = inode[i].num /\ r.count = inode[i].count - 1 /\ ~r.locked
       /\ r.ref <=> d.count # 0
    <2>1. CASE d.count = 0
        BY <1>10, <1>11, <2>1, FreedType
    <2>2. CASE d.count # 0
        BY <1>9, <1>10, <1>11, <2>2
    <2> QED
        BY <2>1, <2>2
<1>13. inode' = [inode EXCEPT ![i] = r]
    BY <1>6, <1>11
<1>14. /\ inode' \in [Table -> Incore] /\ inode'[i] = r
       /\ \A j \in Table \ {i} : inode'[j] = inode[j]
    BY <1>1, <1>5, <1>12, <1>13 DEF InoTypes
<1>15. PICK s : s = [pc[p] EXCEPT !.at = "done"]
    OBVIOUS
<1>16. s \in Steps /\ s.at = "done" /\ pc' = [pc EXCEPT ![p] = s]
    BY <1>1, <1>4, <1>15 DEF InoTypes, Steps, Labels
<1>17. pc' \in [Procs -> Steps] /\ Moved(p) /\ pc'[p] = s
    BY <1>1, <1>4, <1>16 DEF InoTypes, Moved
<1>18. /\ ifreeq' \in Seq(Table)
       /\ \A j \in Table \ {i} : Occurs(ifreeq, {j})' = Occurs(ifreeq, {j})
       /\ Occurs(ifreeq, {i})' = Occurs(ifreeq, {i}) + One(~inode'[i].ref) - One(~inode[i].ref)
    <2>1. CASE d.count = 0
        BY <1>5, <1>6, <1>9, <1>12, <1>14, <2>1, FreeGrows
    <2>2. CASE d.count # 0
        <3>1. ifreeq' = ifreeq /\ inode'[i].ref = inode[i].ref
            <4>1. r = d /\ ifreeq' = ifreeq
                BY <1>6, <1>11, <2>2
            <4> QED
                BY <1>10, <1>14, <4>1
        <3> QED
            BY <1>1, <1>5, <3>1, FreeSame, FreeStays DEF InoTypes
    <2> QED
        BY <2>1, <2>2
<1>19. InoTypes' /\ \A j \in Table : Ours(j) => Ours(j)'
    <2>1. wchan' \in [Procs -> Chans] /\ chain' \in Seq(Table) /\ ncache' \in Seq(Entries)
        BY <1>1, <1>4, <1>5, UnlockWakes DEF InoTypes
    <2>2. inode'[i].num # Foreign
        BY <1>5, <1>12, <1>14 DEF Ours
    <2> QED
        BY <1>4, <1>5, <1>14, <1>17, <1>18, <2>1, <2>2, StepOn
<1>20. Places(p)'
    BY <1>16, <1>17 DEF Places, Releasing
<1>21. NamesOurs' /\ \A j : NamesOf(j)' = NamesOf(j) /\ NamesOf(j) \in Nat
    BY <1>4, <1>19, NamesSame
<1>22. ASSUME NEW j \in Table
       PROVE  Has(p, j) = One(j = i) /\ Has(p, j)' = 0 /\ ~Locks(p, j)'
    <2>1. ~Holds(p, j)' /\ ~Rel(p, j)' /\ ~Locks(p, j)'
        BY <1>16, <1>17 DEF Holds, Rel, Locks, Releasing
    <2> QED
        BY <1>8, <2>1 DEF Has, One
<1>23. \A j \in Table : Waited(j)'
    BY <1>4, <1>5, <1>14, UnlockWaited
<1>24. \A j \in Table \ {i} : Has(p, j)' - Has(p, j) + (NamesOf(j)' - NamesOf(j)) = 0
    BY <1>21, <1>22 DEF One
<1>25. inode'[i].count = inode[i].count + (Has(p, i)' - Has(p, i)) + (NamesOf(i)' - NamesOf(i))
    BY <1>5, <1>9, <1>12, <1>14, <1>21, <1>22 DEF One
<1>26. InUse(i)'
    BY <1>10, <1>12, <1>14 DEF InUse
<1>27. /\ inode[i].num # Foreign /\ inode'[i].num # Foreign
       /\ inode[i].locked /\ inode[i].count = 0 /\ ~Locks(p, i) => inode'[i].count = 0
       /\ Locks(p, i)' /\ ~Locks(p, i) => ~inode[i].locked
       /\ inode'[i].locked <=> Locks(p, i)' \/ (inode[i].locked /\ ~Locks(p, i))
    BY <1>5, <1>8, <1>12, <1>14, <1>22 DEF Ours
<1>28. \A j \in Table \ {i} : Locks(p, j)' <=> Locks(p, j)
    BY <1>8, <1>22
<1> QED
    BY <1>5, <1>14, <1>17, <1>18, <1>19, <1>20, <1>21, <1>23, <1>24, <1>25, <1>26, <1>27, <1>28,
       OneInodeKeeps

\* The name is entered in the cache
LEMMA EnterKeeps ==
    ASSUME InoInv, NEW p \in Procs, Enter(p) PROVE Keeps(p)
<1>1. InoTypes /\ Places(p) /\ pc[p] \in Steps
    BY DEF InoInv, InoTypes
<1>2. PICK i : i = pc[p].ip
    OBVIOUS
<1>3. PICK e : e = [name |-> pc[p].name, vp |-> i]
    OBVIOUS
<1>4. /\ pc[p].at \in {"enter", "entered"} /\ Turns(p) /\ ncache' = Append(ncache, e)
      /\ UNCHANGED <<chain, ifreeq, disk, dir, spare>>
    BY <1>2, <1>3 DEF Enter, At, onDisk
<1>5. Ours(i) /\ i \in Table /\ pc[p].call \in {"lookup", "mkdir"}
    BY <1>1, <1>2, <1>4 DEF Places, Ours
<1>6. e \in Entries /\ e.vp = i
    BY <1>1, <1>3, <1>5 DEF Entries, Steps
<1>7. inode[i] \in Incore
    BY <1>1, <1>5 DEF InoTypes
<1>8. inode[i].count \in Nat /\ inode[i].count >= 1 /\ inode[i].ref
    <2>1. Holds(p, i)
        BY <1>2, <1>4 DEF Holds
    <2>2. inode[i].count \in Nat /\ inode[i].count >= 1
        BY <1>5, <2>1, CountBounds
    <2> QED
        BY <1>5, <2>2 DEF InoInv, InUse
<1>9. PICK c : c = [inode[i] EXCEPT !.count = inode[i].count + 1]
    OBVIOUS
<1>10. /\ c \in Incore /\ c.num = inode[i].num /\ c.count = inode[i].count + 1
       /\ c.ref = inode[i].ref /\ c.locked = inode[i].locked /\ c.want = inode[i].want
    <2>1. PICK n \in Int : n = inode[i].count + 1
        BY <1>7 DEF Incore
    <2>2. c = [inode[i] EXCEPT !.count = n]
        BY <1>9, <2>1
    <2>3. /\ c \in Incore /\ c.num = inode[i].num /\ c.count = n
          /\ c.ref = inode[i].ref /\ c.locked = inode[i].locked /\ c.want = inode[i].want
        BY <1>7, <2>2 DEF Incore
    <2> QED
        BY <2>1, <2>3
<1>11. Entered(p, c)
    BY <1>2, <1>5, <1>7, <1>9 DEF Enter, Incore
<1>12. PICK r \in Incore, s \in Steps :
           /\ inode' = [inode EXCEPT ![i] = r] /\ pc' = [pc EXCEPT ![p] = s]
           /\ r.num = inode[i].num /\ r.count = inode[i].count + 1 /\ r.ref
           /\ s.ip = i
           /\ \/ /\ pc[p].call = "lookup" /\ s.at = "open" /\ ~r.locked /\ Wakeup(WakesOn(i))
              \/ /\ pc[p].call = "mkdir" /\ s.at = "ilock" /\ wchan' = wchan
                 /\ r.locked = inode[i].locked /\ r.want = inode[i].want
    <2>1. CASE pc[p].call = "lookup"
        <3>1. PICK r : r = Iunlocked(c)
            OBVIOUS
        <3>2. r \in Incore /\ r.num = c.num /\ r.count = c.count /\ r.ref = c.ref /\ ~r.locked
            BY <1>10, <3>1, IunlockedType
        <3>3. inode' = [inode EXCEPT ![i] = r] /\ Open(p, i) /\ Wakeup(WakesOn(i))
            BY <1>2, <1>11, <2>1, <3>1 DEF Entered
        <3>4. PICK s \in Steps : pc' = [pc EXCEPT ![p] = s] /\ s.at = "open" /\ s.ip = i
            BY <1>1, <1>5, <3>3, OpenStep
        <3> QED
            BY <1>8, <1>10, <2>1, <3>2, <3>3, <3>4
    <2>2. CASE pc[p].call = "mkdir"
        <3>1. PICK s : s = [pc[p] EXCEPT !.at = "ilock"]
            OBVIOUS
        <3>2. s \in Steps /\ s.at = "ilock" /\ s.ip = i
            BY <1>1, <1>2, <3>1 DEF Steps, Labels
        <3>3. /\ inode' = [inode EXCEPT ![i] = c] /\ pc' = [pc EXCEPT ![p].at = "ilock"]
              /\ wchan' = wchan
            BY <1>2, <1>11, <2>2 DEF Entered, Goto
        <3>4. pc' = [pc EXCEPT ![p] = s]
            BY <1>1, <3>1, <3>3 DEF InoTypes, Steps
        <3> QED
            BY <1>8, <1>10, <2>2, <3>2, <3>3, <3>4
    <2> QED
        BY <1>5, <2>1, <2>2
<1>13. /\ inode' \in [Table -> Incore] /\ inode'[i] = r
       /\ \A j \in Table \ {i} : inode'[j] = inode[j]
    BY <1>1, <1>5, <1>12 DEF InoTypes
<1>14. pc' \in [Procs -> Steps] /\ Moved(p) /\ pc'[p] = s
    BY <1>1, <1>4, <1>12 DEF InoTypes, Moved
<1>15. /\ ncache' \in Seq(Entries)
       /\ \A j : NamesOf(j)' = NamesOf(j) + One(e.vp = j)
       /\ \A k \in DOMAIN ncache' : ncache'[k] = e \/ \E m \in DOMAIN ncache : ncache'[k] = ncache[m]
    BY <1>1, <1>4, <1>6, NamesAppended
<1>16. InoTypes' /\ \A j \in Table : Ours(j) => Ours(j)'
    <2>1. wchan' \in [Procs -> Chans]
        <3>1. CASE Wakeup(WakesOn(i))
            BY <1>5, <3>1, UnlockWakes
        <3>2. CASE wchan' = wchan
            BY <1>1, <3>2 DEF InoTypes
        <3> QED
            BY <1>12, <3>1, <3>2
    <2>2. chain' \in Seq(Table) /\ ifreeq' \in Seq(Table)
        BY <1>1, <1>4 DEF InoTypes
    <2>3. inode'[i].num # Foreign
        BY <1>5, <1>12, <1>13 DEF Ours
    <2> QED
        BY <1>4, <1>5, <1>13, <1>14, <1>15, <2>1, <2>2, <2>3, StepOn
<1>17. Places(p)'
    BY <1>5, <1>12, <1>13, <1>14 DEF Places, Ours, Releasing
<1>18. NamesOurs'
    <2>1. \A m \in DOMAIN ncache : Ours(ncache[m].vp)
        BY DEF InoInv, NamesOurs
    <2>2. \A j \in Table : Ours(j) => j \in Table /\ inode'[j].num # Foreign
        BY <1>16 DEF Ours
    <2>3. \A k \in DOMAIN ncache' : Ours(ncache'[k].vp)
        BY <1>5, <1>6, <1>15, <2>1
    <2>4. \A j : Ours(j) => j \in Table
        BY DEF Ours
    <2> QED
        BY <2>2, <2>3, <2>4 DEF NamesOurs, Ours
<1>19. \A j \in Table : NamesOf(j) \in Nat
    BY <1>1, NamesOfType
<1>20. ASSUME NEW j \in Table
       PROVE  /\ Has(p, j) = One(j = i) /\ Has(p, j)' = One(j = i)
              /\ Locks(p, j) <=> j = i /\ pc[p].call = "lookup"
              /\ ~Locks(p, j)'
    <2>1. /\ (Holds(p, j) <=> j = i) /\ ~Rel(p, j)
          /\ Locks(p, j) <=> j = i /\ pc[p].call = "lookup"
        BY <1>2, <1>4 DEF Holds, Rel, Locks, Releasing
    <2>2. (Holds(p, j)' <=> j = i) /\ ~Rel(p, j)' /\ ~Locks(p, j)'
        BY <1>12, <1>14 DEF Holds, Rel, Locks, Releasing
    <2> QED
        BY <2>1, <2>2 DEF Has, One
<1>21. \A j \in Table : Waited(j)'
    <2>1. CASE Wakeup(WakesOn(i))
        BY <1>5, <1>13, <2>1, UnlockWaited
    <2>2. CASE wchan' = wchan /\ r.locked = inode[i].locked /\ r.want = inode[i].want
        BY <1>13, <2>2, WaitedSame
    <2> QED
        BY <1>12, <2>1, <2>2
<1>22. \A j \in Table \ {i} : Has(p, j)' - Has(p, j) + (NamesOf(j)' - NamesOf(j)) = 0
    BY <1>6, <1>15, <1>19, <1>20 DEF One
<1>23. inode'[i].count = inode[i].count + (Has(p, i)' - Has(p, i)) + (NamesOf(i)' - NamesOf(i))
    <2>1. NamesOf(i)' = NamesOf(i) + 1 /\ NamesOf(i) \in Nat
        BY <1>5, <1>6, <1>15, <1>19 DEF One
    <2>2. Has(p, i)' = 1 /\ Has(p, i) = 1
        BY <1>5, <1>20 DEF One
    <2> QED
        BY <1>8, <1>12, <1>13, <2>1, <2>2
<1>24. /\ \A j \in Table \ {i} : Occurs(ifreeq, {j})' = Occurs(ifreeq, {j})
       /\ Occurs(ifreeq, {i})' = Occurs(ifreeq, {i}) + One(~inode'[i].ref) - One(~inode[i].ref)
    <2>1. inode'[i].ref = inode[i].ref
        BY <1>7, <1>8, <1>12, <1>13 DEF Incore
    <2> QED
        BY <1>4, <1>5, <2>1, FreeSame, FreeStays
<1>25. InUse(i)'
    BY <1>12, <1>13 DEF InUse
<1>26. /\ inode[i].num # Foreign /\ inode'[i].num # Foreign
       /\ inode[i].locked /\ inode[i].count = 0 /\ ~Locks(p, i) => inode'[i].count = 0
       /\ Locks(p, i)' /\ ~Locks(p, i) => ~inode[i].locked
    BY <1>5, <1>8, <1>12, <1>13, <1>20 DEF Ours
<1>27. inode'[i].locked <=> Locks(p, i)' \/ (inode[i].locked /\ ~Locks(p, i))
    BY <1>5, <1>12, <1>13, <1>20
<1>28. \A j \in Table \ {i} : Locks(p, j)' <=> Locks(p, j)
    BY <1>20
<1> QED
    BY <1>5, <1>13, <1>14, <1>16, <1>17, <1>18, <1>21, <1>22, <1>23, <1>24, <1>25, <1>26, <1>27,
       <1>28, OneInodeKeeps

-------------------------------------------------------------------------------
(* Steps of the release of an inode                                        *)

\* Where a process goes on that has released an inode
LEMMA ReleasedStep ==
    ASSUME InoInv, NEW p \in Procs, Turns(p), Releasing(p), Released(p)
    PROVE  /\ pc' \in [Procs -> Steps] /\ Moved(p)
           /\ pc'[p].at \in Thens \ {"none"}
           /\ pc'[p].at \in {"entered", "got"} => Ours(pc'[p].ip)
           /\ pc'[p].at = "entered" => pc'[p].call \in {"lookup", "mkdir"}
           /\ \A j : (Holds(p, j)' <=> Holds(p, j)) /\ ~Rel(p, j)'
           /\ \A j : Locks(p, j)' <=> /\ pc[p].ip = j
                                      /\ \/ pc[p].then = "got"
                                         \/ pc[p].then = "entered" /\ pc[p].call = "lookup"
           /\ \A j : Locks(p, j)' => Locks(p, j) /\ Holds(p, j)
           /\ \A j : Locks(p, j) => Locks(p, j)' \/ (pc[p].vic = j /\ pc[p].at \in {"trunc", "flush"})
<1>1. InoTypes /\ Places(p) /\ pc[p] \in Steps
    BY DEF InoInv, InoTypes
<1>2. pc[p].then \in Thens \ {"none"}
    BY <1>1 DEF Places, Steps
<1>3. PICK s : s = [pc[p] EXCEPT !.at = pc[p].then, !.vic = "none", !.then = "none"]
    OBVIOUS
<1>4. /\ s \in Steps /\ s.at = pc[p].then /\ s.vic = "none" /\ s.then = "none" /\ s.ip = pc[p].ip
      /\ s.call = pc[p].call
    BY <1>1, <1>2, <1>3 DEF Steps, Labels, Thens
<1>5. pc' = [pc EXCEPT ![p] = s]
    BY <1>1, <1>3 DEF Released, InoTypes, Steps
<1>6. pc' \in [Procs -> Steps] /\ Moved(p) /\ pc'[p] = s
    BY <1>1, <1>4, <1>5 DEF InoTypes, Moved
<1>7. pc[p].at \in {"rele", "inactive", "trunc", "flush"}
    BY DEF Releasing
<1>8. ASSUME NEW j PROVE (Holds(p, j)' <=> Holds(p, j)) /\ ~Rel(p, j)'
    BY <1>2, <1>4, <1>6, <1>7 DEF Holds, Rel, Releasing, Thens
<1>9. ASSUME NEW j
      PROVE  Locks(p, j)' <=> /\ pc[p].ip = j
                              /\ \/ pc[p].then = "got"
                                 \/ pc[p].then = "entered" /\ pc[p].call = "lookup"
    BY <1>2, <1>4, <1>6 DEF Locks, Releasing, Thens
<1>10. ASSUME NEW j, Locks(p, j)' PROVE Locks(p, j) /\ Holds(p, j)
    BY <1>7, <1>9, <1>10 DEF Locks, Holds, Releasing
<1>11. ASSUME NEW j, Locks(p, j)
       PROVE  Locks(p, j)' \/ (pc[p].vic = j /\ pc[p].at \in {"trunc", "flush"})
    BY <1>7, <1>9, <1>11 DEF Locks, Releasing
<1>12. /\ pc'[p].at \in {"entered", "got"} => Ours(pc'[p].ip)
       /\ pc'[p].at = "entered" => pc'[p].call \in {"lookup", "mkdir"}
    BY <1>1, <1>4, <1>6 DEF Places
<1> QED
    BY <1>2, <1>4, <1>6, <1>8, <1>9, <1>10, <1>11, <1>12

\* ... and what is true of it there
LEMMA ReleasedPlaces ==
    ASSUME NEW p \in Procs, pc'[p].at \in Thens \ {"none"},
           pc'[p].at \in {"entered", "got"} => Ours(pc'[p].ip),
           pc'[p].at = "entered" => pc'[p].call \in {"lookup", "mkdir"},
           \A j \in Table : Ours(j) => Ours(j)'
    PROVE  Places(p)'
<1>1. pc'[p].at \in {"entered", "got"} => Ours(pc[p].ip)'
    <2>1. PICK j : j = pc'[p].ip
        OBVIOUS
    <2>2. Ours(j) => Ours(j)'
        BY DEF Ours
    <2> QED
        BY <2>1, <2>2 DEF Ours
<1> QED
    BY <1>1 DEF Places, Releasing, Thens

\* vn_rele
LEMMA ReleKeeps ==
    ASSUME InoInv, NEW p \in Procs, Rele(p) PROVE Keeps(p)
<1>1. InoTypes /\ Places(p) /\ pc[p] \in Steps
    BY DEF InoInv, InoTypes
<1>2. PICK i : i = pc[p].vic
    OBVIOUS
<1>3. /\ pc[p].at = "rele" /\ Turns(p)
      /\ UNCHANGED <<chain, ifreeq, ncache, disk, dir, spare, wchan>>
      /\ IF inode[i].count = 1 THEN pc' = [pc EXCEPT ![p].at = "inactive"] ELSE Released(p)
    BY <1>2 DEF Rele, At, Goto, onDisk
<1>4. Ours(i) /\ i \in Table /\ pc[p].then # "none"
    BY <1>1, <1>2, <1>3 DEF Places, Ours, Releasing
<1>5. inode[i] \in Incore
    BY <1>1, <1>4 DEF InoTypes
<1>6. inode' = [inode EXCEPT ![i].count = inode[i].count - 1]
    BY <1>1, <1>2, <1>4, <1>5 DEF Rele, InoTypes, Incore
<1>7. inode[i].count \in Nat /\ inode[i].count >= 1 /\ inode[i].ref
    <2>1. Rel(p, i)
        BY <1>2, <1>3 DEF Rel
    <2>2. inode[i].count \in Nat /\ inode[i].count >= 1
        BY <1>4, <2>1, CountBounds
    <2> QED
        BY <1>4, <2>2 DEF InoInv, InUse
<1>8. PICK r : r = [inode[i] EXCEPT !.count = inode[i].count - 1]
    OBVIOUS
<1>9. /\ r \in Incore /\ r.num = inode[i].num /\ r.count = inode[i].count - 1
      /\ r.ref = inode[i].ref /\ r.locked = inode[i].locked /\ r.want = inode[i].want
    <2>1. PICK n \in Int : n = inode[i].count - 1
        BY <1>7
    <2>2. r = [inode[i] EXCEPT !.count = n]
        BY <1>8, <2>1
    <2>3. /\ r \in Incore /\ r.num = inode[i].num /\ r.count = n
          /\ r.ref = inode[i].ref /\ r.locked = inode[i].locked /\ r.want = inode[i].want
        BY <1>5, <2>2 DEF Incore
    <2> QED
        BY <2>1, <2>3
<1>10. inode' = [inode EXCEPT ![i] = r]
    BY <1>1, <1>4, <1>5, <1>6, <1>8 DEF InoTypes, Incore
<1>11. /\ inode' \in [Table -> Incore] /\ inode'[i] = r
       /\ \A j \in Table \ {i} : inode'[j] = inode[j]
    BY <1>1, <1>4, <1>9, <1>10 DEF InoTypes
<1>12. inode'[i].num # Foreign /\ inode[i].num # Foreign
    BY <1>4, <1>9, <1>11 DEF Ours
<1>13. /\ chain' \in Seq(Table) /\ ifreeq' \in Seq(Table) /\ ncache' \in Seq(Entries)
       /\ wchan' \in [Procs -> Chans]
    BY <1>1, <1>3 DEF InoTypes
<1>14. /\ pc' \in [Procs -> Steps] /\ Moved(p)
       /\ \A j \in Table : /\ Holds(p, j)' <=> Holds(p, j)
                           /\ Rel(p, j) <=> j = i
                           /\ ~Rel(p, j)'
                           /\ Locks(p, j)' <=> Locks(p, j)
       /\ (\A j \in Table : Ours(j) => Ours(j)') => Places(p)'
    <2>1. CASE inode[i].count = 1
        <3>1. PICK s : s = [pc[p] EXCEPT !.at = "inactive"]
            OBVIOUS
        <3>2. /\ s \in Steps /\ s.at = "inactive" /\ s.ip = pc[p].ip /\ s.vic = i
              /\ s.then = pc[p].then /\ s.call = pc[p].call
            BY <1>1, <1>2, <3>1 DEF Steps, Labels
        <3>3. pc' = [pc EXCEPT ![p] = s]
            BY <1>1, <1>3, <2>1, <3>1 DEF InoTypes, Steps
        <3>4. pc' \in [Procs -> Steps] /\ Moved(p) /\ pc'[p] = s
            BY <1>1, <1>3, <3>2, <3>3 DEF InoTypes, Moved
        <3>5. ASSUME NEW j \in Table
              PROVE  /\ Holds(p, j)' <=> Holds(p, j)
                     /\ Rel(p, j) <=> j = i
                     /\ ~Rel(p, j)'
                     /\ Locks(p, j)' <=> Locks(p, j)
            BY <1>2, <1>3, <3>2, <3>4 DEF Holds, Rel, Locks, Releasing
        <3>6. ~inode[i].locked
            <4>1. SUFFICES ASSUME inode[i].locked PROVE FALSE
                OBVIOUS
            <4>2. PICK q \in Procs : Locks(q, i)
                BY <1>4, <4>1 DEF InoInv, Owned
            <4>3. Holds(q, i)
                BY <1>4, <1>7, <4>2, LockerHolds
            <4>4. Rel(p, i)
                BY <1>2, <1>3 DEF Rel
            <4>5. inode[i].count >= 2
                BY <1>4, <4>3, <4>4, CountBounds
            <4> QED
                BY <2>1, <4>5
        <3>7. ASSUME \A j \in Table : Ours(j) => Ours(j)' PROVE Places(p)'
            <4>1. pc[p].then \in {"got", "entered"} => Ours(pc[p].ip)
                BY <1>1, <1>3 DEF Places, Releasing
            <4>2. pc[p].then = "entered" => pc[p].call \in {"lookup", "mkdir"}
                BY <1>1, <1>3 DEF Places, Releasing
            <4>3. ~r.locked /\ r.count = 0 /\ r.ref
                BY <1>7, <1>9, <2>1, <3>6
            <4>4. pc[p].then \in {"got", "entered"} => s.ip \in Table /\ inode'[s.ip].num # Foreign
                BY <3>2, <3>7, <4>1 DEF Ours
            <4> QED
                BY <1>4, <1>11, <1>12, <3>2, <3>4, <4>2, <4>3, <4>4 DEF Places, Ours, Releasing
        <3> QED
            BY <3>4, <3>5, <3>7
    <2>2. CASE inode[i].count # 1
        <3>1. Released(p) /\ Releasing(p)
            BY <1>3, <2>2 DEF Releasing
        <3>2. /\ pc' \in [Procs -> Steps] /\ Moved(p)
              /\ pc'[p].at \in Thens \ {"none"}
              /\ pc'[p].at \in {"entered", "got"} => Ours(pc'[p].ip)
              /\ pc'[p].at = "entered" => pc'[p].call \in {"lookup", "mkdir"}
              /\ \A j : (Holds(p, j)' <=> Holds(p, j)) /\ ~Rel(p, j)'
              /\ \A j : Locks(p, j)' => Locks(p, j) /\ Holds(p, j)
              /\ \A j : Locks(p, j) => Locks(p, j)' \/ (pc[p].vic = j /\ pc[p].at \in {"trunc", "flush"})
            BY <1>3, <3>1, ReleasedStep
        <3>3. \A j \in Table : Rel(p, j) <=> j = i
            BY <1>2, <1>3 DEF Rel
        <3>4. pc[p].at \notin {"trunc", "flush"}
            BY <1>3
        <3>5. (\A j \in Table : Ours(j) => Ours(j)') => Places(p)'
            BY <3>2, ReleasedPlaces
        <3> QED
            BY <3>2, <3>3, <3>4, <3>5
    <2> QED
        BY <2>1, <2>2
<1>15. InoTypes' /\ \A j \in Table : Ours(j) => Ours(j)'
    BY <1>3, <1>4, <1>11, <1>12, <1>13, <1>14, StepOn
<1>16. Places(p)'
    BY <1>14, <1>15
<1>17. NamesOurs' /\ \A j : NamesOf(j)' = NamesOf(j) /\ NamesOf(j) \in Nat
    BY <1>3, <1>15, NamesSame
<1>18. ASSUME NEW j \in Table
       PROVE  Has(p, j)' - Has(p, j) = 0 - One(j = i)
    <2>1. /\ One(Holds(p, j)') = One(Holds(p, j)) /\ One(Holds(p, j)) \in Int
          /\ One(Rel(p, j)') = 0 /\ One(Rel(p, j)) = One(j = i) /\ One(j = i) \in Int
        BY <1>14 DEF One
    <2> QED
        BY <2>1 DEF Has
<1>19. \A j \in Table : Waited(j)'
    BY <1>3, <1>9, <1>11, WaitedSame
<1>20. ASSUME NEW j \in Table \ {i} PROVE Has(p, j)' - Has(p, j) + (NamesOf(j)' - NamesOf(j)) = 0
    BY <1>17, <1>18 DEF One
<1>21. inode'[i].count = inode[i].count + (Has(p, i)' - Has(p, i)) + (NamesOf(i)' - NamesOf(i))
    <2>1. Has(p, i)' - Has(p, i) = 0 - 1
        BY <1>4, <1>18 DEF One
    <2> QED
        BY <1>7, <1>9, <1>11, <1>17, <2>1
<1>22. /\ \A j \in Table \ {i} : Occurs(ifreeq, {j})' = Occurs(ifreeq, {j})
       /\ Occurs(ifreeq, {i})' = Occurs(ifreeq, {i}) + One(~inode'[i].ref) - One(~inode[i].ref)
    BY <1>3, <1>4, <1>9, <1>11, FreeSame, FreeStays
<1>23. InUse(i)'
    BY <1>7, <1>9, <1>11 DEF InUse
<1>24. /\ inode[i].locked /\ inode[i].count = 0 /\ ~Locks(p, i) => inode'[i].count = 0
       /\ Locks(p, i)' /\ ~Locks(p, i) => ~inode[i].locked
    BY <1>4, <1>7, <1>14
<1>25. inode'[i].locked <=> Locks(p, i)' \/ (inode[i].locked /\ ~Locks(p, i))
    <2>1. Locks(p, i) => inode[i].locked
        BY <1>4 DEF InoInv, Owned
    <2>2. inode[i].locked \in BOOLEAN /\ (Locks(p, i)' <=> Locks(p, i))
        BY <1>4, <1>5, <1>14 DEF Incore
    <2> QED
        BY <1>9, <1>11, <2>1, <2>2
<1>26. \A j \in Table \ {i} : Locks(p, j)' <=> Locks(p, j)
    BY <1>14
<1> QED
    BY <1>4, <1>11, <1>12, <1>14, <1>15, <1>16, <1>17, <1>19, <1>20, <1>21, <1>22, <1>23, <1>24,
       <1>25, <1>26, OneInodeKeeps

\* iinactive ends: the inode goes to the end of the free list
LEMMA FreedKeeps ==
    ASSUME InoInv, NEW p \in Procs, Inactive(p) \/ Flushed(p) PROVE Keeps(p)
<1>1. InoTypes /\ Places(p) /\ pc[p] \in Steps
    BY DEF InoInv, InoTypes
<1>2. PICK i : i = pc[p].vic
    OBVIOUS
<1>3. /\ pc[p].at \in {"inactive", "flush"} /\ Turns(p) /\ Released(p)
      /\ ifreeq' = Append(ifreeq, i) /\ UNCHANGED <<chain, ncache, dir, spare>>
      /\ disk' = disk \/ disk' = [disk EXCEPT ![inode[i].num] = inode[i].d]
    <2>1. CASE Inactive(p)
        BY <1>2, <2>1 DEF Inactive, At, onDisk
    <2>2. CASE Flushed(p)
        BY <1>2, <2>2 DEF Flushed, At, Written
    <2> QED
        BY <2>1, <2>2
<1>4. Ours(i) /\ i \in Table /\ inode[i].count = 0 /\ inode[i] \in Incore
    BY <1>1, <1>2, <1>3 DEF Places, Ours, Releasing, InoTypes
<1>5. /\ Releasing(p) /\ pc' \in [Procs -> Steps] /\ Moved(p)
      /\ pc'[p].at \in Thens \ {"none"}
      /\ pc'[p].at \in {"entered", "got"} => Ours(pc'[p].ip)
      /\ pc'[p].at = "entered" => pc'[p].call \in {"lookup", "mkdir"}
      /\ \A j : (Holds(p, j)' <=> Holds(p, j)) /\ ~Rel(p, j)'
      /\ \A j : Locks(p, j)' => Locks(p, j) /\ Holds(p, j)
      /\ \A j : Locks(p, j) => Locks(p, j)' \/ (pc[p].vic = j /\ pc[p].at \in {"trunc", "flush"})
    <2>1. Releasing(p)
        BY <1>3 DEF Releasing
    <2> QED
        BY <1>3, <2>1, ReleasedStep
<1>6. PICK r \in Incore :
          /\ inode' = [inode EXCEPT ![i] = r] /\ r.num = inode[i].num /\ r.count = 0
          /\ ~r.locked /\ ~r.ref
    <2>1. CASE Inactive(p)
        <3>1. PICK r : r = Freed(inode[i])
            OBVIOUS
        <3>2. r \in Incore /\ r.num = inode[i].num /\ r.count = 0 /\ r.locked = inode[i].locked /\ ~r.ref
            BY <1>4, <3>1, FreedType
        <3>3. ~inode[i].locked
            BY <1>1, <1>2, <2>1 DEF Inactive, At, Places
        <3>4. inode' = [inode EXCEPT ![i] = r]
            BY <1>1, <1>2, <1>4, <2>1, <3>1 DEF Inactive, InoTypes
        <3> QED
            BY <3>2, <3>3, <3>4
    <2>2. CASE Flushed(p)
        <3>1. PICK u : u = Iunlocked(inode[i])
            OBVIOUS
        <3>2. u \in Incore /\ u.num = inode[i].num /\ u.count = 0 /\ ~u.locked
            BY <1>4, <3>1, IunlockedType
        <3>3. PICK r : r = Freed(u)
            OBVIOUS
        <3>4. r \in Incore /\ r.num = inode[i].num /\ r.count = 0 /\ ~r.locked /\ ~r.ref
            BY <3>2, <3>3, FreedType
        <3>5. inode' = [inode EXCEPT ![i] = r]
            BY <1>1, <1>2, <1>4, <2>2, <3>1, <3>3 DEF Flushed, InoTypes
        <3> QED
            BY <3>4, <3>5
    <2> QED
        BY <2>1, <2>2
<1>7. /\ inode' \in [Table -> Incore] /\ inode'[i] = r
      /\ \A j \in Table \ {i} : inode'[j] = inode[j]
    BY <1>1, <1>4, <1>6 DEF InoTypes
<1>8. inode'[i].num # Foreign /\ inode[i].num # Foreign
    BY <1>4, <1>6, <1>7 DEF Ours
<1>9. ~Holds(p, i) /\ ~Locks(p, i)'
    <2>1. ~Holds(p, i)
        BY <1>4, CountBounds
    <2> QED
        BY <1>5, <2>1
<1>10. inode[i].ref /\ (Locks(p, i) <=> inode[i].locked)
    <2>1. CASE Inactive(p)
        <3>1. /\ pc[p].at = "inactive" /\ inode[i].ref /\ ~inode[i].locked
            BY <1>1, <1>2, <2>1 DEF Inactive, At, Places
        <3>2. ~Locks(p, i)
            BY <1>4, <3>1 DEF InoInv, Owned
        <3> QED
            BY <3>1, <3>2
    <2>2. CASE Flushed(p)
        <3>1. pc[p].at = "flush"
            BY <2>2 DEF Flushed, At
        <3>2. Locks(p, i)
            BY <1>2, <3>1 DEF Locks
        <3>3. inode[i].locked
            BY <1>4, <3>2 DEF InoInv, Owned
        <3> QED
            BY <1>4, <3>2, <3>3 DEF InoInv, InUse
    <2> QED
        BY <2>1, <2>2
<1>11. \A j \in Table : Waited(j)'
    <2>1. CASE Inactive(p)
        <3>1. ~inode[i].locked /\ wchan' = wchan
            BY <1>1, <1>2, <2>1 DEF Inactive, At, Places
        <3> QED
            BY <1>4, <1>7, <3>1, UnlockedWaited, WaitedSame
    <2>2. CASE Flushed(p)
        BY <1>2, <1>4, <1>7, <2>2, UnlockWaited DEF Flushed
    <2> QED
        BY <2>1, <2>2
<1>12. wchan' \in [Procs -> Chans]
    <2>1. CASE Inactive(p)
        BY <1>1, <2>1 DEF Inactive, InoTypes
    <2>2. CASE Flushed(p)
        BY <1>2, <1>4, <2>2, UnlockWakes DEF Flushed
    <2> QED
        BY <2>1, <2>2
<1>13. /\ ifreeq' \in Seq(Table)
       /\ \A j \in Table \ {i} : Occurs(ifreeq, {j})' = Occurs(ifreeq, {j})
       /\ Occurs(ifreeq, {i})' = Occurs(ifreeq, {i}) + One(~inode'[i].ref) - One(~inode[i].ref)
    BY <1>3, <1>4, <1>6, <1>7, <1>10, FreeGrows
<1>14. InoTypes' /\ \A j \in Table : Ours(j) => Ours(j)'
    <2>1. chain' \in Seq(Table) /\ ncache' \in Seq(Entries)
        BY <1>1, <1>3 DEF InoTypes
    <2> QED
        BY <1>3, <1>4, <1>5, <1>7, <1>8, <1>12, <1>13, <2>1, StepOn
<1>15. Places(p)'
    BY <1>5, <1>14, ReleasedPlaces
<1>16. NamesOurs' /\ \A j : NamesOf(j)' = NamesOf(j) /\ NamesOf(j) \in Nat
    BY <1>3, <1>14, NamesSame
<1>17. ASSUME NEW j \in Table PROVE Has(p, j)' = Has(p, j) /\ Has(p, j) \in Int
    <2>1. ~Rel(p, j) /\ ~Rel(p, j)' /\ (Holds(p, j)' <=> Holds(p, j))
        BY <1>3, <1>5 DEF Rel
    <2> QED
        BY <2>1 DEF Has, One
<1>18. \A j \in Table \ {i} : Has(p, j)' - Has(p, j) + (NamesOf(j)' - NamesOf(j)) = 0
    BY <1>16, <1>17
<1>19. inode'[i].count = inode[i].count + (Has(p, i)' - Has(p, i)) + (NamesOf(i)' - NamesOf(i))
    BY <1>4, <1>6, <1>7, <1>16, <1>17
<1>20. InUse(i)'
    BY <1>6, <1>7 DEF InUse
<1>21. /\ inode[i].locked /\ inode[i].count = 0 /\ ~Locks(p, i) => inode'[i].count = 0
       /\ Locks(p, i)' /\ ~Locks(p, i) => ~inode[i].locked
       /\ inode'[i].locked <=> Locks(p, i)' \/ (inode[i].locked /\ ~Locks(p, i))
    BY <1>6, <1>7, <1>9, <1>10
<1>22. \A j \in Table \ {i} : Locks(p, j)' <=> Locks(p, j)
    BY <1>2, <1>5
<1> QED
    BY <1>4, <1>5, <1>7, <1>8, <1>11, <1>13, <1>14, <1>15, <1>16, <1>18, <1>19, <1>20, <1>21, <1>22,
       OneInodeKeeps

\* iinactive has something to write, and locks the inode
LEMMA InactiveBusyKeeps ==
    ASSUME InoInv, NEW p \in Procs, InactiveBusy(p) PROVE Keeps(p)
<1>1. InoTypes /\ Places(p) /\ pc[p] \in Steps
    BY DEF InoInv, InoTypes
<1>2. PICK i : i = pc[p].vic
    OBVIOUS
<1>3. /\ pc[p].at = "inactive" /\ Turns(p)
      /\ UNCHANGED <<chain, ifreeq, ncache, disk, dir, spare, wchan>>
      /\ inode' = [inode EXCEPT ![i].locked = TRUE, ![i].dirty = TRUE]
    BY <1>2 DEF InactiveBusy, At, onDisk
<1>4. PICK w \in {"trunc", "flush"} : pc' = [pc EXCEPT ![p].at = w]
    <2>1. PICK w : w = IF inode[i].d.nlink = 0 THEN "trunc" ELSE "flush"
        OBVIOUS
    <2>2. w \in {"trunc", "flush"}
        BY <2>1
    <2> QED
        BY <1>2, <2>1, <2>2 DEF InactiveBusy, Goto
<1>5. /\ Ours(i) /\ i \in Table /\ inode[i].count = 0 /\ inode[i] \in Incore
      /\ ~inode[i].locked /\ inode[i].ref /\ pc[p].then # "none"
    BY <1>1, <1>2, <1>3 DEF Places, Ours, Releasing, InoTypes
<1>6. PICK r : r = [inode[i] EXCEPT !.locked = TRUE, !.dirty = TRUE]
    OBVIOUS
<1>7. r \in Incore /\ r.num = inode[i].num /\ r.count = 0 /\ r.locked /\ r.ref
    BY <1>5, <1>6 DEF Incore
<1>8. inode' = [inode EXCEPT ![i] = r]
    BY <1>1, <1>3, <1>5, <1>6 DEF InoTypes, Incore
<1>9. /\ inode' \in [Table -> Incore] /\ inode'[i] = r
      /\ \A j \in Table \ {i} : inode'[j] = inode[j]
    BY <1>1, <1>5, <1>7, <1>8 DEF InoTypes
<1>10. inode'[i].num # Foreign /\ inode[i].num # Foreign
    BY <1>5, <1>7, <1>9 DEF Ours
<1>11. PICK s : s = [pc[p] EXCEPT !.at = w]
    OBVIOUS
<1>12. /\ s \in Steps /\ s.at = w /\ s.ip = pc[p].ip /\ s.vic = i
       /\ s.then = pc[p].then /\ s.call = pc[p].call
    BY <1>1, <1>2, <1>11 DEF Steps, Labels
<1>13. pc' = [pc EXCEPT ![p] = s]
    BY <1>1, <1>4, <1>11 DEF InoTypes, Steps
<1>14. pc' \in [Procs -> Steps] /\ Moved(p) /\ pc'[p] = s
    BY <1>1, <1>3, <1>12, <1>13 DEF InoTypes, Moved
<1>15. InoTypes' /\ \A j \in Table : Ours(j) => Ours(j)'
    <2>1. /\ chain' \in Seq(Table) /\ ifreeq' \in Seq(Table) /\ ncache' \in Seq(Entries)
          /\ wchan' \in [Procs -> Chans]
        BY <1>1, <1>3 DEF InoTypes
    <2> QED
        BY <1>3, <1>5, <1>9, <1>10, <1>14, <2>1, StepOn
<1>16. Places(p)'
    <2>1. pc[p].then \in {"got", "entered"} => Ours(pc[p].ip)
        BY <1>1, <1>3 DEF Places, Releasing
    <2>2. pc[p].then = "entered" => pc[p].call \in {"lookup", "mkdir"}
        BY <1>1, <1>3 DEF Places, Releasing
    <2>3. pc[p].then \in {"got", "entered"} => s.ip \in Table /\ inode'[s.ip].num # Foreign
        BY <1>12, <1>15, <2>1 DEF Ours
    <2> QED
        BY <1>5, <1>7, <1>9, <1>10, <1>12, <1>14, <2>2, <2>3 DEF Places, Ours, Releasing
<1>17. ASSUME NEW j \in Table
       PROVE  /\ Has(p, j)' = Has(p, j) /\ Has(p, j) \in Int
              /\ Locks(p, j)' <=> Locks(p, j) \/ j = i
    <2>1. /\ (Holds(p, j)' <=> Holds(p, j)) /\ ~Rel(p, j) /\ ~Rel(p, j)'
          /\ Locks(p, j)' <=> Locks(p, j) \/ j = i
        BY <1>3, <1>12, <1>14 DEF Holds, Rel, Locks, Releasing
    <2> QED
        BY <2>1 DEF Has, One
<1>18. NamesOurs' /\ \A j : NamesOf(j)' = NamesOf(j) /\ NamesOf(j) \in Nat
    BY <1>3, <1>15, NamesSame
<1>19. \A j \in Table : Waited(j)'
    BY <1>3, <1>5, <1>9, UnlockedWaited, WaitedSame
<1>20. \A j \in Table \ {i} : Has(p, j)' - Has(p, j) + (NamesOf(j)' - NamesOf(j)) = 0
    BY <1>17, <1>18
<1>21. inode'[i].count = inode[i].count + (Has(p, i)' - Has(p, i)) + (NamesOf(i)' - NamesOf(i))
    BY <1>5, <1>7, <1>9, <1>17, <1>18
<1>22. /\ \A j \in Table \ {i} : Occurs(ifreeq, {j})' = Occurs(ifreeq, {j})
       /\ Occurs(ifreeq, {i})' = Occurs(ifreeq, {i}) + One(~inode'[i].ref) - One(~inode[i].ref)
    <2>1. inode'[i].ref = inode[i].ref
        BY <1>5, <1>7, <1>9 DEF Incore
    <2> QED
        BY <1>3, <1>5, <2>1, FreeSame, FreeStays
<1>23. InUse(i)'
    BY <1>7, <1>9 DEF InUse
<1>24. /\ inode[i].locked /\ inode[i].count = 0 /\ ~Locks(p, i) => inode'[i].count = 0
       /\ Locks(p, i)' /\ ~Locks(p, i) => ~inode[i].locked
       /\ inode'[i].locked <=> Locks(p, i)' \/ (inode[i].locked /\ ~Locks(p, i))
    BY <1>5, <1>7, <1>9, <1>17
<1>25. \A j \in Table \ {i} : Locks(p, j)' <=> Locks(p, j)
    BY <1>17
<1> QED
    BY <1>5, <1>9, <1>10, <1>14, <1>15, <1>16, <1>18, <1>19, <1>20, <1>21, <1>22, <1>23, <1>24, <1>25,
       OneInodeKeeps

-------------------------------------------------------------------------------
(* The theorems                                                            *)

\* Every step keeps the invariant
LEMMA InoInvNext == InoInv /\ [InoNext]_<<inoVars, wchan>> => InoInv'
<1> SUFFICES ASSUME InoInv, [InoNext]_<<inoVars, wchan>> PROVE InoInv'
    OBVIOUS
<1>1. ASSUME NEW p \in Procs, InoTurn(p) PROVE Keeps(p)
    <2>1. CASE \/ Search(p) \/ Done(p) \/ IgetPurge(p) \/ IgetFull(p) \/ Ialloc(p) \/ IallocScan(p)
               \/ IallocScanned(p)
        BY <2>1, BareSteps
    <2>2. CASE Ilock(p) \/ IgetWait(p) \/ Read(p) \/ Close(p) \/ AddEntryFails(p)
        BY <2>2, IlockKeeps, IgetWaitKeeps, ReadKeeps, CloseKeeps, AddEntryFailsKeeps
    <2>3. CASE IgetHit(p) \/ IgetTake(p) \/ IgetRead(p) \/ IgetError(p)
        BY <2>3, IgetHitKeeps, IgetTakeKeeps, IgetReadKeeps, IgetErrorKeeps
    <2>4. CASE GotLookup(p) \/ GotRemove(p) \/ Make(p) \/ MakeAgain(p) \/ AddEntry(p) \/ Truncated(p)
        BY <2>4, GotLookupKeeps, GotRemoveKeeps, MakeKeeps, AddEntryKeeps, TruncatedKeeps
    <2>5. CASE \/ GotHandle(p) \/ GotExisting(p) \/ GotBusy(p) \/ RemoveDone(p) \/ Again(p)
               \/ Made(p) \/ Updated(p)
        BY <2>5, UnlockSteps
    <2>6. CASE Purge(p) \/ GotCached(p) \/ EnterOver(p)
        BY <2>6, NameSteps
    <2>7. CASE Idrop(p) \/ EnterNot(p) \/ Enter(p)
        BY <2>7, IdropKeeps, EnterNotKeeps, EnterKeeps
    <2>8. CASE Rele(p) \/ Inactive(p) \/ InactiveBusy(p) \/ Flushed(p)
        BY <2>8, ReleKeeps, FreedKeeps, InactiveBusyKeeps
    <2> QED
        BY <1>1, <2>1, <2>2, <2>3, <2>4, <2>5, <2>6, <2>7, <2>8 DEF InoTurn
<1>2. CASE \E p \in Procs : InoTurn(p)
    BY <1>1, <1>2, KeepsInv
<1>3. ASSUME NEW p \in Procs, NEW n \in Names, LookupCached(p, n) PROVE InoInv'
    BY <1>3, LookupCachedKeeps, KeepsInv
<1>4. ASSUME NEW p \in Procs, NEW n \in Names, NEW c \in {"lookup", "mkdir", "rmdir"}, Start(p, c, n)
      PROVE  InoInv'
    <2>1. Keeps(p)
        BY <1>4, BareSteps
    <2> QED
        BY <2>1, KeepsInv
<1>5. ASSUME NEW p \in Procs, Mkfifo(p) PROVE InoInv'
    <2>1. Keeps(p)
        BY <1>5, BareSteps
    <2> QED
        BY <2>1, KeepsInv
<1>6. ASSUME NEW p \in Procs, NEW n \in Inos, Vget(p, n) PROVE InoInv'
    <2>1. Keeps(p)
        BY <1>6, BareSteps
    <2> QED
        BY <2>1, KeepsInv
<1>7. ASSUME NEW p \in Procs, NEW i \in Table, Update(p, i) PROVE InoInv'
    BY <1>7, UpdateKeeps, KeepsInv
<1>8. CASE UNCHANGED <<inoVars, wchan>>
    <2>1. UNCHANGED <<inode, chain, ifreeq, ncache, disk, dir, spare, pc, wchan>>
        BY <1>8 DEF inoVars
    <2>2. InoTypes' /\ OneRuns' /\ ForeignClean' /\ OneOwner'
        BY <2>1 DEF InoInv, InoTypes, OneRuns, ForeignClean, OneOwner, Locks, Releasing
    <2>3. NamesOurs' /\ \A p \in Procs : Places(p)'
        BY <2>1 DEF InoInv, NamesOurs, Places, Ours, Releasing
    <2>4. \A i \in Table : FreeOnce(i)' /\ InUse(i)' /\ Owned(i)' /\ Waited(i)'
        BY <2>1 DEF InoInv, FreeOnce, Occurs, InUse, Owned, Waited, Locks, Releasing
    <2>5. ASSUME NEW i \in Table PROVE Counted(i)'
        <3>1. /\ Holders(i)' = Holders(i) /\ Rels(i)' = Rels(i) /\ NamesOf(i)' = NamesOf(i)
              /\ inode'[i] = inode[i]
            BY <2>1 DEF Holders, Rels, NamesOf, Holds, Rel, Releasing, Occurs
        <3>2. Counted(i)
            BY DEF InoInv
        <3> QED
            BY <3>1, <3>2 DEF Counted
    <2> QED
        BY <2>2, <2>3, <2>4, <2>5 DEF InoInv
<1>9. ASSUME NEW p \in Procs, NEW c, InoCall(p, c) PROVE InoInv'
    BY <1>3, <1>4, <1>5, <1>6, <1>7, <1>9 DEF InoCall
<1> QED
    BY <1>2, <1>8, <1>9 DEF InoNext

\* The count of an in-core inode (i_count, v_count) is always the number of the references
\* there are: of the processes that have the inode or are about to release it, of the names
\* in the cache and of another file system's mount.  An inode is on the free list, once,
\* exactly when it is not in use.
THEOREM RefsExactHolds == InoSpec => []RefsExact
<1>1. InoInit => InoInv
    BY InoInvInit
<1>2. InoInv => RefsExact
    BY RefsOfInv
<1> QED
    BY <1>1, <1>2, InoInvNext, PTL DEF InoSpec

\* ILOCKED is always the lock of one process, although iinactive and update set it without
\* asking for it, and a process sleeps on an inode only while the inode is locked and marked
\* as wanted, so that the unlock wakes it up.
THEOREM LockOwnedHolds == InoSpec => []LockOwned
<1>1. InoInit => InoInv
    BY InoInvInit
<1>2. InoInv => LockOwned
    BY LocksOfInv
<1> QED
    BY <1>1, <1>2, InoInvNext, PTL DEF InoSpec
===============================================================================
