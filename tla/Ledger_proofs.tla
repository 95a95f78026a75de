---------------------------- MODULE Ledger_proofs ----------------------------
(***************************************************************************)
(* Proofs about the operation ledger: the evidence of started and completed*)
(* operations survives crashes, power losses and I/O errors, a start after *)
(* crashes alone reads the files, and operations start at most once.       *)
(***************************************************************************)
EXTENDS Ledger, SequenceTheorems, FiniteSetTheorems, WellFoundedInduction, TLAPS

(***************************************************************************)
(* Least and greatest numbers.                                             *)
(***************************************************************************)

LEMMA LeastExists ==
  ASSUME NEW T, T \subseteq Nat, T # {}
  PROVE  \E x \in T : \A y \in T : x <= y
<1>1. PICK x \in T : \A y \in T : ~(<<y, x>> \in OpToRel(<, Nat))
      BY NatLessThanWellFounded, WFMin
<1>2. \A y \in T : ~(y < x)
      BY <1>1 DEF OpToRel
<1> QED
    BY <1>2

LEMMA MinIs ==
  ASSUME NEW T, T \subseteq Nat, T # {}
  PROVE  Min(T) \in T /\ \A y \in T : Min(T) <= y
BY LeastExists DEF Min

LEMMA MaxIs ==
  ASSUME NEW n \in Nat, NEW T, T \subseteq 1..n, T # {}
  PROVE  Max(T) \in T /\ \A y \in T : y <= Max(T)
<1> DEFINE U == {n - y : y \in T}
<1>1. U \subseteq Nat /\ U # {}
  <2>1. \A y \in T : n - y \in Nat
        OBVIOUS
  <2> QED
      BY <2>1
<1>2. PICK u \in U : \A v \in U : u <= v
      BY <1>1, LeastExists
<1>3. PICK x \in T : u = n - x
      OBVIOUS
<1>4. \A y \in T : n - x <= n - y
      BY <1>2, <1>3
<1>5. \A y \in T : x >= y
      BY <1>4
<1> QED
    BY <1>5 DEF Max

LEMMA MinOfTwo ==
  ASSUME NEW a \in Nat, NEW b \in Nat
  PROVE  Min({a, b}) \in Nat /\ Min({a, b}) <= a /\ Min({a, b}) <= b
         /\ Min({a, b}) \in {a, b}
BY MinIs

(***************************************************************************)
(* Journals.                                                               *)
(***************************************************************************)

LEMMA Appended ==
  ASSUME NEW c \in Seq(Chunk), NEW y \in Chunk
  PROVE  /\ Append(c, y) \in Seq(Chunk) /\ Len(Append(c, y)) = Len(c) + 1
         /\ \A i \in 1..Len(c) : Append(c, y)[i] = c[i]
         /\ Append(c, y)[Len(c) + 1] = y
         /\ DOMAIN Append(c, y) = 1..(Len(c) + 1) /\ DOMAIN c = 1..Len(c) /\ Len(c) \in Nat
OBVIOUS

LEMMA CutShort ==
  ASSUME NEW c \in Seq(Chunk), NEW n \in 0..Len(c)
  PROVE  /\ SubSeq(c, 1, n) \in Seq(Chunk) /\ Len(SubSeq(c, 1, n)) = n
         /\ \A i \in 1..n : SubSeq(c, 1, n)[i] = c[i]
OBVIOUS

LEMMA WithPart ==
  ASSUME NEW y \in Chunk, NEW p \in Parts
  PROVE  /\ [y EXCEPT !.part = p] \in Chunk /\ [y EXCEPT !.part = p].part = p
         /\ [y EXCEPT !.part = p].key = y.key /\ [y EXCEPT !.part = p].op = y.op
BY DEF Chunk

LEMMA CutsAre ==
  ASSUME NEW s, NEW c
  PROVE  c \in Cuts(s) <=>
           \/ \E n \in 0..Len(s) : c = SubSeq(s, 1, n)
           \/ \E n \in DOMAIN s, p \in Parts : c = CutIn(s, n, p)
BY SMT DEF Cuts

LEMMA CutInIs ==
  ASSUME NEW s \in Seq(Chunk), NEW n \in 1..Len(s), NEW p \in Parts
  PROVE  /\ CutIn(s, n, p) \in Seq(Chunk) /\ Len(CutIn(s, n, p)) = n
         /\ \A i \in 1..(n - 1) : CutIn(s, n, p)[i] = s[i]
         /\ CutIn(s, n, p)[n] = [s[n] EXCEPT !.part = p]
<1>1. n - 1 \in 0..Len(s) /\ s[n] \in Chunk /\ Len(s) \in Nat
      OBVIOUS
<1>2. PICK c \in Seq(Chunk) : c = SubSeq(s, 1, n - 1)
      BY <1>1, CutShort
<1>3. Len(c) = n - 1 /\ \A i \in 1..(n - 1) : c[i] = s[i]
      BY <1>1, <1>2, CutShort
<1>4. PICK y \in Chunk : y = [s[n] EXCEPT !.part = p]
      BY <1>1, WithPart
<1>5. CutIn(s, n, p) = Append(c, y)
      BY <1>2, <1>4 DEF CutIn
<1> QED
    BY <1>1, <1>3, <1>4, <1>5, Appended

\* The next append begins a line.
EndsLine(c) == Len(c) = 0 \/ c[Len(c)].part = "whole"

\* An append hides the record before it unless that was terminated.
LEMMA AppendedRecords ==
  ASSUME NEW c \in Seq(Chunk), NEW y \in Chunk, LinesParse(Append(c, y))
  PROVE  /\ LinesParse(c)
         /\ Records(Append(c, y)) =
              Wholes(c) \cup IF EndsLine(c) /\ y.part # "torn" THEN {Len(c) + 1} ELSE {}
         /\ Wholes(Append(c, y)) =
              Wholes(c) \cup IF EndsLine(c) /\ y.part = "whole" THEN {Len(c) + 1} ELSE {}
         /\ y.part = "whole" => EndsLine(c)
<1> DEFINE n == Len(c)
           f == Append(c, y)
<1>1. /\ f \in Seq(Chunk) /\ Len(f) = n + 1 /\ \A i \in 1..n : f[i] = c[i]
      /\ f[n + 1] = y /\ DOMAIN f = 1..(n + 1) /\ DOMAIN c = 1..n /\ n \in Nat
      BY Appended
<1>2. y.part \in Parts
      BY DEF Chunk
<1> HIDE DEF f, n
<1>3. \A i \in 1..n : i \in LineStarts(f) <=> i \in LineStarts(c)
      BY <1>1 DEF LineStarts
<1>4. n + 1 \in LineStarts(f) <=> EndsLine(c)
  <2>1. n # 0 => n \in 1..n /\ (n + 1) - 1 = n
        BY <1>1
  <2> QED
      BY <1>1, <2>1 DEF LineStarts, EndsLine, n
<1>5. LineStarts(f) \subseteq 1..(n + 1) /\ LineStarts(c) \subseteq 1..n
      BY <1>1 DEF LineStarts
<1>6. LinesParse(f)
      BY DEF f
<1>7. LinesParse(c)
      BY <1>1, <1>3, <1>6 DEF LinesParse
<1>8. Wholes(f) = Wholes(c) \cup IF EndsLine(c) /\ y.part = "whole" THEN {n + 1} ELSE {}
      BY <1>1, <1>3, <1>4, <1>5 DEF Wholes
<1>9. Records(f) = Wholes(c) \cup IF EndsLine(c) /\ y.part # "torn" THEN {n + 1} ELSE {}
      BY <1>1, <1>2, <1>3, <1>4, <1>5 DEF Wholes, Records, Parts
<1>10. y.part = "whole" => EndsLine(c)
       BY <1>1, <1>4, <1>6 DEF LinesParse
<1> QED
    BY <1>7, <1>8, <1>9, <1>10 DEF f, n

LEMMA EmptyJournal ==
  /\ <<>> \in Seq(Chunk) /\ LinesParse(<<>>) /\ Records(<<>>) = {} /\ Wholes(<<>>) = {}
  /\ Cuts(<<>>) = {<<>>} /\ DOMAIN <<>> = {}
<1>1. <<>> \in Seq(Chunk) /\ Len(<<>>) = 0 /\ DOMAIN <<>> = {}
      OBVIOUS
<1>2. LineStarts(<<>>) = {}
      BY <1>1 DEF LineStarts
<1>3. SubSeq(<<>>, 1, 0) = <<>>
      BY <1>1, SubSeqFull
<1>4. \A c : c \in Cuts(<<>>) <=> c = <<>>
  <2>1. 0..Len(<<>>) = {0} /\ DOMAIN <<>> = {}
        BY <1>1
  <2> QED
      BY <1>3, <2>1, CutsAre
<1>5. Cuts(<<>>) = {<<>>}
      BY <1>4
<1> QED
    BY <1>1, <1>2, <1>5 DEF LinesParse, Records, Wholes

LEMMA PrefixIs ==
  ASSUME NEW s \in Seq(Chunk), NEW t \in Seq(Chunk)
  PROVE  IsPrefix(s, t) <=> Len(s) <= Len(t) /\ \A i \in 1..Len(s) : s[i] = t[i]
<1>1. SubSeq(s, 1, Len(s)) = s
      BY SubSeqFull
<1>2. CASE Len(s) <= Len(t)
  <2>1. Len(s) \in 0..Len(t)
        BY <1>2
  <2>2. /\ SubSeq(t, 1, Len(s)) \in Seq(Chunk) /\ Len(SubSeq(t, 1, Len(s))) = Len(s)
        /\ \A i \in 1..Len(s) : SubSeq(t, 1, Len(s))[i] = t[i]
        BY <2>1, CutShort
  <2>3. s = SubSeq(t, 1, Len(s)) <=> \A i \in 1..Len(s) : s[i] = t[i]
        BY <2>2, SeqEqual
  <2> QED
      BY <1>1, <1>2, <2>3 DEF IsPrefix
<1> QED
    BY <1>2 DEF IsPrefix

(***************************************************************************)
(* What may be left of a journal.                                          *)
(***************************************************************************)

LEMMA CutsAreJournals ==
  ASSUME NEW s \in Seq(Chunk)
  PROVE  Cuts(s) \subseteq Seq(Chunk) /\ s \in Cuts(s)
<1>1. \A n \in 0..Len(s) : SubSeq(s, 1, n) \in Seq(Chunk)
      BY CutShort
<1>2. \A n \in DOMAIN s, p \in Parts : CutIn(s, n, p) \in Seq(Chunk)
  <2>1. DOMAIN s = 1..Len(s)
        OBVIOUS
  <2> QED
      BY <2>1, CutInIs
<1>3. s = SubSeq(s, 1, Len(s)) /\ Len(s) \in 0..Len(s)
      BY SubSeqFull
<1> QED
    BY <1>1, <1>2, <1>3, CutsAre

\* A cut of a longer journal is one of the shorter, or ends in what was added.
LEMMA CutsOfAppended ==
  ASSUME NEW s \in Seq(Chunk), NEW y \in Chunk, NEW c \in Cuts(Append(s, y))
  PROVE  c \in Cuts(s) \/ \E p \in Parts : c = Append(s, [y EXCEPT !.part = p])
<1> DEFINE f == Append(s, y)
<1>1. /\ f \in Seq(Chunk) /\ Len(f) = Len(s) + 1 /\ \A i \in 1..Len(s) : f[i] = s[i]
      /\ f[Len(s) + 1] = y /\ DOMAIN f = 1..(Len(s) + 1) /\ DOMAIN s = 1..Len(s)
      /\ Len(s) \in Nat
      BY Appended
<1> HIDE DEF f
<1>2. ASSUME NEW n \in 0..Len(s) PROVE SubSeq(f, 1, n) = SubSeq(s, 1, n)
  <2>1. n \in 0..Len(f)
        BY <1>1
  <2>2. /\ SubSeq(f, 1, n) \in Seq(Chunk) /\ Len(SubSeq(f, 1, n)) = n
        /\ \A i \in 1..n : SubSeq(f, 1, n)[i] = f[i]
        BY <1>1, <2>1, CutShort
  <2>3. /\ SubSeq(s, 1, n) \in Seq(Chunk) /\ Len(SubSeq(s, 1, n)) = n
        /\ \A i \in 1..n : SubSeq(s, 1, n)[i] = s[i]
        BY CutShort
  <2>4. \A i \in 1..n : f[i] = s[i]
        BY <1>1
  <2> QED
      BY <2>2, <2>3, <2>4, SeqEqual
<1>3. SubSeq(f, 1, Len(s)) = s
      BY <1>1, <1>2, SubSeqFull
<1>4. CASE \E n \in 0..Len(f) : c = SubSeq(f, 1, n)
  <2>1. PICK n \in 0..Len(f) : c = SubSeq(f, 1, n)
        BY <1>4
  <2>2. n \in 0..Len(s) \/ n = Len(f)
        BY <1>1
  <2>3. CASE n \in 0..Len(s)
        BY <1>2, <2>1, <2>3, CutsAre
  <2>4. CASE n = Len(f)
    <3>1. c = f
          BY <1>1, <2>1, <2>4, SubSeqFull
    <3>2. y.part \in Parts /\ [y EXCEPT !.part = y.part] = y
          BY DEF Chunk
    <3> QED
        BY <3>1, <3>2 DEF f
  <2> QED
      BY <2>2, <2>3, <2>4
<1>5. CASE \E n \in DOMAIN f, p \in Parts : c = CutIn(f, n, p)
  <2>1. PICK n \in DOMAIN f, p \in Parts : c = CutIn(f, n, p)
        BY <1>5
  <2>2. n \in 1..(Len(s) + 1) /\ n - 1 \in 0..Len(s)
        BY <1>1
  <2>3. SubSeq(f, 1, n - 1) = SubSeq(s, 1, n - 1)
        BY <1>2, <2>2
  <2>4. CASE n \in 1..Len(s)
    <3>1. c = CutIn(s, n, p)
          BY <1>1, <2>1, <2>3, <2>4 DEF CutIn
    <3> QED
        BY <1>1, <2>4, <3>1, CutsAre
  <2>5. CASE n = Len(s) + 1
    <3>1. n - 1 = Len(s)
          BY <1>1, <2>5
    <3> QED
        BY <1>1, <1>3, <2>1, <2>5, <3>1 DEF CutIn
  <2>6. n \in 1..Len(s) \/ n = Len(s) + 1
        BY <1>1, <2>2
  <2> QED
      BY <2>4, <2>5, <2>6
<1>6. c \in Cuts(f)
      BY DEF f
<1>7. \/ \E n \in 0..Len(f) : c = SubSeq(f, 1, n)
      \/ \E n \in DOMAIN f, p \in Parts : c = CutIn(f, n, p)
      BY <1>6, CutsAre
<1> QED
    BY <1>4, <1>5, <1>7

\* Nothing is cut off a journal that is guaranteed as a whole.
LEMMA CutsOfGuaranteed ==
  ASSUME NEW s \in Seq(Chunk), NEW c \in Cuts(s), IsPrefix(s, c)
  PROVE  c = s
<1>1. c \in Seq(Chunk) /\ Len(s) <= Len(c) /\ \A i \in 1..Len(s) : s[i] = c[i]
      BY CutsAreJournals, PrefixIs
<1>2. Len(c) <= Len(s)
  <2>1. CASE \E n \in 0..Len(s) : c = SubSeq(s, 1, n)
        BY <2>1, CutShort
  <2>2. CASE \E n \in DOMAIN s, p \in Parts : c = CutIn(s, n, p)
    <3>1. PICK n \in 1..Len(s), p \in Parts : c = CutIn(s, n, p)
          BY <2>2
    <3>2. Len(c) = n
          BY <3>1, CutInIs
    <3> QED
        BY <3>2
  <2> QED
      BY <2>1, <2>2, CutsAre
<1>3. Len(s) = Len(c)
      BY <1>1, <1>2
<1> QED
    BY <1>1, <1>3, SeqEqual

LEMMA ImagesAreJournals ==
  ASSUME NEW d \in Disk
  PROVE  /\ JournalImages(d) \subseteq Seq(Chunk)
         /\ d.seen.journal \in JournalImages(d) /\ d.stable.journal \in JournalImages(d)
         /\ d.seen.journal \in Seq(Chunk) /\ d.stable.journal \in Seq(Chunk)
<1>1. d.seen.journal \in Seq(Chunk) /\ d.stable.journal \in Seq(Chunk)
      BY DEF Disk, Image
<1>2. Cuts(d.seen.journal) \subseteq Seq(Chunk) /\ d.seen.journal \in Cuts(d.seen.journal)
      BY <1>1, CutsAreJournals
<1> QED
    BY <1>1, <1>2 DEF JournalImages

\* A synced file comes back as it is.
LEMMA ImagesOfSynced ==
  ASSUME NEW d \in Disk, d.seen.journal = d.stable.journal
  PROVE  JournalImages(d) = {d.seen.journal}
<1>1. d.seen.journal \in Seq(Chunk)
      BY ImagesAreJournals
<1>2. IsPrefix(d.seen.journal, d.seen.journal)
      BY <1>1, PrefixIs
<1> QED
    BY <1>1, <1>2, CutsOfGuaranteed DEF JournalImages

\* What a failed append adds to what may come back.
LEMMA ImagesOfLeftover ==
  ASSUME NEW d \in Disk, NEW e \in Disk, NEW chunk \in Chunk,
         e.stable.journal = d.stable.journal,
         e.seen.journal \in Leftovers(d.seen.journal, chunk)
  PROVE  \A c \in JournalImages(e) :
           \/ c \in JournalImages(d)
           \/ \E p \in Parts : c = Append(d.seen.journal, [chunk EXCEPT !.part = p])
<1> DEFINE s == d.seen.journal
           t == d.stable.journal
<1>1. s \in Seq(Chunk) /\ t \in Seq(Chunk) /\ t \in JournalImages(d)
      BY ImagesAreJournals
<1>2. CASE e.seen.journal = s
      BY <1>2 DEF JournalImages
<1>3. ASSUME NEW q \in Parts, e.seen.journal = Append(s, [chunk EXCEPT !.part = q]),
             NEW c \in JournalImages(e)
      PROVE  \/ c \in JournalImages(d)
             \/ \E p \in Parts : c = Append(s, [chunk EXCEPT !.part = p])
  <2> DEFINE y == [chunk EXCEPT !.part = q]
             f == Append(s, y)
  <2>1. y \in Chunk
        BY WithPart
  <2>2. /\ f \in Seq(Chunk) /\ Len(f) = Len(s) + 1 /\ \A i \in 1..Len(s) : f[i] = s[i]
        /\ Len(s) \in Nat
        BY <1>1, <2>1, Appended
  <2>3. CASE c = t
        BY <1>1, <2>3
  <2>4. CASE c # t /\ c \in Cuts(s)
    <3>1. CASE IsPrefix(t, s)
      <4>1. Len(t) <= Len(s) /\ \A i \in 1..Len(t) : t[i] = s[i]
            BY <1>1, <3>1, PrefixIs
      <4>2. Len(t) \in Nat
            BY <1>1
      <4>3. IsPrefix(t, f)
        <5> HIDE DEF f, s, t
        <5>1. Len(t) <= Len(f) /\ \A i \in 1..Len(t) : t[i] = f[i]
              BY <1>1, <2>2, <4>1, <4>2
        <5> QED
            BY <1>1, <2>2, <5>1, PrefixIs
      <4>4. IsPrefix(t, c)
            BY <1>3, <2>4, <4>3 DEF JournalImages
      <4> QED
          BY <2>4, <3>1, <4>4 DEF JournalImages
    <3>2. CASE ~IsPrefix(t, s)
          BY <2>4, <3>2 DEF JournalImages
    <3> QED
        BY <3>1, <3>2
  <2>5. CASE \E p \in Parts : c = Append(s, [y EXCEPT !.part = p])
    <3>1. \A p \in Parts : [y EXCEPT !.part = p] = [chunk EXCEPT !.part = p]
          BY DEF Chunk
    <3> QED
        BY <2>5, <3>1
  <2>6. c = t \/ c \in Cuts(f)
        BY <1>3 DEF JournalImages
  <2> QED
      BY <1>1, <2>1, <2>3, <2>4, <2>5, <2>6, CutsOfAppended
<1> QED
    BY <1>2, <1>3 DEF Leftovers

(***************************************************************************)
(* The evidence in the files.                                              *)
(***************************************************************************)

LEMMA FoundInMore ==
  ASSUME NEW P, NEW R, NEW j, NEW old, NEW new, NEW operations,
         FoundIn(P, R, j, old), MemoryHolds(P, operations),
         new \subseteq old \cup {operations}
  PROVE  FoundIn(P, R, j, new)
BY DEF FoundIn, MemoryHolds

LEMMA FoundInFewer ==
  ASSUME NEW P, NEW R, NEW j, NEW old, NEW new, FoundIn(P, R, j, old), new \subseteq old
  PROVE  FoundIn(P, R, j, new)
BY DEF FoundIn

LEMMA FoundInSnapshot ==
  ASSUME NEW P, NEW j, NEW operations, MemoryHolds(P, operations)
  PROVE  FoundIn(P, {}, j, {operations})
BY DEF FoundIn, MemoryHolds

\* Promises that owe less, or nothing, are held by the same files.
OwesLess(P, Q) ==
  \A k \in Key : \A op \in Stored \cup {None} : Supports(P[k], op) => Supports(Q[k], op)

LEMMA WeakerHold ==
  ASSUME NEW P, NEW Q, NEW d \in Disk, OwesLess(P, Q)
  PROVE  /\ FilesHold(P, d) => FilesHold(Q, d)
         /\ WholesHold(P, d) => WholesHold(Q, d)
         /\ \A operations \in Operations :
              MemoryHolds(P, operations) => MemoryHolds(Q, operations)
<1>1. ASSUME NEW j \in Seq(Chunk), NEW R \in SUBSET DOMAIN j, FoundIn(P, R, j, Snapshots(d))
      PROVE  FoundIn(Q, R, j, Snapshots(d))
  <2>1. \A i \in R : j[i].op \in Stored
    <3>1. \A i \in DOMAIN j : j[i] \in Chunk
          OBVIOUS
    <3> QED
        BY <3>1 DEF Chunk
  <2>2. \A S \in Snapshots(d) : \A k \in Key : S[k] \in Stored \cup {None}
        BY DEF Snapshots, Disk, Image, Operations
  <2> QED
      BY <1>1, <2>1, <2>2 DEF FoundIn, OwesLess
<1>2. ASSUME NEW operations \in Operations, MemoryHolds(P, operations)
      PROVE  MemoryHolds(Q, operations)
      BY <1>2 DEF MemoryHolds, OwesLess, Operations
<1>3. \A j \in JournalImages(d) : /\ j \in Seq(Chunk)
                                  /\ Records(j) \in SUBSET DOMAIN j
                                  /\ Wholes(j) \in SUBSET DOMAIN j
      BY ImagesAreJournals DEF Records, Wholes, LineStarts
<1> QED
    BY <1>1, <1>2, <1>3 DEF FilesHold, WholesHold

\* The disk e after a compaction of d, at any of its steps.
Compacted(d, operations, e) ==
  /\ Snapshots(e) \subseteq Snapshots(d) \cup {operations}
  /\ \/ /\ e.stable.journal = d.stable.journal
        /\ e.seen.journal = d.seen.journal
     \/ /\ Snapshots(e) = {operations}
        /\ e.seen.journal = <<>>
        /\ e.stable.journal \in {d.stable.journal, <<>>}

LEMMA CompactedHolds ==
  ASSUME NEW P, NEW d \in Disk, NEW e \in Disk, NEW operations,
         Compacted(d, operations, e), MemoryHolds(P, operations)
  PROVE  /\ FilesHold(P, d) => FilesHold(P, e)
         /\ WholesHold(P, d) => WholesHold(P, e)
<1>1. CASE /\ e.stable.journal = d.stable.journal
           /\ e.seen.journal = d.seen.journal
  <2>1. JournalImages(e) = JournalImages(d)
        BY <1>1 DEF JournalImages
  <2>2. Snapshots(e) \subseteq Snapshots(d) \cup {operations}
        BY DEF Compacted
  <2> QED
      BY <2>1, <2>2, FoundInMore DEF FilesHold, WholesHold
<1>2. CASE /\ Snapshots(e) = {operations}
           /\ e.seen.journal = <<>>
           /\ e.stable.journal \in {d.stable.journal, <<>>}
  <2>1. JournalImages(e) \subseteq {e.stable.journal, <<>>}
        BY <1>2, EmptyJournal DEF JournalImages
  <2>2. JournalImages(e) \subseteq JournalImages(d) \cup {<<>>}
        BY <1>2, <2>1, ImagesAreJournals
  <2>3. FoundIn(P, Records(<<>>), <<>>, Snapshots(e))
        /\ FoundIn(P, Wholes(<<>>), <<>>, Snapshots(e))
    <3>1. Records(<<>>) = {} /\ Wholes(<<>>) = {}
          BY EmptyJournal
    <3>2. FoundIn(P, {}, <<>>, {operations})
          BY FoundInSnapshot
    <3> QED
        BY <1>2, <3>1, <3>2
  <2>4. Snapshots(e) \subseteq Snapshots(d) \cup {operations}
        BY <1>2
  <2> QED
      BY <2>2, <2>3, <2>4, FoundInMore DEF FilesHold, WholesHold
<1> QED
    BY <1>1, <1>2 DEF Compacted

\* After a complete compaction the files are the memory.
LEMMA WrittenHolds ==
  ASSUME NEW P, NEW e \in Disk, NEW operations, MemoryHolds(P, operations),
         Snapshots(e) = {operations}, e.seen.journal = <<>>, e.stable.journal = <<>>
  PROVE  FilesHold(P, e) /\ WholesHold(P, e)
<1>1. JournalImages(e) \subseteq {<<>>}
      BY EmptyJournal DEF JournalImages
<1>2. Records(<<>>) = {} /\ Wholes(<<>>) = {}
      BY EmptyJournal
<1>3. FoundIn(P, {}, <<>>, {operations})
      BY FoundInSnapshot
<1> QED
    BY <1>1, <1>2, <1>3 DEF FilesHold, WholesHold

\* A record that supports the promise of its key may be appended.
LEMMA RecordHolds ==
  ASSUME NEW P, NEW c \in Seq(Chunk), NEW y \in Chunk, NEW snapshots,
         LinesParse(Append(c, y)), Supports(P[y.key], y.op),
         FoundIn(P, Wholes(c), c, snapshots)
  PROVE  /\ FoundIn(P, Records(Append(c, y)), Append(c, y), snapshots)
         /\ FoundIn(P, Wholes(Append(c, y)), Append(c, y), snapshots)
<1> DEFINE f == Append(c, y)
           n == Len(c)
<1>1. /\ \A i \in 1..n : f[i] = c[i]
      /\ f[n + 1] = y /\ n \in Nat
      BY Appended
<1>2. Wholes(c) \subseteq 1..n
      BY Appended DEF Wholes, LineStarts
<1>3. /\ Records(f) \in {Wholes(c), Wholes(c) \cup {n + 1}}
      /\ Wholes(f) \in {Wholes(c), Wholes(c) \cup {n + 1}}
      BY AppendedRecords
<1> HIDE DEF f, n
<1>4. FoundIn(P, Wholes(c), f, snapshots)
      BY <1>1, <1>2 DEF FoundIn
<1>5. FoundIn(P, Wholes(c) \cup {n + 1}, f, snapshots)
  <2> SUFFICES ASSUME NEW k \in Key,
                      NEW own, own = {i \in Wholes(c) \cup {n + 1} : f[i].key = k}
               PROVE  /\ own = {} => \A S \in snapshots : Supports(P[k], S[k])
                      /\ \A i \in own : (\A h \in own : h <= i) =>
                                          Supports(P[k], f[i].op)
      BY DEF FoundIn
  <2>1. CASE k = y.key
    <3>1. n + 1 \in own
          BY <1>1, <2>1
    <3>2. \A i \in own : i # n + 1 => i \in 1..n
          BY <1>2
    <3>3. \A i \in own : n + 1 <= i => i = n + 1
          BY <1>1, <3>2
    <3> QED
        BY <1>1, <2>1, <3>1, <3>3
  <2>2. CASE k # y.key
    <3>1. own = {i \in Wholes(c) : f[i].key = k}
          BY <1>1, <2>2
    <3> QED
        BY <1>4, <3>1 DEF FoundIn
  <2> QED
      BY <2>1, <2>2
<1> QED
    BY <1>3, <1>4, <1>5 DEF f

\* An append that fails leaves the evidence that was there.
LEMMA LeftoverHolds ==
  ASSUME NEW P, NEW d \in Disk, NEW e \in Disk, NEW chunk \in Chunk,
         e.stable.journal = d.stable.journal,
         e.seen.journal \in Leftovers(d.seen.journal, chunk),
         Snapshots(e) = Snapshots(d), Supports(P[chunk.key], chunk.op),
         FilesHold(P, d), WholesHold(P, d)
  PROVE  FilesHold(P, e) /\ WholesHold(P, e)
<1> DEFINE s == d.seen.journal
<1>1. s \in Seq(Chunk) /\ s \in JournalImages(d)
      BY ImagesAreJournals
<1>2. SUFFICES ASSUME NEW c \in JournalImages(e), LinesParse(c)
               PROVE  /\ FoundIn(P, Records(c), c, Snapshots(d))
                      /\ FoundIn(P, Wholes(c), c, Snapshots(d))
      BY DEF FilesHold, WholesHold
<1>3. CASE c \in JournalImages(d)
      BY <1>2, <1>3 DEF FilesHold, WholesHold
<1>4. ASSUME NEW p \in Parts, c = Append(s, [chunk EXCEPT !.part = p])
      PROVE  /\ FoundIn(P, Records(c), c, Snapshots(d))
             /\ FoundIn(P, Wholes(c), c, Snapshots(d))
  <2>1. PICK y \in Chunk : y = [chunk EXCEPT !.part = p]
        BY WithPart
  <2>2. y.key = chunk.key /\ y.op = chunk.op
        BY <2>1, WithPart
  <2>3. LinesParse(Append(s, y)) /\ c = Append(s, y)
        BY <1>2, <1>4, <2>1
  <2>4. LinesParse(s)
        BY <1>1, <2>3, AppendedRecords
  <2>5. FoundIn(P, Wholes(s), s, Snapshots(d))
        BY <1>1, <2>4 DEF WholesHold
  <2> QED
      BY <1>1, <2>2, <2>3, <2>5, RecordHolds
<1>5. \/ c \in JournalImages(d)
      \/ \E p \in Parts : c = Append(s, [chunk EXCEPT !.part = p])
      BY ImagesOfLeftover
<1> QED
    BY <1>3, <1>4, <1>5

\* An append that succeeds adds the evidence for its key.
LEMMA AppendedHolds ==
  ASSUME NEW P, NEW Q, NEW d \in Disk, NEW e \in Disk, NEW chunk \in Chunk,
         e.seen.journal = Append(d.seen.journal, chunk),
         e.stable.journal = e.seen.journal,
         Snapshots(e) = Snapshots(d), chunk.part = "whole",
         Supports(Q[chunk.key], chunk.op),
         \A k \in Key \ {chunk.key} : Q[k] = P[k],
         WholesHold(P, d)
  PROVE  FilesHold(Q, e) /\ WholesHold(Q, e)
<1> DEFINE s == d.seen.journal
           f == Append(s, chunk)
           n == Len(s)
<1>1. s \in Seq(Chunk) /\ s \in JournalImages(d)
      BY ImagesAreJournals
<1>2. JournalImages(e) = {f}
      BY ImagesOfSynced
<1>3. SUFFICES ASSUME LinesParse(f)
               PROVE  /\ FoundIn(Q, Records(f), f, Snapshots(d))
                      /\ FoundIn(Q, Wholes(f), f, Snapshots(d))
      BY <1>2 DEF FilesHold, WholesHold
<1>4. /\ LinesParse(s)
      /\ Records(f) = Wholes(s) \cup {n + 1}
      /\ Wholes(f) = Wholes(s) \cup {n + 1}
      BY <1>1, <1>3, AppendedRecords
<1>5. FoundIn(P, Wholes(s), s, Snapshots(d))
      BY <1>1, <1>4 DEF WholesHold
<1>6. /\ \A i \in 1..n : f[i] = s[i]
      /\ f[n + 1] = chunk /\ n \in Nat
      BY <1>1, Appended
<1>7. Wholes(s) \subseteq 1..n
      BY <1>1, Appended DEF Wholes, LineStarts
<1> HIDE DEF f, n, s
<1>8. FoundIn(Q, Wholes(s) \cup {n + 1}, f, Snapshots(d))
  <2> SUFFICES ASSUME NEW k \in Key,
                      NEW own, own = {i \in Wholes(s) \cup {n + 1} : f[i].key = k}
               PROVE  /\ own = {} => \A S \in Snapshots(d) : Supports(Q[k], S[k])
                      /\ \A i \in own : (\A h \in own : h <= i) =>
                                          Supports(Q[k], f[i].op)
      BY DEF FoundIn
  <2>1. CASE k = chunk.key
    <3>1. n + 1 \in own
          BY <1>6, <2>1
    <3>2. \A i \in own : n + 1 <= i => i = n + 1
          BY <1>6, <1>7
    <3> QED
        BY <1>6, <2>1, <3>1, <3>2
  <2>2. CASE k # chunk.key
    <3>1. own = {i \in Wholes(s) : s[i].key = k} /\ \A i \in own : f[i] = s[i]
          BY <1>6, <1>7, <2>2
    <3>2. Q[k] = P[k]
          BY <2>2
    <3> QED
        BY <1>5, <3>1, <3>2 DEF FoundIn
  <2> QED
      BY <2>1, <2>2
<1> QED
    BY <1>4, <1>8 DEF f

(***************************************************************************)
(* Retention and loading.                                                  *)
(***************************************************************************)

LEMMA ExpirationIs ==
  ASSUME NEW op \in Stored
  PROVE  /\ Expiration(op) \in Nat /\ op.at < Expiration(op)
         /\ op.at \in Nat /\ op.request \in Request /\ op # None
<1>1. AcceptedRetention \in Nat /\ CompletedRetention \in Nat /\ None \notin Stored
      BY LedgerAssumption DEF Stored, States
<1>2. op.at \in Nat /\ op.request \in Request
      BY DEF Stored
<1> QED
    BY <1>1, <1>2 DEF Expiration

LEMMA PrunedIs ==
  ASSUME NEW operations \in Operations, NEW t
  PROVE  /\ PruneExpired(operations, t) \in Operations
         /\ \A k \in Key : \/ PruneExpired(operations, t)[k] = None
                           \/ PruneExpired(operations, t)[k] = operations[k]
BY DEF PruneExpired, Operations

\* What expired is owed to nobody.
LEMMA PrunedHolds ==
  ASSUME NEW P \in [Key -> Promised \cup {None}], NEW operations \in Operations,
         now \in Nat, MemoryHolds(P, operations)
  PROVE  MemoryHolds(P, PruneExpired(operations, now))
<1> SUFFICES ASSUME NEW k \in Key, Owed(P[k])
             PROVE  Supports(P[k], PruneExpired(operations, now)[k])
    BY DEF MemoryHolds, Supports
<1>1. Supports(P[k], operations[k])
      BY DEF MemoryHolds
<1>2. operations[k] # None /\ P[k].until <= Expiration(operations[k])
      BY <1>1 DEF Supports
<1>3. operations[k] \in Stored /\ P[k].until \in Nat /\ now < P[k].until
      BY <1>2 DEF Operations, Promised, Owed
<1>4. ~IsExpired(operations[k], now)
      BY <1>2, <1>3, ExpirationIs DEF IsExpired
<1>5. PruneExpired(operations, now)[k] = operations[k]
      BY <1>4 DEF PruneExpired
<1> QED
    BY <1>1, <1>5

LEMMA LoadedIs ==
  ASSUME NEW image \in Image, NEW k \in Key
  PROVE  /\ Loaded(image) \in Operations
         /\ LET own == RecordsOf(image.journal, k)
            IN /\ own \subseteq DOMAIN image.journal
               /\ own = {} => Loaded(image)[k] = image.snapshot[k]
               /\ own # {} => /\ Max(own) \in own /\ \A i \in own : i <= Max(own)
                              /\ Loaded(image)[k] = image.journal[Max(own)].op
<1>1. image.journal \in Seq(Chunk) /\ image.snapshot \in Operations
      BY DEF Image
<1>2. ASSUME NEW l \in Key, RecordsOf(image.journal, l) # {}
      PROVE  /\ Max(RecordsOf(image.journal, l)) \in RecordsOf(image.journal, l)
             /\ \A i \in RecordsOf(image.journal, l) : i <= Max(RecordsOf(image.journal, l))
  <2>1. RecordsOf(image.journal, l) \subseteq 1..Len(image.journal)
        BY <1>1 DEF RecordsOf, Records, LineStarts
  <2>2. Len(image.journal) \in Nat
        BY <1>1
  <2> QED
      BY <1>2, <2>1, <2>2, MaxIs
<1>3. \A l \in Key : RecordsOf(image.journal, l) \subseteq DOMAIN image.journal
      BY DEF RecordsOf, Records, LineStarts
<1>4. \A i \in DOMAIN image.journal : image.journal[i].op \in Stored
  <2>1. \A j \in Seq(Chunk) : \A i \in DOMAIN j : j[i] \in Chunk
        OBVIOUS
  <2> QED
      BY <1>1, <2>1 DEF Chunk
<1>5. Loaded(image) \in Operations
      BY <1>1, <1>2, <1>3, <1>4 DEF Loaded, Operations
<1>6. Loaded(image)[k] = IF RecordsOf(image.journal, k) = {} THEN image.snapshot[k]
                         ELSE image.journal[Max(RecordsOf(image.journal, k))].op
      BY DEF Loaded
<1> QED
    BY <1>2, <1>3, <1>5, <1>6

\* A start that reads the files finds the evidence.
LEMMA LoadedHolds ==
  ASSUME NEW P, NEW d \in Disk, NEW image \in Image,
         image.journal \in JournalImages(d), image.snapshot \in Snapshots(d),
         FilesHold(P, d), LinesParse(image.journal)
  PROVE  MemoryHolds(P, Loaded(image))
<1>1. FoundIn(P, Records(image.journal), image.journal, Snapshots(d))
      BY DEF FilesHold
<1> SUFFICES ASSUME NEW k \in Key
             PROVE  Supports(P[k], Loaded(image)[k])
    BY DEF MemoryHolds
<1>2. PICK own : own = RecordsOf(image.journal, k)
      OBVIOUS
<1>3. own = {i \in Records(image.journal) : image.journal[i].key = k}
      BY <1>2 DEF RecordsOf
<1>4. /\ own = {} => Supports(P[k], image.snapshot[k])
      /\ \A i \in own : (\A h \in own : h <= i) => Supports(P[k], image.journal[i].op)
      BY <1>1, <1>3 DEF FoundIn
<1>5. /\ own = {} => Loaded(image)[k] = image.snapshot[k]
      /\ own # {} => /\ Max(own) \in own /\ \A i \in own : i <= Max(own)
                     /\ Loaded(image)[k] = image.journal[Max(own)].op
      BY <1>2, LoadedIs
<1> QED
    BY <1>4, <1>5

LEMMA RestoredHolds ==
  ASSUME NEW P, NEW d \in Disk, NEW image \in Image, NEW e \in Disk,
         e.seen = image, e.stable = image,
         image.journal \in JournalImages(d), image.snapshot \in Snapshots(d),
         FilesHold(P, d)
  PROVE  FilesHold(P, e)
<1>1. JournalImages(e) = {image.journal}
      BY ImagesOfSynced
<1>2. Snapshots(e) \subseteq Snapshots(d)
      BY DEF Snapshots
<1> QED
    BY <1>1, <1>2, FoundInFewer DEF FilesHold

(***************************************************************************)
(* Files that no I/O error has touched.                                    *)
(***************************************************************************)

LEMMA MentionedInAre ==
  ASSUME NEW image, NEW k, NEW op
  PROVE  op \in MentionedIn(image, k) <=>
           \/ op = image.snapshot[k] /\ op # None
           \/ \E i \in DOMAIN image.journal : image.journal[i].key = k
                                              /\ op = image.journal[i].op
BY DEF MentionedIn

LEMMA FitsFewer ==
  ASSUME NEW keys \in SUBSET Key, NEW fewer \in SUBSET keys, Fits(keys)
  PROVE  Fits(fewer)
<1>1. IsFiniteSet(Key) /\ MaxOperations \in Nat /\ MaxPerScope \in Nat
      BY LedgerAssumption
<1>2. ASSUME NEW A \in SUBSET Key, NEW B \in SUBSET A, NEW n \in Nat, Cardinality(A) <= n
      PROVE  Cardinality(B) <= n
  <2>1. IsFiniteSet(A)
        BY <1>1, FS_Subset
  <2>2. Cardinality(B) <= Cardinality(A) /\ Cardinality(A) \in Nat /\ Cardinality(B) \in Nat
        BY <2>1, FS_Subset, FS_CardinalityType
  <2> QED
      BY <1>2, <2>2
<1>3. Cardinality(fewer) <= MaxOperations
      BY <1>1, <1>2 DEF Fits
<1>4. ASSUME NEW s \in Scope
      PROVE  Cardinality({k \in fewer : ScopeOf[k] = s}) <= MaxPerScope
  <2>1. {k \in keys : ScopeOf[k] = s} \in SUBSET Key
        /\ {k \in fewer : ScopeOf[k] = s} \in SUBSET {k \in keys : ScopeOf[k] = s}
        OBVIOUS
  <2>2. Cardinality({k \in keys : ScopeOf[k] = s}) <= MaxPerScope
        BY DEF Fits
  <2> QED
      BY <1>1, <1>2, <2>1, <2>2
<1> QED
    BY <1>3, <1>4 DEF Fits

\* Files that say nothing new are as clean as those they come from.
LEMMA CleanFewer ==
  ASSUME NEW d, NEW e, CleanFiles(d),
         \A j \in Journals(e) : \A i \in 1..(Len(j) - 1) : j[i].part = "whole",
         \A k \in Key : Mentioned(e, k) \subseteq Mentioned(d, k)
  PROVE  CleanFiles(e)
<1>1. KeysOf(e) \in SUBSET KeysOf(d) /\ KeysOf(d) \in SUBSET Key
      BY DEF KeysOf
<1>2. Fits(KeysOf(e))
      BY <1>1, FitsFewer DEF CleanFiles
<1>3. \A k \in Key : \A op1, op2 \in Mentioned(e, k) : op1.request = op2.request
      BY DEF CleanFiles
<1> QED
    BY <1>2, <1>3 DEF CleanFiles

LEMMA CoveredIsClean ==
  ASSUME NEW d, NEW operations, Covers(operations, d), Fits(Live(operations)),
         \A j \in Journals(d) : \A i \in 1..(Len(j) - 1) : j[i].part = "whole"
  PROVE  CleanFiles(d)
<1>1. KeysOf(d) \in SUBSET Live(operations) /\ Live(operations) \in SUBSET Key
      BY DEF KeysOf, Covers, Live
<1>2. Fits(KeysOf(d))
      BY <1>1, FitsFewer
<1>3. \A k \in Key : \A op1, op2 \in Mentioned(d, k) : op1.request = op2.request
      BY DEF Covers
<1> QED
    BY <1>2, <1>3 DEF CleanFiles

LEMMA RunIsClean ==
  ASSUME NEW d \in Disk, NEW operations, CleanRun(operations, d)
  PROVE  CleanFiles(d)
<1>1. \A j \in Journals(d) : j \in Seq(Chunk)
      BY ImagesAreJournals DEF Journals
<1>2. \A j \in Journals(d) : \A i \in 1..(Len(j) - 1) : i \in DOMAIN j
      BY <1>1
<1> QED
    BY <1>2, CoveredIsClean DEF CleanRun

\* A cut journal has records of the whole one, and only its last is unfinished.
LEMMA CutIsClean ==
  ASSUME NEW s \in Seq(Chunk), NEW c \in Cuts(s)
  PROVE  /\ \A i \in DOMAIN c : i \in DOMAIN s /\ c[i].key = s[i].key /\ c[i].op = s[i].op
         /\ (\A i \in 1..(Len(s) - 1) : s[i].part = "whole") =>
              \A i \in 1..(Len(c) - 1) : c[i].part = "whole"
<1>1. c \in Seq(Chunk)
      BY CutsAreJournals
<1>2. ASSUME NEW n \in 0..Len(s), Len(c) = n, \A i \in 1..(n - 1) : c[i] = s[i],
             n # 0 => c[n].key = s[n].key /\ c[n].op = s[n].op
      PROVE  /\ \A i \in DOMAIN c : /\ i \in DOMAIN s
                                    /\ c[i].key = s[i].key /\ c[i].op = s[i].op
             /\ (\A i \in 1..(Len(s) - 1) : s[i].part = "whole") =>
                  \A i \in 1..(Len(c) - 1) : c[i].part = "whole"
  <2>1. DOMAIN c = 1..n /\ DOMAIN s = 1..Len(s) /\ Len(s) \in Nat
        BY <1>1, <1>2
  <2>2. \A i \in 1..n : i = n \/ i \in 1..(n - 1)
        OBVIOUS
  <2>3. \A i \in 1..(n - 1) : i \in 1..(Len(s) - 1)
        BY <2>1
  <2> QED
      BY <1>2, <2>1, <2>2, <2>3
<1>3. CASE \E n \in 0..Len(s) : c = SubSeq(s, 1, n)
  <2>1. PICK n \in 0..Len(s) : c = SubSeq(s, 1, n)
        BY <1>3
  <2>2. Len(c) = n /\ \A i \in 1..n : c[i] = s[i]
        BY <2>1, CutShort
  <2> QED
      BY <1>2, <2>2
<1>4. CASE \E n \in DOMAIN s, p \in Parts : c = CutIn(s, n, p)
  <2>1. PICK n \in 1..Len(s), p \in Parts : c = CutIn(s, n, p)
        BY <1>4
  <2>2. /\ Len(c) = n /\ \A i \in 1..(n - 1) : c[i] = s[i]
        /\ c[n] = [s[n] EXCEPT !.part = p] /\ s[n] \in Chunk
        BY <2>1, CutInIs
  <2>3. c[n].key = s[n].key /\ c[n].op = s[n].op
        BY <2>2, WithPart
  <2>4. n \in 0..Len(s)
        BY <2>1
  <2>5. \A i \in 1..(n - 1) : c[i] = s[i]
        BY <2>2
  <2> QED
      BY <1>2, <2>2, <2>3, <2>4, <2>5
<1> QED
    BY <1>3, <1>4, CutsAre

LEMMA RestoredIsClean ==
  ASSUME NEW d \in Disk, NEW image \in Image, NEW e \in Disk,
         e.seen = image, e.stable = image,
         image.journal \in JournalImages(d), image.snapshot \in Snapshots(d),
         CleanFiles(d)
  PROVE  CleanFiles(e)
<1> DEFINE j == image.journal
<1>1. d.seen.journal \in Seq(Chunk) /\ d.stable.journal \in Seq(Chunk)
      BY ImagesAreJournals
<1>2. j = d.stable.journal \/ j \in Cuts(d.seen.journal)
      BY DEF JournalImages
<1>3. PICK s \in Journals(d) :
        /\ \A i \in DOMAIN j : i \in DOMAIN s /\ j[i].key = s[i].key /\ j[i].op = s[i].op
        /\ (\A i \in 1..(Len(s) - 1) : s[i].part = "whole") =>
             \A i \in 1..(Len(j) - 1) : j[i].part = "whole"
  <2>1. CASE j = d.stable.journal
        BY <2>1 DEF Journals
  <2>2. CASE j \in Cuts(d.seen.journal)
    <3>1. d.seen.journal \in Journals(d)
          BY DEF Journals
    <3>2. /\ \A i \in DOMAIN j : /\ i \in DOMAIN d.seen.journal
                                /\ j[i].key = d.seen.journal[i].key
                                /\ j[i].op = d.seen.journal[i].op
          /\ (\A i \in 1..(Len(d.seen.journal) - 1) : d.seen.journal[i].part = "whole") =>
               \A i \in 1..(Len(j) - 1) : j[i].part = "whole"
          BY <1>1, <2>2, CutIsClean
    <3> QED
        BY <3>1, <3>2
  <2> QED
      BY <1>2, <2>1, <2>2
<1>4. \A x \in Journals(e) : \A i \in 1..(Len(x) - 1) : x[i].part = "whole"
      BY <1>3 DEF Journals, CleanFiles
<1>5. ASSUME NEW k \in Key, NEW op \in Mentioned(e, k)
      PROVE  op \in Mentioned(d, k)
  <2>1. op \in MentionedIn(image, k)
        BY DEF Mentioned
  <2>2. CASE op = image.snapshot[k] /\ op # None
        BY <2>2, MentionedInAre DEF Mentioned, Snapshots
  <2>3. CASE \E i \in DOMAIN j : j[i].key = k /\ op = j[i].op
    <3>1. \E i \in DOMAIN s : s[i].key = k /\ op = s[i].op
          BY <1>3, <2>3
    <3> QED
        BY <3>1, MentionedInAre DEF Mentioned, Journals
  <2> QED
      BY <2>1, <2>2, <2>3, MentionedInAre
<1> QED
    BY <1>4, <1>5, CleanFewer

LEMMA LoadedIsMentioned ==
  ASSUME NEW d \in Disk, NEW k \in Key, Loaded(d.seen)[k] # None
  PROVE  Loaded(d.seen)[k] \in Mentioned(d, k)
<1>1. d.seen \in Image
      BY DEF Disk
<1>2. RecordsOf(d.seen.journal, k) # {} =>
        \E i \in DOMAIN d.seen.journal : /\ d.seen.journal[i].key = k
                                         /\ Loaded(d.seen)[k] = d.seen.journal[i].op
  <2>1. PICK own : own = RecordsOf(d.seen.journal, k)
        OBVIOUS
  <2>2. /\ own \subseteq DOMAIN d.seen.journal
        /\ own # {} => Max(own) \in own /\ Loaded(d.seen)[k] = d.seen.journal[Max(own)].op
        BY <1>1, <2>1, LoadedIs
  <2>3. \A i \in own : d.seen.journal[i].key = k
        BY <2>1 DEF RecordsOf
  <2> QED
      BY <2>1, <2>2, <2>3
<1>3. RecordsOf(d.seen.journal, k) = {} => Loaded(d.seen)[k] = d.seen.snapshot[k]
      BY <1>1, LoadedIs
<1> QED
    BY <1>2, <1>3, MentionedInAre DEF Mentioned

\* A start reads clean files.
LEMMA CleanLoads ==
  ASSUME NEW d \in Disk, CleanFiles(d)
  PROVE  Loads(d.seen)
<1> DEFINE j == d.seen.journal
<1>1. j \in Seq(Chunk) /\ j \in Journals(d)
      BY ImagesAreJournals DEF Journals
<1>2. LinesParse(j)
  <2>1. \A i \in 1..(Len(j) - 1) : j[i].part = "whole"
        BY <1>1 DEF CleanFiles
  <2>2. \A i \in DOMAIN j : i = 1 \/ i - 1 \in 1..(Len(j) - 1)
        BY <1>1
  <2> QED
      BY <2>1, <2>2 DEF LinesParse, LineStarts
<1>3. ~Conflicts(d.seen)
  <2>1. \A k \in Key : \A i \in RecordsOf(j, k) : j[i].op \in Mentioned(d, k)
        BY MentionedInAre DEF RecordsOf, Records, LineStarts, Mentioned
  <2>2. \A k \in Key : d.seen.snapshot[k] # None => d.seen.snapshot[k] \in Mentioned(d, k)
        BY MentionedInAre DEF Mentioned
  <2>3. \A k \in Key : \A op1, op2 \in Mentioned(d, k) : op1.request = op2.request
        BY DEF CleanFiles
  <2> QED
      BY <2>1, <2>2, <2>3 DEF Conflicts
<1>4. Cardinality(Live(Loaded(d.seen))) <= MaxOperations
  <2>1. Live(Loaded(d.seen)) \in SUBSET KeysOf(d) /\ KeysOf(d) \in SUBSET Key
        BY LoadedIsMentioned DEF Live, KeysOf
  <2> QED
      BY <2>1, FitsFewer DEF CleanFiles, Fits
<1> QED
    BY <1>2, <1>3, <1>4 DEF Loads

LEMMA MentionedAre ==
  ASSUME NEW d, NEW k, NEW op
  PROVE  op \in Mentioned(d, k) <=>
           \/ op # None /\ \E S \in Snapshots(d) : op = S[k]
           \/ \E j \in Journals(d) : \E i \in DOMAIN j : j[i].key = k /\ op = j[i].op
BY MentionedInAre DEF Mentioned, Snapshots, Journals

LEMMA CompactedMentions ==
  ASSUME NEW d, NEW operations, NEW e, Compacted(d, operations, e)
  PROVE  /\ \A j \in Journals(e) : j \in Journals(d) \/ j = <<>>
         /\ \A k \in Key : \A op \in Mentioned(e, k) :
              op \in Mentioned(d, k) \/ (op = operations[k] /\ op # None)
<1>1. \A j \in Journals(e) : j \in Journals(d) \/ j = <<>>
      BY DEF Compacted, Journals
<1>2. \A S \in Snapshots(e) : S \in Snapshots(d) \/ S = operations
      BY DEF Compacted
<1>3. DOMAIN <<>> = {}
      BY EmptyJournal
<1>4. ASSUME NEW k \in Key, NEW op \in Mentioned(e, k)
      PROVE  op \in Mentioned(d, k) \/ (op = operations[k] /\ op # None)
  <2>1. CASE op # None /\ \E S \in Snapshots(e) : op = S[k]
        BY <1>2, <2>1, MentionedAre
  <2>2. CASE \E j \in Journals(e) : \E i \in DOMAIN j : j[i].key = k /\ op = j[i].op
    <3>1. PICK j \in Journals(e) : \E i \in DOMAIN j : j[i].key = k /\ op = j[i].op
          BY <2>2
    <3>2. j \in Journals(d)
          BY <1>1, <1>3, <3>1
    <3>3. \E x \in Journals(d) : \E i \in DOMAIN x : x[i].key = k /\ op = x[i].op
          BY <3>1, <3>2
    <3> QED
        BY <3>3, MentionedAre
  <2> QED
      BY <2>1, <2>2, MentionedAre
<1> QED
    BY <1>1, <1>4

LEMMA CompactedIsClean ==
  ASSUME NEW d, NEW operations, NEW e, Compacted(d, operations, e), CleanFiles(d),
         \A k \in Key : operations[k] # None => operations[k] \in Mentioned(d, k)
  PROVE  CleanFiles(e)
<1>1. \A j \in Journals(e) : \A i \in 1..(Len(j) - 1) : j[i].part = "whole"
  <2>1. Len(<<>>) = 0
        OBVIOUS
  <2>2. \A i \in 1..(Len(<<>>) - 1) : FALSE
        BY <2>1
  <2> QED
      BY <2>2, CompactedMentions DEF CleanFiles
<1>2. \A k \in Key : Mentioned(e, k) \subseteq Mentioned(d, k)
      BY CompactedMentions
<1> QED
    BY <1>1, <1>2, CleanFewer

\* What a compaction writes is covered when the memory is.
LEMMA CompactedIsCovered ==
  ASSUME NEW d, NEW operations, NEW e, NEW covering, Compacted(d, operations, e),
         CleanRun(covering, d),
         \A k \in Key : operations[k] # None =>
           covering[k] # None /\ operations[k].request = covering[k].request
  PROVE  CleanRun(covering, e)
<1>1. \A j \in Journals(e) : \A i \in DOMAIN j : j[i].part = "whole"
      BY CompactedMentions, EmptyJournal DEF CleanRun
<1>2. Covers(covering, e)
      BY CompactedMentions DEF CleanRun, Covers
<1> QED
    BY <1>1, <1>2 DEF CleanRun

LEMMA WrittenIsCovered ==
  ASSUME NEW e, NEW operations, Snapshots(e) = {operations},
         e.seen.journal = <<>>, e.stable.journal = <<>>, Fits(Live(operations))
  PROVE  CleanRun(operations, e)
<1>1. Journals(e) = {<<>>}
      BY DEF Journals
<1>2. DOMAIN <<>> = {}
      BY EmptyJournal
<1>3. \A k \in Key : \A op \in Mentioned(e, k) : op = operations[k] /\ op # None
      BY <1>1, <1>2, MentionedAre
<1> QED
    BY <1>1, <1>2, <1>3 DEF CleanRun, Covers

\* An append to clean files, finished or not.
LEMMA AppendIsClean ==
  ASSUME NEW d \in Disk, NEW e \in Disk, NEW y \in Chunk, NEW operations, NEW covering,
         CleanRun(operations, d), Snapshots(e) = Snapshots(d),
         \A j \in Journals(e) : j \in Journals(d) \/ j = Append(d.seen.journal, y),
         covering[y.key] = y.op, y.op # None,
         operations[y.key] # None => operations[y.key].request = y.op.request,
         \A k \in Key \ {y.key} : covering[k] = operations[k],
         Fits(Live(covering))
  PROVE  CleanFiles(e) /\ (y.part = "whole" => CleanRun(covering, e))
<1> DEFINE s == d.seen.journal
           f == Append(s, y)
<1>1. s \in Seq(Chunk) /\ s \in Journals(d)
      BY ImagesAreJournals DEF Journals
<1>2. /\ Len(f) = Len(s) + 1 /\ DOMAIN f = 1..(Len(s) + 1) /\ DOMAIN s = 1..Len(s)
      /\ \A i \in 1..Len(s) : f[i] = s[i]
      /\ f[Len(s) + 1] = y /\ Len(s) \in Nat
      BY <1>1, Appended
<1> HIDE DEF f
<1>3. \A i \in DOMAIN f : \/ i \in DOMAIN s /\ f[i] = s[i]
                          \/ i = Len(s) + 1 /\ f[i] = y
      BY <1>2
<1>4. \A j \in Journals(d) : \A i \in DOMAIN j : j[i].part = "whole"
      BY DEF CleanRun
<1>5. \A j \in Journals(e) : \A i \in 1..(Len(j) - 1) : j[i].part = "whole"
  <2>1. \A i \in 1..(Len(f) - 1) : i \in DOMAIN s /\ f[i] = s[i]
        BY <1>2
  <2>2. \A j \in Journals(d) : \A i \in 1..(Len(j) - 1) : i \in DOMAIN j
    <3>1. \A j \in Journals(d) : j \in Seq(Chunk)
          BY ImagesAreJournals DEF Journals
    <3> QED
        BY <3>1
  <2> QED
      BY <1>1, <1>4, <2>1, <2>2 DEF f
<1>6. Covers(covering, e)
  <2> SUFFICES ASSUME NEW k \in Key, NEW op \in Mentioned(e, k)
               PROVE  covering[k] # None /\ op.request = covering[k].request
      BY DEF Covers
  <2>1. op \in Mentioned(d, k) \/ (k = y.key /\ op = y.op)
    <3>1. CASE op # None /\ \E S \in Snapshots(e) : op = S[k]
          BY <3>1, MentionedAre
    <3>2. CASE \E j \in Journals(e) : \E i \in DOMAIN j : j[i].key = k /\ op = j[i].op
      <4>1. PICK j \in Journals(e) : \E i \in DOMAIN j : j[i].key = k /\ op = j[i].op
            BY <3>2
      <4>2. CASE j \in Journals(d)
            BY <4>1, <4>2, MentionedAre
      <4>3. CASE j = f
            BY <1>1, <1>3, <4>1, <4>3, MentionedAre
      <4> QED
          BY <4>2, <4>3 DEF f
    <3> QED
        BY <3>1, <3>2, MentionedAre
  <2>2. op \in Mentioned(d, k) => operations[k] # None /\ op.request = operations[k].request
        BY DEF CleanRun, Covers
  <2> QED
      BY <2>1, <2>2
<1>7. CleanFiles(e)
      BY <1>5, <1>6, CoveredIsClean
<1>8. ASSUME y.part = "whole"
      PROVE  \A j \in Journals(e) : \A i \in DOMAIN j : j[i].part = "whole"
  <2>1. \A i \in DOMAIN f : f[i].part = "whole"
        BY <1>1, <1>3, <1>4, <1>8
  <2>2. \A j \in Journals(e) : j \in Journals(d) \/ j = f
        BY DEF f
  <2> QED
      BY <1>4, <2>1, <2>2
<1> QED
    BY <1>6, <1>7, <1>8 DEF CleanRun

(***************************************************************************)
(* The steps of an operation.                                              *)
(***************************************************************************)

Results == [inner : Memory, disk : Disk, ok : BOOLEAN]

\* Where directories are synced no snapshot is stale.
Unstale(r) == syncsDirectories => r.disk.stale = {}

SameMemory(a, b) ==
  a.operations = b.operations /\ a.scopeCounts = b.scopeCounts
  /\ a.nextPruneAt = b.nextPruneAt

\* The files are the memory, and nothing else.
Written(d, operations) ==
  Snapshots(d) = {operations} /\ d.seen.journal = <<>> /\ d.stable.journal = <<>>

LEMMA ResultIs ==
  ASSUME NEW r \in Results
  PROVE  /\ r.inner \in Memory /\ r.disk \in Disk /\ r.ok \in BOOLEAN
         /\ r.inner.operations \in Operations /\ r.inner.journalBytes \in 0..MaxJournal
         /\ r.inner.nextPruneAt \in Nat /\ r.inner.scopeCounts \in [Scope -> Nat]
         /\ r.disk.seen \in Image /\ r.disk.stable \in Image
BY DEF Results, Memory, Disk

LEMMA SnapshotIs ==
  ASSUME NEW r \in Results, r.ok, NEW s \in WriteSnapshot(r)
  PROVE  /\ s \in Results /\ s.inner = r.inner
         /\ s.disk.seen.journal = r.disk.seen.journal
         /\ s.disk.stable.journal = r.disk.stable.journal
         /\ Snapshots(s.disk) \subseteq Snapshots(r.disk) \cup {r.inner.operations}
         /\ s.ok => s.disk.seen.snapshot = r.inner.operations
         /\ s.disk.stale = r.disk.stale
         /\ s.ok /\ syncsDirectories => Snapshots(s.disk) = {r.inner.operations}
<1>1. PICK new \in Operations : new = r.inner.operations
      BY ResultIs
<1>2. CASE s = [r EXCEPT !.disk.seen.snapshot = new, !.disk.stable.snapshot = new]
      BY <1>1, <1>2 DEF Results, Disk, Image, Snapshots
<1>3. CASE s = Failed(r)
      BY <1>1, <1>3 DEF Failed, Results, Disk, Image, Snapshots
<1>4. ASSUME NEW old \in Snapshots(r.disk), NEW t,
             t = [r EXCEPT !.disk.seen.snapshot = new, !.disk.stable.snapshot = old],
             (s = t /\ ~syncsDirectories) \/ s = Failed(t)
      PROVE  /\ s \in Results /\ s.inner = r.inner
             /\ s.disk.seen.journal = r.disk.seen.journal
             /\ s.disk.stable.journal = r.disk.stable.journal
             /\ Snapshots(s.disk) \subseteq Snapshots(r.disk) \cup {new}
             /\ s.disk.seen.snapshot = new /\ s.disk.stale = r.disk.stale
             /\ s.ok => ~syncsDirectories
  <2>1. old \in Operations
        BY DEF Results, Disk, Image, Snapshots
  <2>2. /\ t \in Results /\ t.inner = r.inner
        /\ t.disk.seen.journal = r.disk.seen.journal
        /\ t.disk.stable.journal = r.disk.stable.journal
        /\ t.disk.seen.snapshot = new /\ t.disk.stable.snapshot = old
        /\ t.disk.stale = r.disk.stale
        BY <1>1, <1>4, <2>1 DEF Results, Disk, Image
  <2>3. /\ s \in Results /\ s.inner = t.inner /\ s.disk = t.disk
        /\ s.ok => ~syncsDirectories
        BY <1>4, <2>2 DEF Failed, Results
  <2> QED
      BY <2>2, <2>3 DEF Snapshots
<1>5. \/ s = [r EXCEPT !.disk.seen.snapshot = new, !.disk.stable.snapshot = new]
      \/ s = Failed(r)
      \/ \E old \in Snapshots(r.disk) : \E t :
           /\ t = [r EXCEPT !.disk.seen.snapshot = new, !.disk.stable.snapshot = old]
           /\ (s = t /\ ~syncsDirectories) \/ s = Failed(t)
      BY <1>1 DEF WriteSnapshot
<1> QED
    BY <1>1, <1>2, <1>3, <1>4, <1>5

LEMMA TruncateIs ==
  ASSUME NEW r \in Results, r.ok, NEW t \in TruncateJournal(r)
  PROVE  /\ t \in Results /\ SameMemory(t.inner, r.inner)
         /\ \/ ~t.ok /\ t.disk = r.disk
            \/ /\ Snapshots(t.disk) = {r.disk.seen.snapshot}
               /\ t.disk.seen.journal = <<>>
               /\ t.disk.stable.journal \in {r.disk.stable.journal, <<>>}
         /\ t.ok => t.disk.stable.journal = <<>> /\ t.inner.journalBytes = 0
         /\ \/ t.disk.stale = r.disk.stale
            \/ t.disk.stale = r.disk.stale \cup (Snapshots(r.disk) \ {r.disk.seen.snapshot})
<1>1. <<>> \in Seq(Chunk) /\ 0 \in 0..MaxJournal
      BY LedgerAssumption
<1>2. PICK shown \in Operations : shown = r.disk.seen.snapshot
      BY DEF Results, Disk, Image
<1>3. PICK stale \in SUBSET Operations :
        stale = r.disk.stale \cup (Snapshots(r.disk) \ {shown})
      BY DEF Results, Disk, Image, Snapshots
<1>4. PICK s : s = [r EXCEPT !.disk.seen.journal = <<>>, !.disk.stable.snapshot = shown,
                             !.disk.stale = stale]
      OBVIOUS
<1>5. /\ s \in Results /\ s.ok /\ s.inner = r.inner
      /\ s.disk.seen.journal = <<>> /\ s.disk.stable.journal = r.disk.stable.journal
      /\ s.disk.seen.snapshot = shown /\ s.disk.stable.snapshot = shown
      /\ s.disk.stale = stale
      BY <1>1, <1>2, <1>3, <1>4 DEF Results, Disk, Image
<1>6. CASE t = [s EXCEPT !.disk.stable.journal = <<>>, !.inner.journalBytes = 0]
  <2>1. /\ t \in Results /\ SameMemory(t.inner, s.inner) /\ t.inner.journalBytes = 0
        /\ t.disk.seen = s.disk.seen /\ t.disk.stable.journal = <<>>
        /\ t.disk.stable.snapshot = shown /\ t.disk.stale = stale
        BY <1>1, <1>5, <1>6 DEF Results, Memory, Disk, Image, SameMemory
  <2> QED
      BY <1>2, <1>3, <1>5, <2>1 DEF Snapshots
<1>7. CASE t = Failed(r)
      BY <1>7 DEF Failed, Results, SameMemory
<1>8. CASE t = Failed(s)
  <2>1. t \in Results /\ t.inner = s.inner /\ t.disk = s.disk /\ ~t.ok
        BY <1>5, <1>8 DEF Failed, Results
  <2> QED
      BY <1>2, <1>3, <1>5, <2>1 DEF Snapshots, SameMemory
<1> QED
    BY <1>2, <1>3, <1>4, <1>6, <1>7, <1>8 DEF TruncateJournal

LEMMA WriteIs ==
  ASSUME NEW r \in Results, r.ok, r.inner.journalBytes + 1 <= MaxJournal,
         NEW k \in Key, NEW op \in Stored, NEW w \in WriteJournal(r, k, op),
         NEW chunk, chunk = [key |-> k, op |-> op, part |-> "whole"]
  PROVE  /\ w \in Results /\ SameMemory(w.inner, r.inner)
         /\ Snapshots(w.disk) = Snapshots(r.disk) /\ w.disk.stale = r.disk.stale
         /\ w.ok => /\ w.disk.seen.journal = Append(r.disk.seen.journal, chunk)
                    /\ w.disk.stable.journal = w.disk.seen.journal
         /\ ~w.ok => /\ w.disk.stable.journal = r.disk.stable.journal
                     /\ w.disk.seen.journal \in Leftovers(r.disk.seen.journal, chunk)
<1>1. chunk \in Chunk
      BY DEF Chunk, Parts
<1>2. r.disk.seen.journal \in Seq(Chunk)
      BY ResultIs DEF Image
<1>3. PICK file \in Seq(Chunk) : file = Append(r.disk.seen.journal, chunk)
      BY <1>1, <1>2, Appended
<1>4. PICK b \in 0..MaxJournal : b = r.inner.journalBytes + 1
      BY ResultIs
<1>5. CASE w = [r EXCEPT !.disk.seen.journal = file, !.disk.stable.journal = file,
                         !.inner.journalBytes = @ + 1]
  <2>1. w = [r EXCEPT !.disk.seen.journal = file, !.disk.stable.journal = file,
                      !.inner.journalBytes = b]
        BY <1>4, <1>5 DEF Results, Memory
  <2> QED
      BY <1>3, <2>1 DEF Results, Memory, Disk, Image, Snapshots, SameMemory
<1>6. ASSUME NEW left \in Leftovers(r.disk.seen.journal, chunk),
             w = [Failed(r) EXCEPT !.disk.seen.journal = left]
      PROVE  /\ w \in Results /\ SameMemory(w.inner, r.inner)
             /\ Snapshots(w.disk) = Snapshots(r.disk) /\ ~w.ok
             /\ w.disk.stale = r.disk.stale
             /\ w.disk.stable.journal = r.disk.stable.journal
             /\ w.disk.seen.journal = left
  <2>1. left \in Seq(Chunk)
    <3>1. \A p \in Parts : /\ [chunk EXCEPT !.part = p] \in Chunk
                           /\ Append(r.disk.seen.journal, [chunk EXCEPT !.part = p]) \in Seq(Chunk)
          BY <1>1, <1>2, WithPart, Appended
    <3> QED
        BY <1>2, <3>1 DEF Leftovers
  <2> QED
      BY <1>6, <2>1 DEF Failed, Results, Disk, Image, Snapshots, SameMemory
<1>7. \/ w = [r EXCEPT !.disk.seen.journal = file, !.disk.stable.journal = file,
                       !.inner.journalBytes = @ + 1]
      \/ \E left \in Leftovers(r.disk.seen.journal, chunk) :
           w = [Failed(r) EXCEPT !.disk.seen.journal = left]
      BY <1>3 DEF WriteJournal
<1> QED
    BY <1>3, <1>5, <1>6, <1>7

LEMMA CompactIs ==
  ASSUME NEW r \in Results, r.ok, NEW c \in Compact(r)
  PROVE  /\ c \in Results /\ SameMemory(c.inner, r.inner)
         /\ Compacted(r.disk, r.inner.operations, c.disk)
         /\ c.ok => Written(c.disk, r.inner.operations) /\ c.inner.journalBytes = 0
         /\ Unstale(r) => Unstale(c)
<1>1. PICK s \in WriteSnapshot(r) : IF s.ok THEN c \in TruncateJournal(s) ELSE c = s
      BY DEF Compact, Then
<1>2. /\ s \in Results /\ s.inner = r.inner
      /\ s.disk.seen.journal = r.disk.seen.journal
      /\ s.disk.stable.journal = r.disk.stable.journal
      /\ Snapshots(s.disk) \subseteq Snapshots(r.disk) \cup {r.inner.operations}
      /\ s.ok => s.disk.seen.snapshot = r.inner.operations
      /\ s.disk.stale = r.disk.stale
      /\ s.ok /\ syncsDirectories => Snapshots(s.disk) = {r.inner.operations}
      BY SnapshotIs
<1>3. CASE ~s.ok
      BY <1>1, <1>2, <1>3 DEF SameMemory, Compacted, Unstale
<1>4. CASE s.ok
  <2>1. c \in TruncateJournal(s)
        BY <1>1, <1>4
  <2>2. /\ c \in Results /\ SameMemory(c.inner, s.inner)
        /\ \/ ~c.ok /\ c.disk = s.disk
           \/ /\ Snapshots(c.disk) = {s.disk.seen.snapshot}
              /\ c.disk.seen.journal = <<>>
              /\ c.disk.stable.journal \in {s.disk.stable.journal, <<>>}
        /\ c.ok => c.disk.stable.journal = <<>> /\ c.inner.journalBytes = 0
        /\ \/ c.disk.stale = s.disk.stale
           \/ c.disk.stale = s.disk.stale \cup (Snapshots(s.disk) \ {s.disk.seen.snapshot})
        BY <1>2, <1>4, <2>1, TruncateIs
  <2>3. Compacted(r.disk, r.inner.operations, c.disk)
        BY <1>2, <1>4, <2>2 DEF Compacted
  <2>4. Unstale(r) => Unstale(c)
        BY <1>2, <1>4, <2>2 DEF Unstale
  <2> QED
      BY <1>2, <1>4, <2>2, <2>3, <2>4 DEF Written
<1> QED
    BY <1>3, <1>4

\* What holds of the evidence, and of the answers, between two steps.
Safe(P, r) ==
  FilesHold(P, r.disk) /\ WholesHold(P, r.disk) /\ MemoryHolds(P, r.inner.operations)

Sound(r) == CountsAreExact(r.inner) /\ DeadlineHolds(r.inner)

Clean(r) == CleanRun(r.inner.operations, r.disk)

LEMMA CompactKeeps ==
  ASSUME NEW r \in Results, r.ok, NEW c \in Compact(r)
  PROVE  /\ \A P : Safe(P, r) => Safe(P, c)
         /\ Sound(r) => Sound(c)
         /\ Clean(r) => Clean(c)
<1>1. /\ c \in Results /\ SameMemory(c.inner, r.inner)
      /\ Compacted(r.disk, r.inner.operations, c.disk)
      BY CompactIs
<1>2. c.disk \in Disk /\ r.disk \in Disk
      BY <1>1, ResultIs
<1>3. ASSUME NEW P, Safe(P, r)
      PROVE  Safe(P, c)
      BY <1>1, <1>2, <1>3, CompactedHolds DEF Safe, SameMemory
<1>4. Clean(r) => Clean(c)
      BY <1>1, CompactedIsCovered DEF Clean, SameMemory
<1>5. Sound(r) => Sound(c)
      BY <1>1 DEF Sound, SameMemory, CountsAreExact, DeadlineHolds
<1> QED
    BY <1>3, <1>4, <1>5

LEMMA MaybeCompactKeeps ==
  ASSUME NEW r \in Results, r.ok, NEW c \in MaybeCompact(r)
  PROVE  /\ c \in Results /\ SameMemory(c.inner, r.inner)
         /\ \A P : Safe(P, r) => Safe(P, c)
         /\ Sound(r) => Sound(c)
         /\ Clean(r) => Clean(c)
         /\ Unstale(r) => Unstale(c)
<1>1. c \in Compact(r) \/ c = r
      BY DEF MaybeCompact
<1> QED
    BY <1>1, CompactIs, CompactKeeps DEF SameMemory

(***************************************************************************)
(* Recording an operation.                                                 *)
(***************************************************************************)

\* An append starts with room for its record.
LEMMA AppendStarts ==
  ASSUME NEW r \in Results, r.ok, NEW k \in Key, NEW op \in Stored,
         NEW a \in AppendRecord(r, k, op)
  PROVE  \E s \in Results :
           /\ SameMemory(s.inner, r.inner)
           /\ \A P : Safe(P, r) => Safe(P, s)
           /\ Clean(r) => Clean(s)
           /\ Unstale(r) => Unstale(s)
           /\ \/ ~s.ok /\ a = s
              \/ s.ok /\ s.inner.journalBytes + 1 <= MaxJournal /\ a \in WriteJournal(s, k, op)
<1>1. CASE r.inner.journalBytes + 1 > MaxJournal
  <2>1. PICK s \in Compact(r) : IF s.ok THEN a \in WriteJournal(s, k, op) ELSE a = s
        BY <1>1 DEF AppendRecord, Then
  <2>2. /\ s \in Results /\ SameMemory(s.inner, r.inner)
        /\ s.ok => s.inner.journalBytes = 0
        /\ Unstale(r) => Unstale(s)
        BY CompactIs
  <2>3. 0 + 1 <= MaxJournal
        BY LedgerAssumption
  <2> QED
      BY <2>1, <2>2, <2>3, CompactKeeps
<1>2. CASE ~(r.inner.journalBytes + 1 > MaxJournal)
  <2>1. a \in WriteJournal(r, k, op)
        BY <1>2 DEF AppendRecord, Then
  <2>2. r.inner.journalBytes + 1 <= MaxJournal
        BY <1>2, ResultIs, LedgerAssumption
  <2> QED
      BY <2>1, <2>2 DEF SameMemory
<1> QED
    BY <1>1, <1>2

LEMMA AppendKeeps ==
  ASSUME NEW r \in Results, r.ok, NEW k \in Key, NEW op \in Stored,
         NEW a \in AppendRecord(r, k, op)
  PROVE  /\ a \in Results /\ SameMemory(a.inner, r.inner)
         /\ Unstale(r) => Unstale(a)
         /\ \A P : Safe(P, r) /\ Supports(P[k], op) => Safe(P, a)
         /\ \A P, Q : /\ Safe(P, r) /\ a.ok /\ Supports(Q[k], op)
                      /\ \A l \in Key \ {k} : Q[l] = P[l]
                      => FilesHold(Q, a.disk) /\ WholesHold(Q, a.disk)
         /\ \A covering :
              /\ Clean(r) /\ Fits(Live(covering)) /\ covering[k] = op
              /\ r.inner.operations[k] # None => r.inner.operations[k].request = op.request
              /\ \A l \in Key \ {k} : covering[l] = r.inner.operations[l]
              => CleanFiles(a.disk) /\ (a.ok => CleanRun(covering, a.disk))
<1>1. PICK s \in Results :
           /\ SameMemory(s.inner, r.inner)
           /\ \A P : Safe(P, r) => Safe(P, s)
           /\ Clean(r) => Clean(s)
           /\ Unstale(r) => Unstale(s)
           /\ \/ ~s.ok /\ a = s
              \/ s.ok /\ s.inner.journalBytes + 1 <= MaxJournal /\ a \in WriteJournal(s, k, op)
      BY AppendStarts
<1>2. s.disk \in Disk
      BY ResultIs
<1>3. CASE ~s.ok /\ a = s
  <2>1. Clean(r) => CleanFiles(a.disk)
        BY <1>1, <1>2, <1>3, RunIsClean DEF Clean
  <2> QED
      BY <1>1, <1>3, <2>1
<1>4. CASE s.ok /\ s.inner.journalBytes + 1 <= MaxJournal /\ a \in WriteJournal(s, k, op)
  <2>1. PICK chunk \in Chunk : chunk = [key |-> k, op |-> op, part |-> "whole"]
        BY DEF Chunk, Parts
  <2>2. chunk.key = k /\ chunk.op = op /\ chunk.part = "whole"
        BY <2>1
  <2>3. /\ a \in Results /\ SameMemory(a.inner, s.inner)
        /\ Snapshots(a.disk) = Snapshots(s.disk) /\ a.disk.stale = s.disk.stale
        /\ a.ok => /\ a.disk.seen.journal = Append(s.disk.seen.journal, chunk)
                   /\ a.disk.stable.journal = a.disk.seen.journal
        /\ ~a.ok => /\ a.disk.stable.journal = s.disk.stable.journal
                    /\ a.disk.seen.journal \in Leftovers(s.disk.seen.journal, chunk)
        BY <1>4, <2>1, WriteIs
  <2>4. a.disk \in Disk /\ a.ok \in BOOLEAN
        BY <2>3, ResultIs
  <2>5. ASSUME NEW P, NEW Q, Safe(P, r), a.ok, Supports(Q[k], op),
               \A l \in Key \ {k} : Q[l] = P[l]
        PROVE  FilesHold(Q, a.disk) /\ WholesHold(Q, a.disk)
    <3>1. WholesHold(P, s.disk)
          BY <1>1, <2>5 DEF Safe
    <3> QED
        BY <1>2, <2>2, <2>3, <2>4, <2>5, <3>1, AppendedHolds
  <2>6. ASSUME NEW P, Safe(P, r), Supports(P[k], op)
        PROVE  Safe(P, a)
    <3>1. Safe(P, s)
          BY <1>1, <2>6
    <3>2. MemoryHolds(P, a.inner.operations)
          BY <2>3, <3>1 DEF Safe, SameMemory
    <3>3. CASE a.ok
          BY <2>5, <2>6, <3>2, <3>3 DEF Safe
    <3>4. CASE ~a.ok
      <4>1. FilesHold(P, a.disk) /\ WholesHold(P, a.disk)
            BY <1>2, <2>2, <2>3, <2>4, <2>6, <3>1, <3>4, LeftoverHolds DEF Safe
      <4> QED
          BY <3>2, <4>1 DEF Safe
    <3> QED
        BY <3>3, <3>4
  <2>7. ASSUME NEW covering, Clean(r), Fits(Live(covering)), covering[k] = op,
               r.inner.operations[k] # None => r.inner.operations[k].request = op.request,
               \A l \in Key \ {k} : covering[l] = r.inner.operations[l]
        PROVE  CleanFiles(a.disk) /\ (a.ok => CleanRun(covering, a.disk))
    <3>1. CleanRun(r.inner.operations, s.disk)
          BY <1>1, <2>7 DEF Clean, SameMemory
    <3>2. op # None
          BY ExpirationIs
    <3>3. ASSUME NEW y \in Chunk, y.key = k, y.op = op,
                 \A j \in Journals(a.disk) : \/ j \in Journals(s.disk)
                                             \/ j = Append(s.disk.seen.journal, y)
          PROVE  CleanFiles(a.disk) /\ (y.part = "whole" => CleanRun(covering, a.disk))
          BY <1>2, <2>3, <2>4, <2>7, <3>1, <3>2, <3>3, AppendIsClean
    <3>4. CASE a.ok
          BY <2>2, <2>3, <3>3, <3>4 DEF Journals
    <3>5. CASE ~a.ok /\ a.disk.seen.journal = s.disk.seen.journal
          BY <2>2, <2>3, <3>3, <3>5 DEF Journals
    <3>6. ASSUME NEW p \in Parts, ~a.ok,
                 a.disk.seen.journal = Append(s.disk.seen.journal, [chunk EXCEPT !.part = p])
          PROVE  CleanFiles(a.disk)
      <4>1. PICK y \in Chunk : y = [chunk EXCEPT !.part = p]
            BY WithPart
      <4>2. y.key = k /\ y.op = op
            BY <2>2, <4>1, WithPart
      <4> QED
          BY <2>3, <3>3, <3>6, <4>1, <4>2 DEF Journals
    <3> QED
        BY <2>3, <3>4, <3>5, <3>6 DEF Leftovers
  <2>8. Unstale(r) => Unstale(a)
        BY <1>1, <2>3 DEF Unstale
  <2> QED
      BY <1>1, <2>3, <2>5, <2>6, <2>7, <2>8 DEF SameMemory
<1> QED
    BY <1>1, <1>3, <1>4

\* The operations after one is inserted.
Inserted(before, k, op, after) ==
  /\ after \in Operations /\ after[k] = op
  /\ \A l \in Key \ {k} : after[l] = before[l]

\* The memory after a record is inserted.
LEMMA RememberIs ==
  ASSUME NEW r \in Results, NEW k \in Key, NEW op \in Stored,
         NEW m, m = Remember(r, k, op)
  PROVE  /\ m \in Results /\ m.ok = r.ok /\ m.disk = r.disk
         /\ Inserted(r.inner.operations, k, op, m.inner.operations)
         /\ m.inner.scopeCounts = r.inner.scopeCounts
         /\ DeadlineHolds(r.inner) => DeadlineHolds(m.inner)
<1>1. PICK operations \in Operations :
        operations = [r.inner.operations EXCEPT ![k] = op]
      BY ResultIs DEF Operations
<1>2. Expiration(op) \in Nat /\ r.inner.nextPruneAt \in Nat
      BY ExpirationIs, ResultIs
<1>3. PICK at \in Nat : at = Min({r.inner.nextPruneAt, Expiration(op)})
      BY <1>2, MinOfTwo
<1>4. m = [r EXCEPT !.inner.operations = operations, !.inner.nextPruneAt = at]
      BY <1>1, <1>3 DEF Remember, Results, Memory
<1>5. /\ m \in Results /\ m.disk = r.disk
      /\ m.inner.operations = operations /\ m.inner.scopeCounts = r.inner.scopeCounts
      /\ m.inner.nextPruneAt = at
      BY <1>4 DEF Results, Memory
<1>6. m.ok = r.ok
      BY <1>4 DEF Results
<1>7. ASSUME DeadlineHolds(r.inner)
      PROVE  DeadlineHolds(m.inner)
  <2> SUFFICES ASSUME NEW l \in Key, operations[l] # None
               PROVE  at <= Expiration(operations[l])
      BY <1>5 DEF DeadlineHolds, Live
  <2>1. at <= r.inner.nextPruneAt /\ at <= Expiration(op)
        BY <1>2, <1>3, MinOfTwo
  <2>2. CASE l = k
        BY <1>1, <2>1, <2>2, ResultIs DEF Operations
  <2>3. CASE l # k
    <3>1. operations[l] = r.inner.operations[l] /\ operations[l] \in Stored
          BY <1>1, <2>3, ResultIs DEF Operations
    <3>2. r.inner.nextPruneAt <= Expiration(operations[l])
          BY <1>7, <3>1 DEF DeadlineHolds, Live
    <3>3. Expiration(operations[l]) \in Nat
          BY <3>1, ExpirationIs
    <3> QED
        BY <1>2, <2>1, <3>2, <3>3
  <2> QED
      BY <2>2, <2>3
<1>8. Inserted(r.inner.operations, k, op, operations)
      BY <1>1, ResultIs DEF Inserted, Operations
<1> QED
    BY <1>5, <1>6, <1>7, <1>8

(***************************************************************************)
(* Counters, deadlines and maintenance.                                    *)
(***************************************************************************)

LEMMA NextExpirationIs ==
  ASSUME NEW operations \in Operations
  PROVE  /\ NextExpiration(operations) \in Nat
         /\ \A k \in Live(operations) : NextExpiration(operations) <= Expiration(operations[k])
<1> DEFINE T == {Expiration(operations[k]) : k \in Live(operations)} \cup {Never}
<1>1. Never \in Nat
      BY LedgerAssumption DEF Never
<1>2. \A k \in Live(operations) : Expiration(operations[k]) \in Nat
      BY ExpirationIs DEF Live, Operations
<1>3. T \subseteq Nat /\ T # {}
      BY <1>1, <1>2
<1>4. Min(T) \in T /\ \A y \in T : Min(T) <= y
      BY <1>3, MinIs
<1>5. NextExpiration(operations) = Min(T)
      BY DEF NextExpiration
<1> HIDE DEF T
<1>6. \A k \in Live(operations) : Expiration(operations[k]) \in T
      BY DEF T
<1> QED
    BY <1>3, <1>4, <1>5, <1>6

LEMMA LiveIsFinite ==
  ASSUME NEW operations, NEW s
  PROVE  /\ Live(operations) \in SUBSET Key /\ IsFiniteSet(Live(operations))
         /\ IsFiniteSet({k \in Live(operations) : ScopeOf[k] = s})
         /\ Cardinality(Live(operations)) \in Nat
         /\ Cardinality({k \in Live(operations) : ScopeOf[k] = s}) \in Nat
<1>1. IsFiniteSet(Key)
      BY LedgerAssumption
<1>2. /\ Live(operations) \in SUBSET Key
      /\ {k \in Live(operations) : ScopeOf[k] = s} \in SUBSET Key
      BY DEF Live
<1> QED
    BY <1>1, <1>2, FS_Subset, FS_CardinalityType

LEMMA CountsAreNumbers ==
  ASSUME NEW operations
  PROVE  ScopeCounts(operations) \in [Scope -> Nat]
BY LiveIsFinite DEF ScopeCounts

LEMMA CountsAfterBegin ==
  ASSUME NEW operations \in Operations, NEW k \in Key, operations[k] = None,
         NEW op \in Stored, NEW after, Inserted(operations, k, op, after)
  PROVE  /\ Live(after) = Live(operations) \cup {k} /\ k \notin Live(operations)
         /\ ScopeCounts(after) = [ScopeCounts(operations) EXCEPT ![ScopeOf[k]] = @ + 1]
<1>1. op # None /\ ScopeOf[k] \in Scope
      BY ExpirationIs, LedgerAssumption
<1>2. Live(after) = Live(operations) \cup {k} /\ k \notin Live(operations)
      BY <1>1 DEF Live, Inserted
<1>3. ASSUME NEW s \in Scope, s # ScopeOf[k]
      PROVE  ScopeCounts(after)[s] = ScopeCounts(operations)[s]
  <2>1. {l \in Live(after) : ScopeOf[l] = s} = {l \in Live(operations) : ScopeOf[l] = s}
        BY <1>2, <1>3
  <2> QED
      BY <2>1 DEF ScopeCounts
<1>4. ScopeCounts(after)[ScopeOf[k]] = ScopeCounts(operations)[ScopeOf[k]] + 1
  <2> DEFINE S == {l \in Live(operations) : ScopeOf[l] = ScopeOf[k]}
  <2>1. {l \in Live(after) : ScopeOf[l] = ScopeOf[k]} = S \cup {k} /\ k \notin S
        BY <1>2
  <2>2. IsFiniteSet(S)
        BY LiveIsFinite
  <2>3. Cardinality(S \cup {k}) = Cardinality(S) + 1
        BY <2>1, <2>2, FS_AddElement
  <2> QED
      BY <1>1, <2>1, <2>3 DEF ScopeCounts
<1>5. ScopeCounts(after) \in [Scope -> Nat] /\ ScopeCounts(operations) \in [Scope -> Nat]
      BY CountsAreNumbers
<1> QED
    BY <1>1, <1>2, <1>3, <1>4, <1>5

LEMMA CountsAfterComplete ==
  ASSUME NEW operations \in Operations, NEW k \in Key, operations[k] # None,
         NEW op \in Stored, NEW after, Inserted(operations, k, op, after)
  PROVE  Live(after) = Live(operations) /\ ScopeCounts(after) = ScopeCounts(operations)
<1>1. Live(after) = Live(operations)
      BY ExpirationIs DEF Live, Inserted
<1> QED
    BY <1>1 DEF ScopeCounts

\* The two limits begin looks at leave room for one more.
LEMMA RoomFits ==
  ASSUME NEW i \in Memory, NEW k \in Key, HasCapacity(i, k), CountsAreExact(i),
         Fits(Live(i.operations)), k \notin Live(i.operations)
  PROVE  Fits(Live(i.operations) \cup {k})
<1> DEFINE L == Live(i.operations)
<1>1. IsFiniteSet(L) /\ Cardinality(L) \in Nat
      BY LiveIsFinite
<1>2. MaxOperations \in Nat /\ MaxPerScope \in Nat /\ ScopeOf[k] \in Scope
      BY LedgerAssumption
<1>3. Cardinality(L \cup {k}) <= MaxOperations
  <2>1. Cardinality(L \cup {k}) = Cardinality(L) + 1
        BY <1>1, FS_AddElement
  <2> QED
      BY <1>1, <1>2, <2>1 DEF HasCapacity
<1>4. ASSUME NEW s \in Scope
      PROVE  Cardinality({l \in L \cup {k} : ScopeOf[l] = s}) <= MaxPerScope
  <2> DEFINE S == {l \in L : ScopeOf[l] = s}
  <2>1. IsFiniteSet(S) /\ Cardinality(S) \in Nat
        BY LiveIsFinite
  <2>2. CASE s = ScopeOf[k]
    <3>1. {l \in L \cup {k} : ScopeOf[l] = s} = S \cup {k} /\ k \notin S
          BY <2>2
    <3>2. Cardinality(S \cup {k}) = Cardinality(S) + 1
          BY <2>1, <3>1, FS_AddElement
    <3>3. i.scopeCounts[s] = Cardinality(S)
          BY DEF CountsAreExact, ScopeCounts
    <3> QED
        BY <1>2, <2>1, <2>2, <3>1, <3>2, <3>3 DEF HasCapacity
  <2>3. CASE s # ScopeOf[k]
    <3>1. {l \in L \cup {k} : ScopeOf[l] = s} = S
          BY <2>3
    <3> QED
        BY <3>1 DEF Fits
  <2> QED
      BY <2>2, <2>3
<1> QED
    BY <1>3, <1>4 DEF Fits

LEMMA MaintainKeeps ==
  ASSUME inner \in Memory, disk \in Disk, now \in Nat, NEW m \in MaintainExpirations(Ready)
  PROVE  /\ Ready \in Results /\ m \in Results
         /\ \A P \in [Key -> Promised \cup {None}] : Safe(P, Ready) => Safe(P, m)
         /\ Sound(Ready) => Sound(m)
         /\ Unstale(Ready) => Unstale(m)
         /\ Clean(Ready) => CleanFiles(m.disk) /\ (m.ok => Clean(m))
<1>1. /\ Ready \in Results /\ Ready.ok /\ Ready.inner = inner /\ Ready.disk = disk
      BY DEF Ready, Results
<1>2. CASE now < inner.nextPruneAt
  <2>1. m = Ready
        BY <1>1, <1>2 DEF MaintainExpirations
  <2> QED
      BY <1>1, <2>1, RunIsClean DEF Clean
<1>3. CASE ~(now < inner.nextPruneAt)
  <2>1. PICK kept \in Operations : kept = PruneExpired(inner.operations, now)
        BY PrunedIs DEF Memory
  <2>2. PICK counts \in [Scope -> Nat] : counts = ScopeCounts(kept)
        BY CountsAreNumbers
  <2>3. PICK at \in Nat : at = NextExpiration(kept)
        BY NextExpirationIs
  <2>4. PICK pruned : pruned = [Ready EXCEPT !.inner.operations = kept,
                                  !.inner.scopeCounts = counts, !.inner.nextPruneAt = at]
        OBVIOUS
  <2>5. /\ pruned \in Results /\ pruned.ok /\ pruned.disk = disk
        /\ pruned.inner.operations = kept /\ pruned.inner.scopeCounts = counts
        /\ pruned.inner.nextPruneAt = at
        BY <2>4 DEF Ready, Results, Memory
  <2>6. IF kept # inner.operations THEN m \in Compact(pruned) ELSE m = pruned
        BY <1>1, <1>3, <2>1, <2>2, <2>3, <2>4 DEF MaintainExpirations
  <2>7. Sound(pruned)
        BY <2>2, <2>3, <2>5, NextExpirationIs DEF Sound, CountsAreExact, DeadlineHolds
  <2>8. \A k \in Key : kept[k] = None \/ kept[k] = inner.operations[k]
        BY <2>1, PrunedIs DEF Memory
  <2>9. ASSUME NEW P \in [Key -> Promised \cup {None}], Safe(P, Ready)
        PROVE  Safe(P, pruned)
    <3>1. MemoryHolds(P, kept)
          BY <1>1, <2>1, <2>9, PrunedHolds DEF Safe, Memory
    <3> QED
        BY <1>1, <2>5, <2>9, <3>1 DEF Safe
  <2>10. CASE kept = inner.operations
    <3>1. m = pruned
          BY <2>6, <2>10
    <3>2. Clean(Ready) => Clean(m)
          BY <1>1, <2>5, <2>10, <3>1 DEF Clean
    <3> QED
        BY <1>1, <2>5, <2>7, <2>9, <3>1, <3>2, RunIsClean DEF Clean, Unstale
  <2>11. CASE kept # inner.operations
    <3>1. m \in Compact(pruned)
          BY <2>6, <2>11
    <3>2. /\ m \in Results /\ SameMemory(m.inner, pruned.inner)
          /\ Compacted(disk, kept, m.disk)
          /\ m.ok => Written(m.disk, kept)
          /\ Unstale(Ready) => Unstale(m)
          BY <1>1, <2>5, <3>1, CompactIs DEF Unstale
    <3>3. \A P : Safe(P, pruned) => Safe(P, m)
          BY <2>5, <3>1, CompactKeeps
    <3>4. Sound(m)
          BY <2>5, <2>7, <3>1, CompactKeeps
    <3>5. ASSUME Clean(Ready)
          PROVE  CleanFiles(m.disk) /\ (m.ok => Clean(m))
      <4>1. CleanRun(inner.operations, m.disk)
            BY <1>1, <2>8, <3>2, <3>5, CompactedIsCovered DEF Clean
      <4>2. m.disk \in Disk
            BY <3>2, ResultIs
      <4>3. Live(kept) \in SUBSET Live(inner.operations) /\ Live(inner.operations) \in SUBSET Key
            BY <2>8 DEF Live
      <4>4. Fits(Live(kept))
            BY <4>1, <4>3, FitsFewer DEF CleanRun
      <4>5. m.ok => CleanRun(kept, m.disk)
            BY <3>2, <4>4, WrittenIsCovered DEF Written
      <4> QED
          BY <2>5, <3>2, <4>1, <4>2, <4>5, RunIsClean DEF Clean, SameMemory
    <3> QED
        BY <1>1, <2>9, <3>2, <3>3, <3>4, <3>5
  <2> QED
      BY <2>10, <2>11
<1> QED
    BY <1>2, <1>3

\* A record is appended, inserted into the memory and maybe compacted.
LEMMA RecordKeeps ==
  ASSUME NEW m \in Results, m.ok, NEW k \in Key, NEW op \in Stored,
         NEW a \in AppendRecord(m, k, op), NEW q \in Results,
         q.ok = a.ok, q.disk = a.disk,
         Inserted(m.inner.operations, k, op, q.inner.operations),
         Sound(m), Sound(q),
         NEW b, IF a.ok THEN b \in MaybeCompact(q) ELSE b = a
  PROVE  /\ b \in Results /\ Sound(b)
         /\ Unstale(m) => Unstale(b)
         /\ \A P : Safe(P, m) /\ Supports(P[k], op) => Safe(P, b)
         /\ \A P, Q : /\ Safe(P, m) /\ b.ok /\ Supports(Q[k], op)
                      /\ \A l \in Key \ {k} : Q[l] = P[l]
                      => Safe(Q, b)
         /\ /\ Clean(m) /\ Fits(Live(q.inner.operations))
            /\ m.inner.operations[k] # None => m.inner.operations[k].request = op.request
            => CleanFiles(b.disk) /\ (b.ok => Clean(b))
<1>1. /\ a \in Results /\ SameMemory(a.inner, m.inner)
      /\ Unstale(m) => Unstale(a)
      /\ \A P : Safe(P, m) /\ Supports(P[k], op) => Safe(P, a)
      /\ \A P, Q : /\ Safe(P, m) /\ a.ok /\ Supports(Q[k], op)
                   /\ \A l \in Key \ {k} : Q[l] = P[l]
                   => FilesHold(Q, a.disk) /\ WholesHold(Q, a.disk)
      BY AppendKeeps
<1>2. /\ q.inner.operations[k] = op
      /\ \A l \in Key \ {k} : q.inner.operations[l] = m.inner.operations[l]
      BY DEF Inserted
<1>3. a.ok \in BOOLEAN /\ b \in Results
      BY <1>1, ResultIs, MaybeCompactKeeps
<1>4. Sound(b)
  <2>1. CASE a.ok
        BY <2>1, MaybeCompactKeeps
  <2>2. CASE ~a.ok
        BY <1>1, <2>2 DEF Sound, SameMemory, CountsAreExact, DeadlineHolds
  <2> QED
      BY <2>1, <2>2
<1>5. ASSUME NEW P, Safe(P, m), Supports(P[k], op)
      PROVE  Safe(P, b)
  <2>1. Safe(P, a)
        BY <1>1, <1>5
  <2>2. CASE a.ok
    <3>1. MemoryHolds(P, q.inner.operations)
          BY <1>2, <1>5 DEF MemoryHolds, Safe
    <3>2. Safe(P, q)
          BY <2>1, <3>1 DEF Safe
    <3> QED
        BY <2>2, <3>2, MaybeCompactKeeps
  <2>3. CASE ~a.ok
        BY <2>1, <2>3
  <2> QED
      BY <2>2, <2>3
<1>6. ASSUME NEW P, NEW Q, Safe(P, m), b.ok, Supports(Q[k], op),
             \A l \in Key \ {k} : Q[l] = P[l]
      PROVE  Safe(Q, b)
  <2>1. a.ok
        BY <1>6
  <2>2. FilesHold(Q, a.disk) /\ WholesHold(Q, a.disk)
        BY <1>1, <1>6, <2>1
  <2>3. MemoryHolds(Q, q.inner.operations)
        BY <1>2, <1>6 DEF MemoryHolds, Safe
  <2>4. Safe(Q, q)
        BY <2>2, <2>3 DEF Safe
  <2> QED
      BY <2>1, <2>4, MaybeCompactKeeps
<1>7. ASSUME Clean(m), Fits(Live(q.inner.operations)),
             m.inner.operations[k] # None => m.inner.operations[k].request = op.request
      PROVE  CleanFiles(b.disk) /\ (b.ok => Clean(b))
  <2>1. CleanFiles(a.disk) /\ (a.ok => CleanRun(q.inner.operations, a.disk))
    <3>1. PICK covering : covering = q.inner.operations
          OBVIOUS
    <3>2. /\ Fits(Live(covering)) /\ covering[k] = op
          /\ \A l \in Key \ {k} : covering[l] = m.inner.operations[l]
          BY <1>2, <1>7, <3>1
    <3>3. CleanFiles(a.disk) /\ (a.ok => CleanRun(covering, a.disk))
          BY <1>7, <3>2, AppendKeeps
    <3> QED
        BY <3>1, <3>3
  <2>2. CASE a.ok
    <3>1. Clean(q)
          BY <2>1, <2>2 DEF Clean
    <3>2. Clean(b)
          BY <2>2, <3>1, MaybeCompactKeeps
    <3>3. b.disk \in Disk
          BY <1>3, ResultIs
    <3> QED
        BY <3>2, <3>3, RunIsClean DEF Clean
  <2>3. CASE ~a.ok
        BY <2>1, <2>3
  <2> QED
      BY <2>2, <2>3
<1>8. Unstale(m) => Unstale(b)
  <2>1. Unstale(a) => Unstale(q)
        BY DEF Unstale
  <2>2. CASE a.ok
        BY <1>1, <2>1, <2>2, MaybeCompactKeeps
  <2>3. CASE ~a.ok
        BY <1>1, <2>3
  <2> QED
      BY <1>3, <2>2, <2>3
<1> QED
    BY <1>3, <1>4, <1>5, <1>6, <1>7, <1>8

(***************************************************************************)
(* The inductive invariant.                                                *)
(***************************************************************************)

Evidence == [Key -> Promised \cup {None}]

LEMMA Constants ==
  /\ \A n \in {MaxOperations, MaxPerScope, CompactAt, MaxJournal} : n \in Nat /\ n > 0
  /\ \A n \in {AcceptedRetention, CompletedRetention, MaxTime, MaxErrors, MaxRestarts} :
       n \in Nat
BY LedgerAssumption

LEMMA ForgottenIsMemory == Forgotten \in Memory /\ Nothing \in Operations
<1>1. Never \in Nat /\ 0 \in 0..MaxJournal
      BY Constants DEF Never
<1> QED
    BY <1>1 DEF Forgotten, Nothing, Memory, Operations

\* While the clock stands, what the files hold depends on nothing else.
LEMMA NowStands ==
  ASSUME now' = now, undone' = undone
  PROVE  /\ FilesHold(promised, disk)' <=> FilesHold(promised', disk')
         /\ WholesHold(promised, disk)' <=> WholesHold(promised', disk')
         /\ MemoryHolds(promised, inner.operations)'
              <=> MemoryHolds(promised', inner'.operations)
BY DEF FilesHold, WholesHold, MemoryHolds, FoundIn, Supports, Owed

\* An operation returns and the ledger is open.
LEMMA Returned ==
  ASSUME IInv, phase' = "open", now' = now, NEW b \in Results, Return(b),
         promised' \in Evidence, running' \subseteq Key \X Request,
         \A w \in running' : promised'[w[1]] # None,
         Safe(promised', b), Sound(b), Unstale(b),
         b.ok /\ errors = 0 /\ ~undone => Clean(b)
  PROVE  IInv'
<1>1. /\ inner' = b.inner /\ disk' = b.disk /\ restarts' = restarts
      /\ errors' = (IF b.ok THEN errors ELSE errors + 1) /\ errors' <= MaxErrors
      /\ undone' = undone /\ syncsDirectories' = syncsDirectories
      BY DEF Return
<1>2. errors' \in 0..MaxErrors /\ (errors' = 0 => errors = 0 /\ b.ok)
      BY <1>1, Constants DEF IInv, TypeOK
<1>3. inner' \in Memory /\ disk' \in Disk
      BY <1>1, ResultIs
<1>4. TypeOK'
      BY <1>1, <1>2, <1>3 DEF IInv, TypeOK, Evidence
<1>5. FilesHold(promised, disk)' /\ WholesHold(promised, disk)'
      /\ MemoryHolds(promised, inner.operations)'
      BY <1>1, NowStands DEF Safe
<1>6. CountsAreExact(inner)' /\ DeadlineHolds(inner)'
      BY <1>1 DEF Sound, CountsAreExact, DeadlineHolds
<1>7. errors' = 0 /\ ~undone' => CleanRun(inner'.operations, disk')
      BY <1>1, <1>2 DEF Clean
<1>8. errors' = 0 /\ ~undone' => CleanFiles(disk')
      BY <1>3, <1>7, RunIsClean
<1>9. RenamesLast'
      BY <1>1 DEF RenamesLast, Unstale, IInv
<1> QED
    BY <1>4, <1>5, <1>6, <1>7, <1>8, <1>9 DEF IInv, OpenIsSound

\* The process dies inside an operation.
LEMMA Interrupted ==
  ASSUME IInv, now' = now, NEW b \in Results, Interrupt(b), promised' \in Evidence,
         FilesHold(promised', b.disk), Unstale(b),
         errors = 0 /\ ~undone => CleanFiles(b.disk)
  PROVE  IInv'
<1>1. /\ inner' = Forgotten /\ disk' = b.disk /\ phase' = "closed" /\ running' = {}
      /\ undone' = undone /\ syncsDirectories' = syncsDirectories
      /\ restarts < MaxRestarts /\ restarts' = restarts + 1 /\ errors' = errors
      BY DEF Interrupt, Die
<1>2. disk' \in Disk
      BY <1>1, ResultIs
<1>3. restarts' \in 0..MaxRestarts
      BY <1>1, Constants DEF IInv, TypeOK
<1>4. TypeOK'
      BY <1>1, <1>2, <1>3, ForgottenIsMemory DEF IInv, TypeOK, Evidence
<1>5. FilesHold(promised, disk)'
      BY <1>1, NowStands
<1>6. RenamesLast'
      BY <1>1 DEF RenamesLast, Unstale, IInv
<1> QED
    BY <1>1, <1>4, <1>5, <1>6 DEF IInv, OpenIsSound

LEMMA ReadyIs ==
  ASSUME IInv, phase = "open"
  PROVE  /\ inner \in Memory /\ disk \in Disk /\ now \in Nat /\ promised \in Evidence
         /\ Ready \in Results /\ Ready.ok /\ Ready.inner = inner /\ Ready.disk = disk
         /\ Safe(promised, Ready) /\ Sound(Ready) /\ Unstale(Ready)
         /\ errors = 0 /\ ~undone => Clean(Ready)
<1>1. /\ inner \in Memory /\ disk \in Disk /\ now \in Nat /\ promised \in Evidence
      BY DEF IInv, TypeOK, Evidence
<1>2. Ready \in Results /\ Ready.ok /\ Ready.inner = inner /\ Ready.disk = disk
      BY <1>1 DEF Ready, Results
<1> QED
    BY <1>1, <1>2 DEF IInv, OpenIsSound, RenamesLast, Safe, Sound, Clean, Unstale

LEMMA ConsultKeeps ==
  ASSUME IInv, Consult
  PROVE  IInv'
<1>1. phase = "open" /\ now' = now /\ promised' = promised
      BY DEF Consult
<1>2. PICK m \in MaintainExpirations(Ready) :
        (Return(m) /\ UNCHANGED <<phase, running>>) \/ Interrupt(m)
      BY DEF Consult
<1>3. /\ m \in Results /\ Safe(promised, m) /\ Sound(m) /\ Unstale(m)
      /\ errors = 0 /\ ~undone => CleanFiles(m.disk) /\ (m.ok => Clean(m))
      BY <1>1, ReadyIs, MaintainKeeps DEF Evidence
<1>4. promised' \in Evidence /\ Safe(promised', m)
      BY <1>1, <1>3, ReadyIs
<1>5. CASE Return(m) /\ UNCHANGED <<phase, running>>
  <2>1. phase' = "open" /\ running' \subseteq Key \X Request
        /\ \A w \in running' : promised'[w[1]] # None
        BY <1>1, <1>5 DEF IInv, TypeOK
  <2> QED
      BY <1>1, <1>3, <1>4, <1>5, <2>1, Returned
<1>6. CASE Interrupt(m)
      BY <1>1, <1>3, <1>4, <1>6, Interrupted DEF Safe
<1> QED
    BY <1>2, <1>5, <1>6

\* What begin and complete promise when they succeed.
PromisedBy(op) == [op |-> op, until |-> Expiration(op)]

LEMMA PromisedByIs ==
  ASSUME NEW op \in Stored
  PROVE  /\ PromisedBy(op) \in Promised /\ PromisedBy(op) # None
         /\ PromisedBy(op).op = op /\ PromisedBy(op).until = Expiration(op)
         /\ Supports(PromisedBy(op), op)
<1>1. Expiration(op) \in Nat /\ op # None
      BY ExpirationIs
<1>2. PromisedBy(op) \in Promised
      BY <1>1 DEF PromisedBy, Promised
<1>3. None \notin Promised
      BY LedgerAssumption DEF Promised, Stored, States
<1> QED
    BY <1>1, <1>2, <1>3 DEF PromisedBy, Supports, Owed

\* begin of an unknown key, up to the record and its compaction.
LEMMA BeginRecords ==
  ASSUME IInv, phase = "open", NEW k \in Key, NEW op \in Stored,
         NEW m \in MaintainExpirations(Ready), m.ok, m.inner.operations[k] = None,
         HasCapacity(m.inner, k),
         NEW a \in AppendRecord(m, k, op), NEW b,
         a.ok => b \in MaybeCompact(CountOne(Remember(a, k, op), k)),
         ~a.ok => b = a
  PROVE  /\ b \in Results /\ Safe(promised, b) /\ Sound(b) /\ Unstale(b)
         /\ b.ok => Safe([promised EXCEPT ![k] = PromisedBy(op)], b)
         /\ errors = 0 /\ ~undone => CleanFiles(b.disk) /\ (b.ok => Clean(b))
<1>1. /\ m \in Results /\ Safe(promised, m) /\ Sound(m) /\ Unstale(m)
      /\ errors = 0 /\ ~undone => Clean(m)
      BY ReadyIs, MaintainKeeps DEF Evidence
<1>2. IF a.ok THEN b \in MaybeCompact(CountOne(Remember(a, k, op), k)) ELSE b = a
      OBVIOUS
<1>3. a \in Results /\ SameMemory(a.inner, m.inner)
      BY <1>1, AppendKeeps
<1>4. PICK r : r = Remember(a, k, op)
      OBVIOUS
<1>5. /\ r \in Results /\ r.ok = a.ok /\ r.disk = a.disk
      /\ Inserted(m.inner.operations, k, op, r.inner.operations)
      /\ r.inner.scopeCounts = m.inner.scopeCounts
      /\ DeadlineHolds(r.inner)
  <2>1. DeadlineHolds(a.inner)
        BY <1>1, <1>3 DEF Sound, SameMemory, DeadlineHolds
  <2>2. /\ r \in Results /\ r.ok = a.ok /\ r.disk = a.disk
        /\ Inserted(a.inner.operations, k, op, r.inner.operations)
        /\ r.inner.scopeCounts = a.inner.scopeCounts
        /\ DeadlineHolds(r.inner)
        BY <1>3, <1>4, <2>1, RememberIs
  <2> QED
      BY <1>3, <2>2 DEF SameMemory
<1>6. ScopeOf[k] \in Scope /\ r.inner.scopeCounts \in [Scope -> Nat]
      BY <1>5, ResultIs, LedgerAssumption
<1>7. PICK counts \in [Scope -> Nat] :
        counts = [m.inner.scopeCounts EXCEPT ![ScopeOf[k]] = @ + 1]
  <2>1. m.inner.scopeCounts \in [Scope -> Nat] /\ m.inner.scopeCounts[ScopeOf[k]] + 1 \in Nat
        BY <1>5, <1>6
  <2> QED
      BY <1>6, <2>1
<1>8. PICK q : q = [r EXCEPT !.inner.scopeCounts = counts]
      OBVIOUS
<1>9. /\ q \in Results /\ q.ok = r.ok /\ q.disk = r.disk
      /\ q.inner.operations = r.inner.operations /\ q.inner.scopeCounts = counts
      /\ q.inner.nextPruneAt = r.inner.nextPruneAt
      BY <1>5, <1>8 DEF Results, Memory
<1>10. CountOne(Remember(a, k, op), k) = q
       BY <1>4, <1>5, <1>7, <1>8 DEF CountOne
<1>11. /\ Live(q.inner.operations) = Live(m.inner.operations) \cup {k}
       /\ k \notin Live(m.inner.operations)
       /\ ScopeCounts(q.inner.operations) = counts
  <2>1. m.inner.operations \in Operations /\ Inserted(m.inner.operations, k, op, q.inner.operations)
        BY <1>1, <1>5, <1>9, ResultIs
  <2>2. /\ Live(q.inner.operations) = Live(m.inner.operations) \cup {k}
        /\ k \notin Live(m.inner.operations)
        /\ ScopeCounts(q.inner.operations) =
             [ScopeCounts(m.inner.operations) EXCEPT ![ScopeOf[k]] = @ + 1]
        BY <2>1, CountsAfterBegin
  <2>3. m.inner.scopeCounts = ScopeCounts(m.inner.operations)
        BY <1>1 DEF Sound, CountsAreExact
  <2> QED
      BY <1>7, <2>2, <2>3
<1>12. Sound(q)
       BY <1>5, <1>9, <1>11 DEF Sound, CountsAreExact, DeadlineHolds
<1>13. errors = 0 /\ ~undone => Fits(Live(q.inner.operations))
  <2>1. m.inner \in Memory
        BY <1>1, ResultIs
  <2> QED
      BY <1>1, <1>11, <2>1, RoomFits DEF Sound, Clean, CleanRun
<1>14. /\ b \in Results /\ Sound(b) /\ Unstale(b)
       /\ \A P : Safe(P, m) /\ Supports(P[k], op) => Safe(P, b)
       /\ \A P, Q : /\ Safe(P, m) /\ b.ok /\ Supports(Q[k], op)
                    /\ \A l \in Key \ {k} : Q[l] = P[l]
                    => Safe(Q, b)
       /\ /\ Clean(m) /\ Fits(Live(q.inner.operations))
          /\ m.inner.operations[k] # None => m.inner.operations[k].request = op.request
          => CleanFiles(b.disk) /\ (b.ok => Clean(b))
  <2>1. /\ q.ok = a.ok /\ q.disk = a.disk
        /\ Inserted(m.inner.operations, k, op, q.inner.operations)
        /\ IF a.ok THEN b \in MaybeCompact(q) ELSE b = a
        BY <1>2, <1>5, <1>9, <1>10
  <2> QED
      BY <1>1, <1>9, <1>12, <2>1, RecordKeeps
<1>15. Supports(promised[k], op)
       BY <1>1 DEF Safe, MemoryHolds, Supports, Owed
<1>16. PICK Q : Q = [promised EXCEPT ![k] = PromisedBy(op)]
       OBVIOUS
<1>17. Supports(Q[k], op) /\ \A l \in Key \ {k} : Q[l] = promised[l]
       BY <1>16, PromisedByIs, ReadyIs DEF Evidence
<1> QED
    BY <1>1, <1>13, <1>14, <1>15, <1>16, <1>17

LEMMA BeginKeeps ==
  ASSUME IInv, NEW k \in Key, NEW r \in Request, Begin(k, r)
  PROVE  IInv'
<1> DEFINE op == [request |-> r, state |-> "accepted", at |-> now]
           After == [promised EXCEPT ![k] = PromisedBy(op)]
<1>1. phase = "open" /\ now' = now /\ op \in Stored
      BY DEF Begin, IInv, TypeOK, Stored, States
<1> DEFINE Ends(a, b) ==
      /\ a.ok => b \in MaybeCompact(CountOne(Remember(a, k, op), k))
      /\ ~a.ok => b = a
      /\ \/ /\ Return(b)
            /\ running' = IF b.ok THEN running \cup {<<k, r>>} ELSE running
            /\ promised' = IF b.ok THEN After ELSE promised
            /\ UNCHANGED phase
         \/ Interrupt(b) /\ UNCHANGED promised
<1>2. PICK m \in MaintainExpirations(Ready) :
        /\ m.ok /\ m.inner.operations[k] = None /\ HasCapacity(m.inner, k)
        /\ \E a \in AppendRecord(m, k, op) : \E b : Ends(a, b)
      BY DEF Begin, Then, PromisedBy
<1> HIDE DEF op
<1>3. PICK a \in AppendRecord(m, k, op) : \E b : Ends(a, b)
      BY <1>2
<1>4. PICK b : Ends(a, b)
      BY <1>3
<1>5. /\ b \in Results /\ Safe(promised, b) /\ Sound(b) /\ Unstale(b)
      /\ b.ok => Safe(After, b)
      /\ errors = 0 /\ ~undone => CleanFiles(b.disk) /\ (b.ok => Clean(b))
      BY <1>1, <1>2, <1>4, BeginRecords
<1>6. promised \in Evidence /\ running \subseteq Key \X Request
      /\ \A w \in running : promised[w[1]] # None
      BY DEF IInv, TypeOK, Evidence
<1>7. After \in Evidence /\ After[k] # None /\ \A l \in Key \ {k} : After[l] = promised[l]
      BY <1>1, <1>6, PromisedByIs DEF Evidence
<1>8. b.ok \in BOOLEAN
      BY <1>5, ResultIs
<1> HIDE DEF After
<1>9. CASE Interrupt(b) /\ UNCHANGED promised
      BY <1>1, <1>5, <1>6, <1>9, Interrupted DEF Safe
<1>10. CASE /\ Return(b)
            /\ running' = IF b.ok THEN running \cup {<<k, r>>} ELSE running
            /\ promised' = IF b.ok THEN After ELSE promised
            /\ UNCHANGED phase
  <2>1. CASE b.ok
    <3>1. running' = running \cup {<<k, r>>} /\ promised' = After
          BY <1>10, <2>1
    <3>2. running' \subseteq Key \X Request /\ \A w \in running' : promised'[w[1]] # None
      <4>1. \A w \in running : w[1] \in Key
            BY <1>6
      <4> QED
          BY <1>6, <1>7, <3>1, <4>1
    <3> QED
        BY <1>1, <1>5, <1>7, <1>10, <2>1, <3>1, <3>2, Returned
  <2>2. CASE ~b.ok
    <3>1. running' = running /\ promised' = promised
          BY <1>10, <2>2
    <3> QED
        BY <1>1, <1>5, <1>6, <1>10, <2>2, <3>1, Returned
  <2> QED
      BY <1>8, <2>1, <2>2
<1> QED
    BY <1>4, <1>9, <1>10

\* A completion that was not reported limits the promise to its retention.
LimitedBy(op, k) == [promised EXCEPT ![k].until = Min({@, Expiration(op)})]

LEMMA LimitedIs ==
  ASSUME promised \in Evidence, now \in Nat,
         NEW k \in Key, NEW op \in Stored, promised[k] # None
  PROVE  /\ LimitedBy(op, k) \in Evidence /\ LimitedBy(op, k)[k] # None
         /\ LimitedBy(op, k)[k].op = promised[k].op
         /\ LimitedBy(op, k)[k].until <= promised[k].until
         /\ LimitedBy(op, k)[k].until <= Expiration(op)
         /\ LimitedBy(op, k)[k].until \in {promised[k].until, Expiration(op)}
         /\ \A l \in Key \ {k} : LimitedBy(op, k)[l] = promised[l]
         /\ OwesLess(promised, LimitedBy(op, k))
<1>1. promised[k] \in Promised
      BY DEF Evidence
<1>2. Expiration(op) \in Nat /\ promised[k].until \in Nat
      BY <1>1, ExpirationIs DEF Promised
<1>3. PICK until \in Nat : until = Min({promised[k].until, Expiration(op)})
      BY <1>2, MinOfTwo
<1>4. PICK p \in Promised : p = [promised[k] EXCEPT !.until = until]
      BY <1>1 DEF Promised
<1>5. p.op = promised[k].op /\ p.until = until /\ p # None
      BY <1>1, <1>4, LedgerAssumption DEF Promised, Stored, States
<1>6. LimitedBy(op, k) = [promised EXCEPT ![k] = p]
      BY <1>1, <1>3, <1>4 DEF LimitedBy, Evidence
<1>7. PICK Q : Q = [promised EXCEPT ![k] = p]
      OBVIOUS
<1>8. Q \in Evidence /\ Q[k] = p /\ \A l \in Key \ {k} : Q[l] = promised[l]
      BY <1>7 DEF Evidence
<1>9. /\ until <= promised[k].until /\ until <= Expiration(op)
      /\ until \in {promised[k].until, Expiration(op)}
      BY <1>2, <1>3, MinOfTwo
<1>10. OwesLess(promised, Q)
  <2> SUFFICES ASSUME NEW l \in Key, NEW o \in Stored \cup {None},
                      Supports(promised[l], o)
               PROVE  Supports(Q[l], o)
      BY DEF OwesLess
  <2>1. CASE l # k
        BY <1>8, <2>1
  <2>2. CASE l = k
    <3> SUFFICES ASSUME now < until, ~undone
                 PROVE  /\ o # None /\ o.request = p.op.request
                        /\ p.op.state = "completed" => o.state = "completed"
                        /\ until <= Expiration(o)
        BY <1>5, <1>8, <2>2 DEF Supports, Owed
    <3>1. now < promised[k].until
          BY <1>2, <1>9
    <3>2. /\ o # None /\ o.request = p.op.request
          /\ p.op.state = "completed" => o.state = "completed"
          /\ promised[k].until <= Expiration(o)
          BY <1>2, <1>5, <2>2, <3>1 DEF Supports, Owed
    <3>3. Expiration(o) \in Nat
          BY <3>2, ExpirationIs
    <3> QED
        BY <1>2, <1>9, <3>2, <3>3
  <2> QED
      BY <2>1, <2>2
<1> QED
    BY <1>5, <1>6, <1>7, <1>8, <1>9, <1>10

LEMMA CompleteKeeps ==
  ASSUME IInv, NEW k \in Key, NEW r \in Request, Complete(k, r)
  PROVE  IInv'
<1> DEFINE op == [request |-> r, state |-> "completed", at |-> now]
           After == [promised EXCEPT ![k] = PromisedBy(op)]
           Limited == LimitedBy(op, k)
<1>1. /\ phase = "open" /\ now' = now /\ <<k, r>> \in running /\ op \in Stored
      /\ op.request = r /\ op.state = "completed"
      /\ inner.operations[k] # None /\ inner.operations[k].request = r
      BY DEF Complete, IInv, TypeOK, Stored, States
<1> DEFINE Ends(a, b) ==
      /\ a.ok => b \in MaybeCompact(Remember(a, k, op))
      /\ ~a.ok => b = a
      /\ \/ /\ Return(b)
            /\ running' = running \ {<<k, r>>}
            /\ promised' = IF b.ok THEN After ELSE Limited
            /\ UNCHANGED phase
         \/ Interrupt(b) /\ promised' = Limited
<1>2. PICK a \in AppendRecord(Ready, k, op) : \E b : Ends(a, b)
      BY DEF Complete, Then, PromisedBy, LimitedBy
<1>3. PICK b : Ends(a, b)
      BY <1>2
<1> HIDE DEF op
<1>4. /\ Ready \in Results /\ Ready.ok /\ Ready.inner = inner /\ Ready.disk = disk
      /\ disk \in Disk /\ inner.operations \in Operations
      /\ Safe(promised, Ready) /\ Sound(Ready) /\ Unstale(Ready)
      /\ errors = 0 /\ ~undone => Clean(Ready)
      /\ promised \in Evidence /\ now \in Nat
      BY <1>1, ReadyIs DEF Memory
<1>5. /\ running \subseteq Key \X Request /\ promised[k] # None
      /\ \A w \in running : promised[w[1]] # None
      BY <1>1 DEF IInv, TypeOK
<1>6. /\ Limited \in Evidence /\ Limited[k] # None
      /\ Limited[k].op = promised[k].op
      /\ Limited[k].until <= promised[k].until
      /\ Limited[k].until <= Expiration(op)
      /\ \A l \in Key \ {k} : Limited[l] = promised[l]
      /\ OwesLess(promised, Limited)
      BY <1>1, <1>4, <1>5, LimitedIs
<1>7. /\ After \in Evidence /\ After[k] = PromisedBy(op) /\ After[k] # None
      /\ \A l \in Key \ {k} : After[l] = promised[l]
      BY <1>1, <1>4, PromisedByIs DEF Evidence
<1> HIDE DEF After, Limited
<1>8. Safe(Limited, Ready)
      BY <1>4, <1>6, WeakerHold DEF Safe
<1>9. Supports(Limited[k], op)
  <2> SUFFICES ASSUME now < Limited[k].until, ~undone
               PROVE  promised[k].op.request = r
      BY <1>1, <1>6, ExpirationIs DEF Supports, Owed
  <2>1. promised[k] \in Promised /\ Limited[k] \in Promised
        BY <1>4, <1>5, <1>6 DEF Evidence
  <2>2. now < promised[k].until
        BY <1>4, <1>6, <2>1 DEF Promised
  <2>3. Supports(promised[k], inner.operations[k])
        BY <1>4 DEF Safe, MemoryHolds
  <2> QED
      BY <1>1, <1>5, <2>2, <2>3 DEF Supports, Owed
<1>10. Supports(After[k], op)
      BY <1>1, <1>7, PromisedByIs
<1>11. a \in Results /\ SameMemory(a.inner, inner)
       BY <1>1, <1>4, AppendKeeps
<1>12. PICK q : q = Remember(a, k, op)
       OBVIOUS
<1>13. /\ q \in Results /\ q.ok = a.ok /\ q.disk = a.disk
       /\ Inserted(inner.operations, k, op, q.inner.operations)
       /\ q.inner.scopeCounts = inner.scopeCounts
       /\ DeadlineHolds(q.inner)
  <2>1. DeadlineHolds(a.inner)
        BY <1>4, <1>11 DEF Sound, SameMemory, DeadlineHolds
  <2>2. /\ q \in Results /\ q.ok = a.ok /\ q.disk = a.disk
        /\ Inserted(a.inner.operations, k, op, q.inner.operations)
        /\ q.inner.scopeCounts = a.inner.scopeCounts
        /\ DeadlineHolds(q.inner)
        BY <1>1, <1>11, <1>12, <2>1, RememberIs
  <2> QED
      BY <1>11, <2>2 DEF SameMemory
<1>14. /\ Live(q.inner.operations) = Live(inner.operations)
       /\ ScopeCounts(q.inner.operations) = ScopeCounts(inner.operations)
       BY <1>1, <1>4, <1>13, CountsAfterComplete
<1>15. Sound(q)
       BY <1>4, <1>13, <1>14 DEF Sound, CountsAreExact
<1>16. /\ b \in Results /\ Sound(b) /\ Unstale(b)
       /\ \A P : Safe(P, Ready) /\ Supports(P[k], op) => Safe(P, b)
       /\ \A P, Q : /\ Safe(P, Ready) /\ b.ok /\ Supports(Q[k], op)
                    /\ \A l \in Key \ {k} : Q[l] = P[l]
                    => Safe(Q, b)
       /\ /\ Clean(Ready) /\ Fits(Live(q.inner.operations))
          /\ Ready.inner.operations[k] # None => Ready.inner.operations[k].request = op.request
          => CleanFiles(b.disk) /\ (b.ok => Clean(b))
  <2>1. IF a.ok THEN b \in MaybeCompact(q) ELSE b = a
        BY <1>3, <1>12
  <2>2. Inserted(Ready.inner.operations, k, op, q.inner.operations)
        BY <1>4, <1>13
  <2> QED
      BY <1>1, <1>4, <1>13, <1>15, <2>1, <2>2, RecordKeeps
<1>17. Safe(Limited, b) /\ (b.ok => Safe(After, b))
       BY <1>4, <1>7, <1>8, <1>9, <1>10, <1>16
<1>18. errors = 0 /\ ~undone => CleanFiles(b.disk) /\ (b.ok => Clean(b))
       BY <1>1, <1>4, <1>14, <1>16 DEF Clean, CleanRun
<1>19. CASE Interrupt(b) /\ promised' = Limited
       BY <1>1, <1>6, <1>16, <1>17, <1>18, <1>19, Interrupted DEF Safe
<1>20. CASE /\ Return(b)
            /\ running' = running \ {<<k, r>>}
            /\ promised' = IF b.ok THEN After ELSE Limited
            /\ UNCHANGED phase
  <2>1. b.ok \in BOOLEAN
        BY <1>16, ResultIs
  <2>2. promised' \in Evidence /\ promised'[k] # None /\ Safe(promised', b)
        /\ \A l \in Key \ {k} : promised'[l] = promised[l]
    <3>1. CASE b.ok
          BY <1>7, <1>17, <1>20, <3>1
    <3>2. CASE ~b.ok
          BY <1>6, <1>17, <1>20, <3>2
    <3> QED
        BY <2>1, <3>1, <3>2
  <2>3. running' \subseteq Key \X Request /\ \A w \in running' : promised'[w[1]] # None
    <3>1. running' \subseteq running /\ \A w \in running : w[1] \in Key
          BY <1>5, <1>20
    <3> QED
        BY <1>5, <2>2, <3>1
  <2>4. phase' = "open"
        BY <1>1, <1>20
  <2> QED
      BY <1>1, <1>16, <1>18, <1>20, <2>2, <2>3, <2>4, Returned
<1> QED
    BY <1>3, <1>19, <1>20

\* What open starts from: the files as they were found, and what they say.
LEMMA StartIs ==
  ASSUME IInv, Loads(disk.seen), NEW kept, kept = PruneExpired(Loaded(disk.seen), now),
         NEW start,
         start = [inner |-> [operations |-> kept, scopeCounts |-> ScopeCounts(kept),
                             nextPruneAt |-> NextExpiration(kept), journalBytes |-> 0],
                  disk |-> disk, ok |-> TRUE]
  PROVE  /\ start \in Results /\ start.ok /\ start.disk = disk
         /\ start.inner.operations = kept /\ Sound(start)
         /\ MemoryHolds(promised, kept)
         /\ errors = 0 /\ ~undone =>
              /\ \A k \in Key : kept[k] # None => kept[k] \in Mentioned(disk, k)
              /\ Fits(Live(kept))
<1>1. /\ disk \in Disk /\ disk.seen \in Image /\ now \in Nat /\ promised \in Evidence
      /\ FilesHold(promised, disk)
      BY DEF IInv, TypeOK, Disk, Evidence
<1>2. Loaded(disk.seen) \in Operations
  <2>1. CASE Key = {}
        BY <2>1 DEF Loaded, Operations
  <2>2. CASE Key # {}
        BY <1>1, <2>2, LoadedIs
  <2> QED
      BY <2>1, <2>2
<1>3. /\ kept \in Operations
      /\ \A k \in Key : kept[k] = None \/ kept[k] = Loaded(disk.seen)[k]
      BY <1>2, PrunedIs
<1>4. /\ ScopeCounts(kept) \in [Scope -> Nat] /\ NextExpiration(kept) \in Nat
      /\ 0 \in 0..MaxJournal
      BY <1>3, CountsAreNumbers, NextExpirationIs, Constants
<1>5. /\ start \in Results /\ start.ok /\ start.disk = disk
      /\ start.inner.operations = kept /\ start.inner.scopeCounts = ScopeCounts(kept)
      /\ start.inner.nextPruneAt = NextExpiration(kept)
      BY <1>1, <1>3, <1>4 DEF Results, Memory
<1>6. Sound(start)
      BY <1>3, <1>5, NextExpirationIs DEF Sound, CountsAreExact, DeadlineHolds
<1>7. MemoryHolds(promised, kept)
  <2>1. disk.seen.journal \in JournalImages(disk) /\ disk.seen.snapshot \in Snapshots(disk)
        BY <1>1, ImagesAreJournals DEF Snapshots
  <2>2. LinesParse(disk.seen.journal)
        BY DEF Loads
  <2>3. MemoryHolds(promised, Loaded(disk.seen))
        BY <1>1, <2>1, <2>2, LoadedHolds
  <2> QED
      BY <1>1, <1>2, <2>3, PrunedHolds DEF Evidence
<1>8. \A k \in Key : kept[k] # None => kept[k] \in Mentioned(disk, k)
      BY <1>1, <1>3, LoadedIsMentioned
<1>9. errors = 0 /\ ~undone => Fits(Live(kept))
  <2>1. Live(kept) \in SUBSET KeysOf(disk) /\ KeysOf(disk) \in SUBSET Key
        BY <1>8 DEF Live, KeysOf
  <2> QED
      BY <2>1, FitsFewer DEF IInv, CleanFiles
<1> QED
    BY <1>5, <1>6, <1>7, <1>8, <1>9

LEMMA OpenKeeps ==
  ASSUME IInv, Open
  PROVE  IInv'
<1>1. /\ phase = "closed" /\ Loads(disk.seen) /\ now' = now /\ promised' = promised
      BY DEF Open
<1>2. PICK kept : kept = PruneExpired(Loaded(disk.seen), now)
      OBVIOUS
<1>3. PICK start :
        start = [inner |-> [operations |-> kept, scopeCounts |-> ScopeCounts(kept),
                            nextPruneAt |-> NextExpiration(kept), journalBytes |-> 0],
                 disk |-> disk, ok |-> TRUE]
      OBVIOUS
<1>4. /\ start \in Results /\ start.ok /\ start.disk = disk
      /\ start.inner.operations = kept /\ Sound(start)
      /\ MemoryHolds(promised, kept)
      /\ errors = 0 /\ ~undone =>
           /\ \A k \in Key : kept[k] # None => kept[k] \in Mentioned(disk, k)
           /\ Fits(Live(kept))
      BY <1>1, <1>2, <1>3, StartIs
<1>5. PICK o \in Compact(start) :
        \/ /\ Return(IF o.ok THEN o ELSE [o EXCEPT !.inner = Forgotten])
           /\ phase' = IF o.ok THEN "open" ELSE "refused"
           /\ UNCHANGED running
        \/ Interrupt(o)
      BY <1>2, <1>3 DEF Open
<1>6. /\ o \in Results /\ SameMemory(o.inner, start.inner)
      /\ Compacted(disk, kept, o.disk)
      /\ o.ok => Written(o.disk, kept)
      /\ Sound(o) /\ Unstale(o)
  <2>1. Unstale(start)
        BY <1>4 DEF IInv, RenamesLast, Unstale
  <2> QED
      BY <1>4, <2>1, CompactIs, CompactKeeps
<1>7. /\ o.disk \in Disk /\ o.ok \in BOOLEAN /\ disk \in Disk /\ promised \in Evidence
      /\ FilesHold(promised, disk) /\ running \subseteq Key \X Request
      /\ \A w \in running : promised[w[1]] # None
      BY <1>6, ResultIs DEF IInv, TypeOK, Evidence
<1>8. FilesHold(promised, o.disk)
      BY <1>4, <1>6, <1>7, CompactedHolds
<1>9. errors = 0 /\ ~undone => CleanFiles(o.disk)
      BY <1>4, <1>6, CompactedIsClean DEF IInv
<1>10. CASE Interrupt(o)
       BY <1>1, <1>6, <1>7, <1>8, <1>9, <1>10, Interrupted
<1>11. CASE o.ok /\ Return(o) /\ phase' = "open" /\ running' = running
  <2>1. Safe(promised, o)
        BY <1>4, <1>6, <1>7, <1>11, WrittenHolds DEF Safe, Written, SameMemory
  <2>2. errors = 0 /\ ~undone => Clean(o)
        BY <1>4, <1>6, <1>11, WrittenIsCovered DEF Clean, Written, SameMemory
  <2>3. /\ promised' \in Evidence /\ Safe(promised', o) /\ running' \subseteq Key \X Request
        /\ \A w \in running' : promised'[w[1]] # None
        BY <1>1, <1>7, <1>11, <2>1
  <2> QED
      BY <1>1, <1>6, <1>11, <2>2, <2>3, Returned
<1>12. CASE ~o.ok /\ Return([o EXCEPT !.inner = Forgotten]) /\ phase' = "refused"
            /\ running' = running
  <2>1. PICK x : x = [o EXCEPT !.inner = Forgotten]
        OBVIOUS
  <2>2. x.inner = Forgotten /\ x.disk = o.disk /\ ~x.ok
        BY <1>6, <1>12, <2>1 DEF Results
  <2>3. /\ inner' = Forgotten /\ disk' = o.disk /\ errors' = errors + 1
        /\ errors' <= MaxErrors /\ restarts' = restarts
        /\ undone' = undone /\ syncsDirectories' = syncsDirectories
        BY <1>12, <2>1, <2>2 DEF Return
  <2>4. errors' \in 0..MaxErrors /\ errors' # 0
        BY <2>3, Constants DEF IInv, TypeOK
  <2>5. TypeOK'
        BY <1>1, <1>7, <1>12, <2>3, <2>4, ForgottenIsMemory DEF IInv, TypeOK, Evidence
  <2>6. FilesHold(promised, disk)'
        BY <1>1, <1>8, <2>3, NowStands
  <2>7. RenamesLast'
        BY <1>6, <2>3 DEF RenamesLast, Unstale, IInv
  <2> QED
      BY <1>1, <1>7, <1>12, <2>4, <2>5, <2>6, <2>7 DEF IInv, OpenIsSound
<1> QED
    BY <1>5, <1>7, <1>10, <1>11, <1>12

\* A power loss, a crash and the passing of time.
LEMMA PowerLossKeeps ==
  ASSUME IInv, PowerLoss
  PROVE  IInv'
<1>1. PICK image \in AfterPowerLoss : disk' = Settled(image)
      BY DEF PowerLoss
<1>2. /\ inner' = Forgotten /\ phase' = "closed" /\ running' = {} /\ errors' = errors
      /\ restarts < MaxRestarts /\ restarts' = restarts + 1
      /\ now' = now /\ promised' = promised /\ undone' = undone
      /\ syncsDirectories' = syncsDirectories
      BY DEF PowerLoss, Die
<1>3. disk \in Disk
      BY DEF IInv, TypeOK
<1>4. /\ image \in Image /\ image.journal \in JournalImages(disk)
      /\ image.snapshot \in Snapshots(disk)
  <2>1. JournalImages(disk) \subseteq Seq(Chunk) /\ Snapshots(disk) \subseteq Operations
        BY <1>3, ImagesAreJournals DEF Snapshots, Disk, Image
  <2> QED
      BY <2>1 DEF AfterPowerLoss, Image
<1>5. disk' \in Disk /\ disk'.seen = image /\ disk'.stable = image /\ disk'.stale = {}
      BY <1>1, <1>4 DEF Disk, Settled
<1>6. FilesHold(promised, disk')
      BY <1>3, <1>4, <1>5, RestoredHolds DEF IInv
<1>7. errors = 0 /\ ~undone => CleanFiles(disk')
      BY <1>3, <1>4, <1>5, RestoredIsClean DEF IInv
<1>8. restarts' \in 0..MaxRestarts
      BY <1>2, Constants DEF IInv, TypeOK
<1>9. TypeOK'
      BY <1>2, <1>5, <1>8, ForgottenIsMemory DEF IInv, TypeOK
<1>10. FilesHold(promised, disk)'
       BY <1>2, <1>6, NowStands
<1> QED
    BY <1>2, <1>5, <1>7, <1>9, <1>10 DEF IInv, OpenIsSound, RenamesLast

\* An undone rename ends every promise, and comes only where one can be stale.
LEMMA LoseRenameKeeps ==
  ASSUME IInv, LoseRename
  PROVE  IInv'
<1>1. PICK image \in [snapshot : disk.stale, journal : JournalImages(disk)] :
        disk' = Settled(image)
      BY DEF LoseRename
<1>2. /\ inner' = Forgotten /\ phase' = "closed" /\ running' = {} /\ errors' = errors
      /\ restarts < MaxRestarts /\ restarts' = restarts + 1
      /\ now' = now /\ promised' = promised /\ undone' = TRUE
      /\ syncsDirectories' = syncsDirectories
      BY DEF LoseRename, Die
<1>3. disk \in Disk
      BY DEF IInv, TypeOK
<1>4. image \in Image
  <2>1. JournalImages(disk) \subseteq Seq(Chunk) /\ disk.stale \subseteq Operations
        BY <1>3, ImagesAreJournals DEF Disk
  <2> QED
      BY <2>1 DEF Image
<1>5. disk' \in Disk /\ disk'.stale = {}
      BY <1>1, <1>4 DEF Disk, Settled
<1>6. restarts' \in 0..MaxRestarts
      BY <1>2, Constants DEF IInv, TypeOK
<1>7. TypeOK'
      BY <1>2, <1>5, <1>6, ForgottenIsMemory DEF IInv, TypeOK
<1>8. FilesHold(promised, disk)'
      BY <1>2 DEF FilesHold, FoundIn, Supports, Owed
<1>9. ~syncsDirectories
      BY <1>1 DEF IInv, RenamesLast
<1> QED
    BY <1>2, <1>7, <1>8, <1>9 DEF IInv, OpenIsSound, RenamesLast

LEMMA CrashKeeps ==
  ASSUME IInv, Crash
  PROVE  IInv'
<1>1. /\ inner' = Forgotten /\ phase' = "closed" /\ running' = {} /\ errors' = errors
      /\ restarts < MaxRestarts /\ restarts' = restarts + 1
      /\ now' = now /\ promised' = promised /\ disk' = disk /\ undone' = undone
      /\ syncsDirectories' = syncsDirectories
      BY DEF Crash, Die
<1>2. restarts' \in 0..MaxRestarts
      BY <1>1, Constants DEF IInv, TypeOK
<1>3. TypeOK'
      BY <1>1, <1>2, ForgottenIsMemory DEF IInv, TypeOK
<1>4. FilesHold(promised, disk)'
      BY <1>1, NowStands DEF IInv
<1> QED
    BY <1>1, <1>3, <1>4 DEF IInv, OpenIsSound, RenamesLast

LEMMA TickKeeps ==
  ASSUME IInv, Tick
  PROVE  IInv'
<1>1. /\ now < MaxTime /\ now' = now + 1
      /\ UNCHANGED <<syncsDirectories, phase, inner, disk, errors, restarts, running,
                     promised, undone>>
      BY DEF Tick
<1>2. now \in Nat /\ now' \in 0..MaxTime /\ promised \in Evidence
      BY <1>1, Constants DEF IInv, TypeOK, Evidence
<1>3. TypeOK'
      BY <1>1, <1>2 DEF IInv, TypeOK
<1>4. ASSUME NEW k \in Key, NEW op, Supports(promised[k], op)
      PROVE  Supports(promised[k], op)'
  <2>1. promised[k] # None => promised[k].until \in Nat
        BY <1>2 DEF Evidence, Promised
  <2> QED
      BY <1>1, <1>2, <1>4, <2>1 DEF Supports, Owed
<1>5. ASSUME NEW R, NEW j, NEW S, FoundIn(promised, R, j, S)
      PROVE  FoundIn(promised, R, j, S)'
      BY <1>4, <1>5 DEF FoundIn
<1>6. FilesHold(promised, disk)'
      BY <1>1, <1>5 DEF FilesHold, IInv
<1>7. phase = "open" => /\ WholesHold(promised, disk)'
                        /\ MemoryHolds(promised, inner.operations)'
      BY <1>1, <1>4, <1>5 DEF WholesHold, MemoryHolds, IInv, OpenIsSound
<1> QED
    BY <1>1, <1>3, <1>6, <1>7
       DEF IInv, OpenIsSound, RenamesLast, CountsAreExact, DeadlineHolds

LEMMA QuietStepsKeep ==
  ASSUME IInv, UNCHANGED <<syncsDirectories, inner, disk, now, errors, restarts,
                           promised, undone>>,
         running' \subseteq running, errors = 0 /\ ~undone => phase' # "refused",
         phase' = phase \/ phase' = "refused"
  PROVE  IInv'
<1>1. TypeOK'
      BY DEF IInv, TypeOK
<1>2. /\ FilesHold(promised, disk)' /\ (phase = "open" => OpenIsSound')
      BY NowStands DEF IInv, OpenIsSound, CountsAreExact, DeadlineHolds
<1> QED
    BY <1>1, <1>2 DEF IInv, OpenIsSound, RenamesLast

LEMMA RestartImages ==
  ASSUME disk \in Disk, NEW image \in AfterRestart
  PROVE  /\ image \in Image /\ image.journal \in JournalImages(disk)
         /\ image.snapshot \in Snapshots(disk)
<1>1. /\ JournalImages(disk) \subseteq Seq(Chunk) /\ Snapshots(disk) \subseteq Operations
      /\ disk.seen.journal \in JournalImages(disk) /\ disk.seen.snapshot \in Snapshots(disk)
      /\ disk.seen \in Image
      BY ImagesAreJournals DEF Snapshots, Disk, Image
<1>2. CASE image \in AfterPowerLoss
      BY <1>1, <1>2 DEF AfterPowerLoss, Image
<1> QED
    BY <1>1, <1>2 DEF AfterRestart

LEMMA InitInv == Init => IInv
<1> SUFFICES ASSUME Init
             PROVE  IInv
    OBVIOUS
<1>1. /\ phase = "closed" /\ inner = Forgotten /\ disk = Settled(Empty)
      /\ now = 0 /\ errors = 0 /\ restarts = 0 /\ running = {} /\ promised = Nothing
      /\ syncsDirectories \in BOOLEAN /\ undone = FALSE
      BY DEF Init
<1>2. Empty \in Image /\ Empty.journal = <<>> /\ Empty.snapshot = Nothing
      BY ForgottenIsMemory DEF Empty, Image
<1>3. disk \in Disk /\ disk.seen = Empty /\ disk.stable = Empty /\ disk.stale = {}
      BY <1>1, <1>2 DEF Disk, Settled
<1>4. TypeOK
  <2>1. undone \in BOOLEAN
        BY <1>1
  <2>2. /\ phase \in {"closed", "open", "refused"}
        /\ inner \in Memory /\ disk \in Disk /\ running \subseteq Key \X Request
        /\ promised \in [Key -> Promised \cup {None}]
        BY <1>1, <1>3, ForgottenIsMemory DEF Nothing
  <2>3. now \in 0..MaxTime /\ errors \in 0..MaxErrors /\ restarts \in 0..MaxRestarts
        BY <1>1, Constants
  <2> QED
      BY <1>1, <2>1, <2>2, <2>3 DEF TypeOK
<1>5. FilesHold(promised, disk)
      BY <1>1 DEF FilesHold, FoundIn, Supports, Owed, Nothing
<1>6. Snapshots(disk) = {Nothing} /\ Written(disk, Nothing)
      BY <1>2, <1>3 DEF Snapshots, Written
<1>7. Fits(Live(Nothing))
  <2>1. Live(Nothing) = {} /\ Cardinality({}) = 0
        BY FS_EmptySet DEF Live, Nothing
  <2>2. \A s \in Scope : {k \in Live(Nothing) : ScopeOf[k] = s} = {}
        BY <2>1
  <2> QED
      BY <2>1, <2>2, Constants DEF Fits
<1>8. CleanFiles(disk)
      BY <1>3, <1>6, <1>7, WrittenIsCovered, RunIsClean DEF Written
<1> QED
    BY <1>1, <1>3, <1>4, <1>5, <1>8 DEF IInv, OpenIsSound, RenamesLast

LEMMA NextInv ==
  ASSUME IInv, [Next]_vars
  PROVE  IInv'
<1>1. CASE Open
      BY <1>1, OpenKeeps
<1>2. CASE Refuse
  <2>1. ~Loads(disk.seen) /\ disk \in Disk
        BY <1>2 DEF Refuse, IInv, TypeOK
  <2>2. errors # 0 \/ undone
        BY <2>1, CleanLoads DEF IInv
  <2> QED
      BY <1>2, <2>2, QuietStepsKeep DEF Refuse
<1>3. ASSUME NEW k \in Key, NEW r \in Request, Begin(k, r)
      PROVE  IInv'
      BY <1>3, BeginKeeps
<1>4. ASSUME NEW k \in Key, NEW r \in Request, Complete(k, r)
      PROVE  IInv'
      BY <1>4, CompleteKeeps
<1>5. ASSUME NEW k \in Key, NEW r \in Request, CompleteWithoutRecord(k, r)
      PROVE  IInv'
  <2>1. /\ UNCHANGED <<syncsDirectories, phase, inner, disk, now, errors, restarts,
                        promised, undone>>
        /\ running' \subseteq running /\ phase # "refused"
        BY <1>5 DEF CompleteWithoutRecord
  <2> QED
      BY <2>1, QuietStepsKeep
<1>6. CASE Consult
      BY <1>6, ConsultKeeps
<1>7. CASE Tick
      BY <1>7, TickKeeps
<1>8. CASE Crash
      BY <1>8, CrashKeeps
<1>9. CASE PowerLoss
      BY <1>9, PowerLossKeeps
<1>10. CASE LoseRename
       BY <1>10, LoseRenameKeeps
<1>11. CASE UNCHANGED vars
       BY <1>11, QuietStepsKeep DEF vars, IInv
<1> QED
    BY <1>1, <1>2, <1>3, <1>4, <1>5, <1>6, <1>7, <1>8, <1>9, <1>10, <1>11 DEF Next

\* The invariant that carries every result below: in every reachable state the
\* files hold the evidence of what is owed, whatever a power loss leaves of them,
\* an open ledger holds it in memory too, and files that no error touched are
\* readable and fit (all of open, begin, complete, status and their recovery).
THEOREM Invariance == Spec => []IInv
<1>1. IInv /\ UNCHANGED vars => IInv'
      BY NextInv
<1> QED
    BY InitInv, NextInv, <1>1, PTL DEF Spec

\* Whatever an I/O error, a crash or a power loss leaves of the files, a start
\* that accepts them finds the evidence of every started operation and of every
\* reported completion, and the running process never forgets it: always where
\* directories are synced, elsewhere until a power loss undoes a rename
\* (WriteSnapshot, sync_directory).
THEOREM EvidenceSurvivesCrashes == Spec => []EvidenceIsKept
<1>1. IInv => EvidenceIsKept
  <2> SUFFICES ASSUME IInv
               PROVE  EvidenceIsKept
      OBVIOUS
  <2>1. /\ disk \in Disk /\ now \in Nat /\ promised \in Evidence /\ TypeOK
        /\ FilesHold(promised, disk)
        BY DEF IInv, TypeOK, Evidence
  <2>2. ASSUME NEW operations, MemoryHolds(promised, operations), NEW k \in Key
        PROVE  Kept(operations, k)
        BY <2>2 DEF MemoryHolds, Supports, Kept, Owed
  <2>3. EvidenceInMemory
        BY <2>2 DEF EvidenceInMemory, IInv, OpenIsSound
  <2>4. EvidenceSurvives
    <3> SUFFICES ASSUME NEW image \in AfterRestart, Loads(image), NEW k \in Key
                 PROVE  Kept(PruneExpired(Loaded(image), now), k)
        BY DEF EvidenceSurvives
    <3>1. /\ image \in Image /\ image.journal \in JournalImages(disk)
          /\ image.snapshot \in Snapshots(disk)
          BY <2>1, RestartImages
    <3>2. MemoryHolds(promised, Loaded(image))
          BY <2>1, <3>1, LoadedHolds DEF Loads
    <3>3. Loaded(image) \in Operations
          BY <3>1, LoadedIs
    <3>4. MemoryHolds(promised, PruneExpired(Loaded(image), now))
          BY <2>1, <3>2, <3>3, PrunedHolds DEF Evidence
    <3> QED
        BY <2>2, <3>4
  <2> QED
      BY <2>1, <2>3, <2>4 DEF EvidenceIsKept, IInv
<1> QED
    BY Invariance, <1>1, PTL

\* Crashes and power losses alone leave files that a start reads, and an open
\* ledger prunes an operation before it can answer beyond its retention (the
\* former until a power loss undoes a rename).
THEOREM StartsRead == Spec => []RecoveryIsSound
<1>1. IInv => RecoveryIsSound
  <2> SUFFICES ASSUME IInv
               PROVE  RecoveryIsSound
      OBVIOUS
  <2>1. disk \in Disk
        BY DEF IInv, TypeOK
  <2>2. CrashesAreRecoverable
    <3> SUFFICES ASSUME errors = 0, ~undone, NEW image \in AfterRestart
                 PROVE  Loads(image)
        BY DEF CrashesAreRecoverable
    <3>1. /\ image \in Image /\ image.journal \in JournalImages(disk)
          /\ image.snapshot \in Snapshots(disk)
          BY <2>1, RestartImages
    <3>2. PICK e : e = Settled(image)
          OBVIOUS
    <3> e \in Disk /\ e.seen = image /\ e.stable = image
        BY <3>1, <3>2 DEF Disk, Settled
    <3>3. CleanFiles(e)
          BY <2>1, <3>1, <3>2, RestoredIsClean DEF IInv
    <3> QED
        BY <3>2, <3>3, CleanLoads
  <2>3. DeadlineIsSound
        BY DEF DeadlineIsSound, IInv, OpenIsSound, DeadlineHolds
  <2> QED
      BY <2>2, <2>3 DEF RecoveryIsSound
<1> QED
    BY Invariance, <1>1, PTL

\* The counters of an open ledger are exact, and no business origin fills more
\* than its share or keeps another from it (the latter until an I/O error or an
\* undone rename).
THEOREM ScopesFit == Spec => []CapacityIsIsolated
<1>1. IInv => CapacityIsIsolated
  <2> SUFFICES ASSUME IInv, phase = "open"
               PROVE  /\ inner.scopeCounts = ScopeCounts(inner.operations)
                      /\ errors = 0 /\ ~undone =>
                           /\ \A s \in Scope : inner.scopeCounts[s] <= MaxPerScope
                           /\ Cardinality(Live(inner.operations)) <= MaxOperations
      BY DEF CapacityIsIsolated
  <2>1. inner.scopeCounts = ScopeCounts(inner.operations)
        BY DEF IInv, OpenIsSound, CountsAreExact
  <2>2. errors = 0 /\ ~undone => Fits(Live(inner.operations))
        BY DEF IInv, OpenIsSound, CleanRun
  <2>3. \A s \in Scope : inner.scopeCounts[s] =
                           Cardinality({k \in Live(inner.operations) : ScopeOf[k] = s})
        BY <2>1 DEF ScopeCounts
  <2> QED
      BY <2>1, <2>2, <2>3 DEF Fits
<1> QED
    BY Invariance, <1>1, PTL

(***************************************************************************)
(* The ledger implements AtMostOnce.                                       *)
(***************************************************************************)

OwedOf(p) ==
  IF ~Owed(p) THEN "free"
  ELSE IF p.op.state = "accepted" THEN "started" ELSE "completed"

owed == [k \in Key |-> OwedOf(promised[k])]

\* One key changes what it is owed.
LEMMA OwedMoves ==
  ASSUME now' = now, undone' = undone, NEW k \in Key, NEW state,
         (OwedOf(promised[k]))' = state,
         \A l \in Key \ {k} : promised'[l] = promised[l]
  PROVE  owed' = [owed EXCEPT ![k] = state]
<1>1. \A l \in Key \ {k} : (OwedOf(promised[l]))' = OwedOf(promised[l])
      BY DEF OwedOf, Owed
<1>2. /\ \A l \in Key : owed'[l] = (OwedOf(promised[l]))' /\ owed[l] = OwedOf(promised[l])
      /\ owed' = [l \in Key |-> owed'[l]] /\ owed = [l \in Key |-> owed[l]]
      BY DEF owed
<1> HIDE DEF owed
<1> QED
    BY <1>1, <1>2

LEMMA OwedStays ==
  ASSUME now' = now, undone' = undone, promised' = promised
  PROVE  owed' = owed
BY DEF owed, OwedOf, Owed

LEMMA BeginRefines ==
  ASSUME IInv, NEW k \in Key, NEW r \in Request, Begin(k, r)
  PROVE  owed' = owed \/ Promise!Start(k)
<1> DEFINE op == [request |-> r, state |-> "accepted", at |-> now]
<1>1. /\ phase = "open" /\ now' = now /\ op \in Stored /\ op.state = "accepted"
      /\ op.at = now
      BY DEF Begin, IInv, TypeOK, Stored, States
<1>2. PICK m \in MaintainExpirations(Ready) :
        /\ m.ok /\ m.inner.operations[k] = None
        /\ \/ promised' = promised
           \/ promised' = [promised EXCEPT ![k] = PromisedBy(op)]
        /\ undone' = undone
      BY DEF Begin, PromisedBy, Return, Interrupt
<1> HIDE DEF op
<1>3. Safe(promised, m) /\ promised \in Evidence /\ now \in Nat
      BY <1>1, <1>2, ReadyIs, MaintainKeeps DEF Evidence
<1>4. OwedOf(promised[k]) = "free"
  <2>1. ~Owed(promised[k])
        BY <1>2, <1>3 DEF Safe, MemoryHolds, Supports
  <2> QED
      BY <2>1 DEF OwedOf
<1>5. CASE promised' = promised
      BY <1>1, <1>2, <1>5, OwedStays
<1>6. CASE promised' = [promised EXCEPT ![k] = PromisedBy(op)]
  <2>1. promised'[k] = PromisedBy(op) /\ \A l \in Key \ {k} : promised'[l] = promised[l]
        BY <1>3, <1>6 DEF Evidence
  <2>2. now < Expiration(op) /\ Expiration(op) \in Nat
        BY <1>1, ExpirationIs
  <2>3. (OwedOf(promised[k]))' = IF undone THEN "free" ELSE "started"
        BY <1>1, <1>2, <1>3, <2>1, <2>2, PromisedByIs DEF OwedOf, Owed
  <2>4. owed' = [owed EXCEPT ![k] = IF undone THEN "free" ELSE "started"]
        BY <1>1, <1>2, <2>1, <2>3, OwedMoves
  <2>5. owed[k] = "free" /\ owed = [owed EXCEPT ![k] = owed[k]]
        BY <1>4 DEF owed
  <2> HIDE DEF owed
  <2>6. CASE undone
        BY <2>4, <2>5, <2>6
  <2>7. CASE ~undone
    <3>1. owed' = [owed EXCEPT ![k] = "started"]
          BY <2>4, <2>7
    <3> QED
        BY <2>5, <3>1 DEF Promise!Start, owed, OwedOf, Owed
  <2> QED
      BY <2>6, <2>7
<1> QED
    BY <1>2, <1>5, <1>6

LEMMA CompleteRefines ==
  ASSUME IInv, NEW k \in Key, NEW r \in Request, Complete(k, r)
  PROVE  owed' = owed \/ Promise!Finish(k)
<1> DEFINE op == [request |-> r, state |-> "completed", at |-> now]
<1>1. /\ phase = "open" /\ now' = now /\ op \in Stored /\ op.state = "completed"
      /\ op.at = now /\ <<k, r>> \in running
      /\ inner.operations[k] # None /\ inner.operations[k].state = "accepted"
      /\ undone' = undone
      BY DEF Complete, IInv, TypeOK, Stored, States, Return, Interrupt
<1>2. promised' = LimitedBy(op, k) \/ promised' = [promised EXCEPT ![k] = PromisedBy(op)]
      BY DEF Complete, PromisedBy, LimitedBy
<1> HIDE DEF op
<1>3. /\ promised \in Evidence /\ now \in Nat /\ promised[k] # None
      /\ MemoryHolds(promised, inner.operations)
      BY <1>1, ReadyIs DEF IInv, OpenIsSound
<1>4. promised[k] \in Promised /\ promised[k].until \in Nat
      /\ promised[k].op.state \in {"accepted", "completed"}
      BY <1>3 DEF Evidence, Promised, Stored, States
<1>5. now < Expiration(op) /\ Expiration(op) \in Nat
      BY <1>1, ExpirationIs
<1>6. OwedOf(promised[k]) \in {"free", "started"}
  <2>1. Supports(promised[k], inner.operations[k])
        BY <1>3 DEF MemoryHolds
  <2>2. Owed(promised[k]) => promised[k].op.state # "completed"
        BY <1>1, <1>3, <2>1 DEF Supports
  <2> QED
      BY <1>3, <1>4, <2>2 DEF OwedOf
<1>7. CASE promised' = LimitedBy(op, k)
  <2>1. /\ promised'[k] # None /\ promised'[k].op = promised[k].op
        /\ promised'[k].until <= promised[k].until
        /\ promised'[k].until \in {promised[k].until, Expiration(op)}
        /\ \A l \in Key \ {k} : promised'[l] = promised[l]
        BY <1>1, <1>3, <1>7, LimitedIs
  <2>2. (OwedOf(promised[k]))' = OwedOf(promised[k])
        BY <1>1, <1>3, <1>4, <1>5, <2>1 DEF OwedOf, Owed
  <2>3. owed' = [owed EXCEPT ![k] = OwedOf(promised[k])]
        BY <1>1, <2>1, <2>2, OwedMoves
  <2> QED
      BY <2>3 DEF owed
<1>8. CASE promised' = [promised EXCEPT ![k] = PromisedBy(op)]
  <2>1. promised'[k] = PromisedBy(op) /\ \A l \in Key \ {k} : promised'[l] = promised[l]
        BY <1>3, <1>8 DEF Evidence
  <2>2. (OwedOf(promised[k]))' = IF undone THEN "free" ELSE "completed"
        BY <1>1, <1>3, <1>5, <2>1, PromisedByIs DEF OwedOf, Owed
  <2>3. owed' = [owed EXCEPT ![k] = IF undone THEN "free" ELSE "completed"]
        BY <1>1, <2>1, <2>2, OwedMoves
  <2>4. /\ owed[k] \in {"free", "started"} /\ owed = [owed EXCEPT ![k] = owed[k]]
        /\ undone => owed[k] = "free"
        BY <1>6 DEF owed, OwedOf, Owed
  <2> HIDE DEF owed
  <2>5. CASE undone
        BY <2>3, <2>4, <2>5
  <2>6. CASE ~undone
    <3>1. owed' = [owed EXCEPT ![k] = "completed"]
          BY <2>3, <2>6
    <3> QED
        BY <2>4, <3>1 DEF Promise!Finish, owed, OwedOf, Owed
  <2> QED
      BY <2>5, <2>6
<1> QED
    BY <1>2, <1>7, <1>8

LEMMA TickRefines ==
  ASSUME IInv, Tick
  PROVE  Promise!Next
<1>1. /\ now' = now + 1 /\ promised' = promised /\ now \in Nat /\ promised \in Evidence
      /\ undone' = undone
      BY DEF Tick, IInv, TypeOK, Evidence
<1> DEFINE S == {k \in Key : (OwedOf(promised[k]))' = "free"}
<1>2. ASSUME NEW k \in Key
      PROVE  (OwedOf(promised[k]))' \in {"free", OwedOf(promised[k])}
  <2>1. promised[k] # None => promised[k].until \in Nat
        BY <1>1 DEF Evidence, Promised
  <2> QED
      BY <1>1, <2>1 DEF OwedOf, Owed
<1>3. owed' = [k \in Key |-> IF k \in S THEN "free" ELSE owed[k]]
  <2>1. /\ \A k \in Key : owed'[k] = (OwedOf(promised[k]))' /\ owed[k] = OwedOf(promised[k])
        /\ owed' = [k \in Key |-> owed'[k]]
        BY DEF owed
  <2> HIDE DEF owed
  <2> QED
      BY <1>2, <2>1
<1>4. S \in SUBSET Key
      OBVIOUS
<1> HIDE DEF S
<1> QED
    BY <1>3, <1>4 DEF Promise!Next, Promise!Expire, owed, OwedOf, Owed

LEMMA StepRefines ==
  ASSUME IInv, [Next]_vars
  PROVE  [Promise!Next]_owed
<1>1. ASSUME NEW k \in Key, NEW r \in Request, Begin(k, r)
      PROVE  [Promise!Next]_owed
      BY <1>1, BeginRefines DEF Promise!Next
<1>2. ASSUME NEW k \in Key, NEW r \in Request, Complete(k, r)
      PROVE  [Promise!Next]_owed
      BY <1>2, CompleteRefines DEF Promise!Next
<1>3. CASE Tick
      BY <1>3, TickRefines
<1>4. CASE now' = now /\ promised' = promised /\ undone' = undone
      BY <1>4, OwedStays
<1>5. CASE LoseRename
  <2>1. owed' = [k \in Key |-> IF k \in Key THEN "free" ELSE owed[k]]
        BY <1>5 DEF LoseRename, owed, OwedOf, Owed
  <2> QED
      BY <2>1 DEF Promise!Next, Promise!Expire, owed, OwedOf, Owed
<1>6. \/ now' = now /\ promised' = promised /\ undone' = undone
      \/ Tick \/ LoseRename
      \/ \E k \in Key, r \in Request : Begin(k, r) \/ Complete(k, r)
      BY DEF Next, Open, Refuse, CompleteWithoutRecord, Consult, Crash, PowerLoss,
             Return, Interrupt, vars
<1> QED
    BY <1>1, <1>2, <1>3, <1>4, <1>5, <1>6

\* The ledger implements AtMostOnce: begin reports Started only for a key that
\* owes nothing, and what is owed ends with its retention and with nothing else,
\* across crashes, power losses and I/O errors; only a power loss that undoes a
\* rename, possible where sync_directory does nothing, ends it too.
THEOREM ImplementsAtMostOnce == Spec => StartsAtMostOnce
<1>1. Init => Promise!Init
      BY DEF Init, Promise!Init, Nothing, Owed
<1>2. IInv /\ [Next]_vars => [Promise!Next]_owed
      BY StepRefines
<1> QED
    BY Invariance, <1>1, <1>2, PTL
       DEF Spec, StartsAtMostOnce, Promise!Spec, owed, OwedOf, Owed

=============================================================================
