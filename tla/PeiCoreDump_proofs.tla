-------------------------- MODULE PeiCoreDump_proofs --------------------------
(***************************************************************************)
(* What PeiCoreDumpApp prints is what the PEI core held, for any number of *)
(* volumes, images, PPIs and notifications, and any limit of a HOB.        *)
(***************************************************************************)
EXTENDS PeiCoreDump, Sublists_proofs

USE WidthAssumption

Files == UNION {ToSet(volume) : volume \in Volumes}

(***************************************************************************)
(* Counts and sizes                                                        *)
(***************************************************************************)

LEMMA ListsAre ==
  /\ Len(Lists) = 3 /\ DOMAIN Lists = 1 .. 3
  /\ Lists[1] = "PpiList" /\ Lists[2] = "CallbackNotifyList" /\ Lists[3] = "DispatchNotifyList"
  /\ ToSet(Lists) = {"PpiList", "CallbackNotifyList", "DispatchNotifyList"}
<1>1. Len(Lists) = 3 /\ DOMAIN Lists = 1 .. 3
  BY DEF Lists
<1>2. Lists[1] = "PpiList" /\ Lists[2] = "CallbackNotifyList" /\ Lists[3] = "DispatchNotifyList"
  BY DEF Lists
<1>3. 1 .. 3 = {1, 2, 3}
  OBVIOUS
<1> QED
  BY <1>1, <1>2, <1>3 DEF ToSet

LEMMA VolumesTyped ==
  /\ \A volume \in Volumes : volume \in Seq(Files)
  /\ ZeroGuid \notin Files
<1>1. ASSUME NEW volume \in Volumes PROVE volume \in Seq(Files)
  <2>1. volume \in Seq(ToSet(volume))
    BY VolumesAssumption
  <2>2. ToSet(volume) \subseteq Files
    BY DEF Files
  <2> QED
    BY <2>1, <2>2
<1>2. ZeroGuid \notin Files
  BY VolumesAssumption DEF Files
<1> QED
  BY <1>1, <1>2

LEMMA PeimsFit ==
  ASSUME NEW volume \in Volumes
  PROVE  Peims(volume) \in Seq(Files) /\ Len(Peims(volume)) <= Len(volume)
<1>1. volume \in Seq(Files) /\ Len(volume) \in Nat
  BY VolumesTyped
<1> DEFINE missing == {i \in 1 .. Len(volume) : volume[i] = NULL}
<1>2. CASE missing = {}
  BY <1>1, <1>2 DEF Peims
<1>3. CASE missing # {}
  <2>1. missing \in SUBSET Nat
    OBVIOUS
  <2> DEFINE m == Min(missing)
  <2>2. m \in missing
    BY <1>3, <2>1, MinOf
  <2>3. m \in 1 .. Len(volume) /\ m - 1 \in 0 .. Len(volume)
    BY <1>1, <2>2
  <2>4. Peims(volume) = SubSeq(volume, 1, m - 1)
    BY <1>3 DEF Peims
  <2> HIDE DEF m
  <2> QED
    BY <1>1, <2>3, <2>4, SubSeqProperties
<1> QED
  BY <1>2, <1>3

(* The images that are dumped are counted, and have names.                  *)
LEMMA ImagesFit ==
  ASSUME NEW c \in Instances, NEW memory \in BOOLEAN
  PROVE  /\ CalcTotalPeimCount(c) \in Nat
         /\ DumpImageData(c, memory) \in Seq(Files)
         /\ Len(DumpImageData(c, memory)) <= CalcTotalPeimCount(c)
<1> DEFINE L == Len(c.Fv)
           most == [i \in 1 .. L |-> Len(c.Fv[i])]
           seqs == [i \in 1 .. L |-> Peims(c.Fv[i])]
<1>1. L \in Nat /\ \A i \in 1 .. L : c.Fv[i] \in Volumes /\ c.Fv[i] \in Seq(Files)
  BY VolumesTyped DEF Instances
<1>2. most \in Seq(Nat) /\ Len(most) = L
  BY <1>1
<1>3. seqs \in Seq(Seq(Files)) /\ Len(seqs) = L
  BY <1>1, PeimsFit
<1>4. \A i \in 1 .. L : Len(seqs[i]) <= most[i]
  BY <1>1, PeimsFit
<1>5. CalcTotalPeimCount(c) = Total(most)
  BY DEF CalcTotalPeimCount
<1>6. DumpImageData(c, memory) = IF memory THEN FlattenSeq(seqs) ELSE <<>>
  BY DEF DumpImageData
<1> HIDE DEF most, seqs, L
<1>7. Total(most) \in Nat
  BY <1>2, TotalUpToThree
<1>8. CASE memory /\ L # 0
  <2>1. FlattenSeq(seqs) \in Seq(Files)
    BY <1>3, <1>8, FlattenMembers
  <2>2. Len(FlattenSeq(seqs)) <= Total(most)
    BY <1>2, <1>3, <1>4, <1>8, FlattenFits
  <2> QED
    BY <1>5, <1>6, <1>7, <1>8, <2>1, <2>2
<1>9. CASE ~ memory \/ L = 0
  <2>1. L = 0 => FlattenSeq(seqs) = seqs /\ seqs = <<>>
    BY <1>3 DEF FlattenSeq
  <2>2. DumpImageData(c, memory) = <<>>
    BY <1>6, <1>9, <2>1
  <2> QED
    BY <1>5, <1>7, <2>2
<1> QED
  BY <1>8, <1>9

LEMMA PpisCounted ==
  ASSUME NEW c \in Instances
  PROVE  /\ \A k \in 1 .. 3 : c.PpiData[Lists[k]] \in Seq(PpiEntries)
         /\ CalcTotalPpiDataCount(c) \in Nat
<1>1. ASSUME NEW k \in 1 .. 3 PROVE c.PpiData[Lists[k]] \in Seq(PpiEntries)
  BY ListsAre DEF Instances
<1> DEFINE s == [k \in 1 .. Len(Lists) |-> Len(c.PpiData[Lists[k]])]
<1>2. s \in Seq(Nat)
  BY <1>1, ListsAre, SMTT(40)
<1>3. Total(s) \in Nat
  <2> HIDE DEF s
  <2> QED
    BY <1>2, TotalUpToThree
<1> QED
  BY <1>1, <1>3 DEF CalcTotalPpiDataCount

(* The sizes of the parts of the database.                                  *)
LEMMA Sizes ==
  ASSUME NEW c \in Instances
  PROVE  /\ ImageDatabaseSize(c) = CalcTotalPeimCount(c) * 132
         /\ ImageDatabaseSize(c) \in Nat
         /\ PpiDatabaseSize(c) \in Nat /\ PpiDatabaseSize(c) >= 76
         /\ DatabaseSize(c) = ImageDatabaseSize(c) + PpiDatabaseSize(c) + 36
<1>1. CalcTotalPeimCount(c) \in Nat /\ CalcTotalPpiDataCount(c) \in Nat
  BY ImagesFit, PpisCounted
<1> QED
  BY <1>1 DEF ImageDatabaseSize, PpiDatabaseSize, DatabaseSize, sizeof

(* Rounded up to 8, the HOB is at most 7 bytes longer than the data; and if *)
(* the limit is not reached, it holds the data.                             *)
LEMMA HobSize ==
  ASSUME NEW c \in Instances
  PROVE  /\ DataSize(HobLength(c)) \in Int
         /\ DataSize(HobLength(c)) <= DatabaseSize(c) + 7
         /\ 24 + DatabaseSize(c) < HobLengths => DataSize(HobLength(c)) >= DatabaseSize(c)
<1> DEFINE d == 24 + DatabaseSize(c)
           h == HobLength(c)
<1>1. d \in Nat /\ DatabaseSize(c) \in Nat
  BY Sizes
<1>2. h = d % HobLengths
  BY DEF HobLength, sizeof
<1>3. h \in Nat /\ h <= d /\ (d < HobLengths => h = d)
  <2> HIDE DEF d, h
  <2> QED
    BY <1>1, <1>2
<1>4. DataSize(h) = ((h + 7) \div 8) * 8 - 24
  BY DEF DataSize, sizeof
<1>5. ((h + 7) \div 8) * 8 \in Nat /\ ((h + 7) \div 8) * 8 <= h + 7 /\ ((h + 7) \div 8) * 8 >= h
  <2> HIDE DEF h
  <2> QED
    BY <1>3
<1> DEFINE r == ((h + 7) \div 8) * 8
<1>6. r \in Nat /\ r <= h + 7 /\ r >= h /\ DataSize(h) = r - 24
  BY <1>4, <1>5
<1> HIDE DEF h, r
<1>7. /\ DataSize(h) \in Int
      /\ DataSize(h) <= DatabaseSize(c) + 7
      /\ 24 + DatabaseSize(c) < HobLengths => DataSize(h) >= DatabaseSize(c)
  BY <1>1, <1>3, <1>6
<1> QED
  BY <1>7 DEF h

(***************************************************************************)
(* The data of the HOB                                                     *)
(***************************************************************************)

(* What BuildPeiCoreDatabase puts where.                                    *)
LEMMA HobData ==
  ASSUME NEW c \in Instances, NEW images
  PROVE  LET h == BuildPeiCoreDatabase(c, images)
             n == CalcTotalPeimCount(c)
             memory == ImageDatabaseSize(c) + PpiDatabaseSize(c)
         IN /\ h.size = DataSize(HobLength(c))
            /\ DOMAIN h.data = {Place(i) : i \in 0 .. n} \cup {memory}
            /\ \A i \in 0 .. n - 1 :
                 h.data[Place(i)] = BuildImageDatabaseData(c, images)[i + 1]
            /\ h.data[Place(n)] = BuildPpiDatabaseData(c, images)
            /\ h.data[memory] = BuildMemoryInfoData
<1> DEFINE h == BuildPeiCoreDatabase(c, images)
           n == CalcTotalPeimCount(c)
           ppis == ImageDatabaseSize(c)
           memory == ppis + PpiDatabaseSize(c)
           all == BuildImageDatabaseData(c, images)
           db == BuildPpiDatabaseData(c, images)
           dom == {(i - 1) * sizeof.IMAGE : i \in 1 .. n} \cup {ppis, memory}
           at(o) == CASE o < ppis -> all[o \div sizeof.IMAGE + 1]
                      [] o = ppis -> db
                      [] OTHER -> BuildMemoryInfoData
<1>1. /\ n \in Nat /\ ppis = n * 132 /\ ppis \in Nat
      /\ memory \in Nat /\ memory > ppis
  <2>1. n \in Nat
    BY ImagesFit
  <2>2. ppis = n * 132 /\ ppis \in Nat /\ PpiDatabaseSize(c) \in Nat /\ PpiDatabaseSize(c) >= 76
    BY Sizes
  <2> QED
    BY <2>1, <2>2
<1>2. sizeof.IMAGE = 132 /\ \A i \in Int : Place(i) = i * 132
  BY DEF sizeof, Place
<1>3. h.size = DataSize(HobLength(c)) /\ h.data = [o \in dom |-> at(o)]
  BY DEF BuildPeiCoreDatabase
<1> HIDE DEF h, all, db
<1>4. dom = {Place(i) : i \in 0 .. n} \cup {memory}
  <2> HIDE DEF n, ppis, memory
  <2>1. ASSUME NEW o \in dom PROVE o \in {Place(i) : i \in 0 .. n} \cup {memory}
    <3>1. CASE \E i \in 1 .. n : o = (i - 1) * sizeof.IMAGE
      <4>1. PICK i \in 1 .. n : o = (i - 1) * sizeof.IMAGE
        BY <3>1
      <4>2. i - 1 \in 0 .. n /\ o = Place(i - 1)
        BY <1>1, <1>2, <4>1
      <4> QED
        BY <4>2
    <3>2. CASE o = ppis
      BY <1>1, <1>2, <3>2
    <3> QED
      BY <2>1, <3>1, <3>2
  <2>2. ASSUME NEW i \in 0 .. n PROVE Place(i) \in dom
    <3>1. CASE i = n
      BY <1>1, <1>2, <3>1
    <3>2. CASE i # n
      <4>1. i + 1 \in 1 .. n /\ Place(i) = ((i + 1) - 1) * sizeof.IMAGE
        BY <1>1, <1>2, <3>2
      <4> QED
        BY <4>1
    <3> QED
      BY <3>1, <3>2
  <2> QED
    BY <2>1, <2>2
<1>5. ASSUME NEW i \in 0 .. n - 1 PROVE h.data[Place(i)] = all[i + 1]
  <2> HIDE DEF n, ppis, memory
  <2>1. Place(i) = i * 132 /\ Place(i) < ppis /\ Place(i) \in dom /\ i \in Nat
    <3>1. i \in 0 .. n
      BY <1>1
    <3> HIDE DEF dom
    <3> QED
      BY <1>1, <1>2, <1>4, <3>1
  <2>2. (i * 132) \div 132 = i
    BY <2>1
  <2>3. Place(i) \div sizeof.IMAGE + 1 = i + 1
    BY <1>2, <2>1, <2>2
  <2> HIDE DEF dom
  <2> QED
    BY <1>3, <2>1, <2>3
<1>6. h.data[Place(n)] = db
  BY <1>1, <1>2, <1>3
<1>7. h.data[memory] = BuildMemoryInfoData
  BY <1>1, <1>3, SMTT(40)
<1> HIDE DEF dom
<1> QED
  BY <1>3, <1>4, <1>5, <1>6, <1>7 DEF h, all, db

(* The structures are found in the PPI database at the counts before them.  *)
LEMMA PpisFound ==
  ASSUME NEW c \in Instances, NEW images, NEW k \in 1 .. 3,
         NEW i \in 1 .. Len(c.PpiData[Lists[k]])
  PROVE  LET db == BuildPpiDatabaseData(c, images)
         IN db.PpiStructure[Before(db, k) + i]
              = BuildPpiData(c.PpiData[Lists[k]], images)[i]
<1> DEFINE db == BuildPpiDatabaseData(c, images)
           list(j) == BuildPpiData(c.PpiData[Lists[j]], images)
           n(j) == Len(c.PpiData[Lists[j]])
           S == UNION {ToSet(list(j)) : j \in 1 .. 3}
           counts == [j \in 1 .. k - 1 |-> db.Count[Lists[j]]]
           seqs == [j \in 1 .. 3 |-> list(j)]
<1>1. \A j \in 1 .. 3 : n(j) \in Nat /\ db.Count[Lists[j]] = n(j)
  BY PpisCounted, ListsAre, SMTT(40) DEF BuildPpiDatabaseData
<1>2. \A j \in 1 .. 3 : list(j) = [m \in 1 .. n(j) |-> list(j)[m]] /\ DOMAIN list(j) = 1 .. n(j)
  BY DEF BuildPpiData
<1>3. \A j \in 1 .. 3 : list(j) \in Seq(S) /\ Len(list(j)) = n(j)
  <2>1. ASSUME NEW j \in 1 .. 3 PROVE list(j) \in Seq(S) /\ Len(list(j)) = n(j)
    <3>1. \A m \in 1 .. n(j) : list(j)[m] \in S
      BY <1>2, SMTT(40) DEF ToSet
    <3> HIDE DEF list, n, S
    <3>2. list(j) \in [1 .. n(j) -> S]
      BY <1>2, <3>1
    <3> QED
      BY <1>1, <3>2, SMTT(40)
  <2> QED
    BY <2>1
<1>4. db.PpiStructure = FlattenSeq(seqs) /\ Before(db, k) = Total(counts)
  BY ListsAre DEF BuildPpiDatabaseData, PpiStructures, Before
<1> HIDE DEF list, n, S, db
<1>5. FlattenSeq(seqs) = (list(1) \o list(2)) \o list(3)
  <2>1. seqs \in Seq(Seq(S)) /\ Len(seqs) = 3
    BY <1>3
  <2>2. seqs[1] = list(1) /\ seqs[2] = list(2) /\ seqs[3] = list(3)
    OBVIOUS
  <2> HIDE DEF seqs
  <2> QED
    BY <2>1, <2>2, FlattenThree
<1>6. Total(counts) = IF k = 1 THEN 0 ELSE IF k = 2 THEN n(1) ELSE n(1) + n(2)
  <2>1. counts \in Seq(Nat) /\ Len(counts) = k - 1
    BY <1>1
  <2>2. (k > 1 => counts[1] = n(1)) /\ (k > 2 => counts[2] = n(2))
    BY <1>1
  <2> DEFINE t == Total(counts)
             L == Len(counts)
  <2>3. L = k - 1 /\ (L = 0 => t = 0) /\ (L = 1 => t = counts[1]) /\ (L = 2 => t = counts[1] + counts[2])
    <3> HIDE DEF counts
    <3> QED
      BY <2>1, TotalUpToThree
  <2> HIDE DEF counts, t, L
  <2>4. t = IF k = 1 THEN 0 ELSE IF k = 2 THEN n(1) ELSE n(1) + n(2)
    BY <2>2, <2>3
  <2> QED
    BY <2>4 DEF t
<1>7. i \in 1 .. n(k)
  BY DEF n
<1>8. ((list(1) \o list(2)) \o list(3))[Total(counts) + i] = list(k)[i]
  <2> DEFINE front == list(1) \o list(2)
             t == Total(counts)
  <2>1. /\ n(1) \in Nat /\ n(2) \in Nat /\ n(3) \in Nat
        /\ list(1) \in Seq(S) /\ list(2) \in Seq(S) /\ list(3) \in Seq(S)
        /\ Len(list(1)) = n(1) /\ Len(list(2)) = n(2) /\ Len(list(3)) = n(3)
    BY <1>1, <1>3
  <2>2. /\ front \in Seq(S) /\ Len(front) = n(1) + n(2)
        /\ \A m \in 1 .. n(1) + n(2) :
             front[m] = IF m <= n(1) THEN list(1)[m] ELSE list(2)[m - n(1)]
    <3>1. /\ front \in Seq(S) /\ Len(front) = Len(list(1)) + Len(list(2))
          /\ \A m \in 1 .. Len(list(1)) + Len(list(2)) :
               front[m] = IF m <= Len(list(1)) THEN list(1)[m] ELSE list(2)[m - Len(list(1))]
      BY ONLY <2>1, ConcatProperties
    <3> HIDE DEF front
    <3> QED
      BY ONLY <2>1, <3>1
  <2> HIDE DEF front
  <2>3. \A m \in 1 .. n(1) + n(2) + n(3) :
          (front \o list(3))[m]
            = IF m <= n(1) + n(2) THEN front[m] ELSE list(3)[m - (n(1) + n(2))]
    <3>1. \A m \in 1 .. Len(front) + Len(list(3)) :
            (front \o list(3))[m]
              = IF m <= Len(front) THEN front[m] ELSE list(3)[m - Len(front)]
      BY ONLY <2>1, <2>2, ConcatProperties
    <3> QED
      BY ONLY <2>1, <2>2, <3>1
  <2> HIDE DEF t
  <2>4. t = IF k = 1 THEN 0 ELSE IF k = 2 THEN n(1) ELSE n(1) + n(2)
    BY <1>6 DEF t
  <2>5. (front \o list(3))[t + i] = list(k)[i]
    <3>1. CASE k = 1
      <4>1. i \in 1 .. n(1) /\ i \in 1 .. n(1) + n(2) /\ i \in 1 .. n(1) + n(2) + n(3) /\ t + i = i
        BY <1>7, <2>1, <2>4, <3>1
      <4> QED
        BY <2>2, <2>3, <3>1, <4>1
    <3>2. CASE k = 2
      <4>1. /\ t + i \in 1 .. n(1) + n(2) /\ t + i \in 1 .. n(1) + n(2) + n(3)
            /\ ~ (t + i <= n(1)) /\ (t + i) - n(1) = i
        BY <1>7, <2>1, <2>4, <3>2, SMTT(40)
      <4> QED
        BY <2>2, <2>3, <3>2, <4>1
    <3>3. CASE k = 3
      <4>1. t = n(1) + n(2) /\ i \in 1 .. n(3)
        BY <1>7, <2>4, <3>3
      <4>2. \A a, b \in Nat : \A m \in 1 .. b :
              a + m \in 1 .. a + b /\ ~ (a + m <= a) /\ (a + m) - a = m
        OBVIOUS
      <4>3. t \in Nat /\ n(1) + n(2) + n(3) = t + n(3)
        BY <2>1, <4>1, SMTT(40)
      <4>4. t + i \in 1 .. t + n(3) /\ ~ (t + i <= t) /\ (t + i) - t = i
        BY ONLY <2>1, <4>1, <4>2, <4>3, ZenonT(60)
      <4>5. (front \o list(3))[t + i]
              = IF t + i <= t THEN front[t + i] ELSE list(3)[(t + i) - t]
        BY ONLY <2>3, <4>1, <4>3, <4>4
      <4>6. (front \o list(3))[t + i] = list(3)[i]
        BY ONLY <4>4, <4>5
      <4>7. list(k) = list(3)
        BY <3>3
      <4> QED
        BY ONLY <4>6, <4>7
    <3>4. k = 1 \/ k = 2 \/ k = 3
      OBVIOUS
    <3> QED
      BY ONLY <3>1, <3>2, <3>3, <3>4
  <2> QED
    BY <2>5 DEF front, t
<1> QED
  BY <1>4, <1>5, <1>8, ZenonT(60) DEF db, list

(* What the application prints of the PPI database is what the core held.   *)
LEMMA PpisPrinted ==
  ASSUME atDump \in Instances, NEW images
  PROVE  DumpPpiOnPpiDatabaseStruct(BuildPpiDatabaseData(atDump, images))
           = [printed EXCEPT !.ppis = Ppis]
<1> DEFINE db == BuildPpiDatabaseData(atDump, images)
           list(k) == atDump.PpiData[Lists[k]]
           ptrs(k) == DumpPpiPtrsOnPpiDatabaseStruct(db, k)
           shown(l) == {Printed(l, i, atDump.PpiData[l][i]) : i \in 1 .. Len(atDump.PpiData[l])}
<1>1. ASSUME NEW k \in 1 .. 3 PROVE ptrs(k) = shown(Lists[k])
  <2>1. db.Count[Lists[k]] = Len(list(k))
    BY ListsAre DEF BuildPpiDatabaseData
  <2>2. ASSUME NEW i \in 1 .. Len(list(k))
        PROVE  /\ db.PpiStructure[Before(db, k) + i].Ppi = list(k)[i]
               /\ GetImageRefName(db.PpiStructure[Before(db, k) + i].ImageRef) = "???"
    <3>1. db.PpiStructure[Before(db, k) + i] = BuildPpiData(list(k), images)[i]
      BY PpisFound
    <3>2. BuildPpiData(list(k), images)[i].Ppi = list(k)[i]
      BY DEF BuildPpiData
    <3>3. \A ref : GetImageRefName(ref) = "???"
      BY DEF GetImageRefName, mImageStructCountMax
    <3> QED
      BY <3>1, <3>2, <3>3
  <2> DEFINE ptr(i) == [list |-> Lists[k], index |-> i - 1,
                        ppi |-> db.PpiStructure[Before(db, k) + i].Ppi,
                        name |-> GetImageRefName(db.PpiStructure[Before(db, k) + i].ImageRef)]
  <2>3. ptrs(k) = {ptr(i) : i \in 1 .. db.Count[Lists[k]]}
    BY DEF DumpPpiPtrsOnPpiDatabaseStruct
  <2>4. \A i \in 1 .. Len(list(k)) : ptr(i) = Printed(Lists[k], i, list(k)[i])
    BY <2>2 DEF Printed
  <2> HIDE DEF ptr, ptrs, db
  <2> QED
    BY <2>1, <2>3, <2>4
<1>2. DumpPpiOnPpiDatabaseStruct(db) = [printed EXCEPT !.ppis = UNION {ptrs(k) : k \in 1 .. 3}]
  BY ListsAre DEF DumpPpiOnPpiDatabaseStruct
<1>3. Ppis = UNION {shown(l) : l \in ToSet(Lists)}
  BY DEF Ppis
<1>4. ToSet(Lists) = {Lists[k] : k \in 1 .. 3}
  BY ListsAre DEF ToSet
<1> HIDE DEF ptrs, shown
<1>5. UNION {ptrs(k) : k \in 1 .. 3} = UNION {shown(l) : l \in ToSet(Lists)}
  BY <1>1, <1>4
<1> QED
  BY <1>2, <1>3, <1>5

(***************************************************************************)
(* The steps of the PEI core                                               *)
(***************************************************************************)

LEMMA PassesAre ==
  /\ Len(Passes) = 3
  /\ Passes[1] = "images" /\ Passes[2] = "ppis" /\ Passes[3] = "memory"
BY DEF Passes

(* The initial states satisfy the inductive invariant.                      *)
LEMMA InitIInv == Init => IInv
<1> SUFFICES ASSUME Init PROVE IInv
  OBVIOUS
<1>1. TypeOK
  <2>1. Fv \in Seq(Volumes) /\ PpiData \in [ToSet(Lists) -> Seq(PpiEntries)]
    BY DEF Init
  <2>2. Instance \in Instances
    BY <2>1 DEF Instance, Instances
  <2>3. pass \in 1 .. Len(Passes)
    BY PassesAre DEF Init
  <2>4. allocated \in BOOLEAN /\ pc = "pei"
    BY DEF Init
  <2> QED
    BY <2>2, <2>3, <2>4 DEF TypeOK
<1> QED
  BY <1>1 DEF Init, IInv, HobIsBuilt, NothingYet, WalkSoFar, DumpIsCore

(* What a PEIM installs keeps the lists of their types.                     *)
LEMMA ChangesTyped ==
  ASSUME Instance \in Instances, NEW ppis, ppis \in Changes
  PROVE  ppis \in [ToSet(Lists) -> Seq(PpiEntries)]
<1>1. PpiData \in [ToSet(Lists) -> Seq(PpiEntries)] /\ Entries \subseteq PpiEntries
  BY DEF Instance, Instances, PpiEntries
<1>2. CASE \E l \in ToSet(Lists), e \in Entries \ Known : ppis = Add(l, e)
  <2>1. PICK l \in ToSet(Lists), e \in Entries : ppis = Add(l, e)
    BY <1>2
  <2>2. Append(PpiData[l], e) \in Seq(PpiEntries)
    BY <1>1
  <2> QED
    BY <1>1, <2>1, <2>2 DEF Add
<1>3. CASE \E i \in DOMAIN PpiData["PpiList"], e \in Entries :
              ppis = [PpiData EXCEPT !["PpiList"][i] = e]
  <2>1. PICK i \in DOMAIN PpiData["PpiList"], e \in Entries :
          ppis = [PpiData EXCEPT !["PpiList"][i] = e]
    BY <1>3
  <2>2. PpiData["PpiList"] \in Seq(PpiEntries) /\ e \in PpiEntries
    BY <1>1, ListsAre
  <2>3. [PpiData["PpiList"] EXCEPT ![i] = e] \in Seq(PpiEntries)
    BY <2>1, <2>2
  <2> QED
    BY <1>1, <2>1, <2>3
<1> QED
  BY <1>2, <1>3 DEF Changes

(* Before the callback nothing but the core's own lists changes.            *)
LEMMA CoreStep ==
  ASSUME IInv, UNCHANGED <<dump, app>>,
         pc \in {"pei", "callbacks"}, pc' \in {"pei", "callbacks", "shell"},
         Fv' \in Seq(Volumes), PpiData' \in [ToSet(Lists) -> Seq(PpiEntries)]
  PROVE  IInv'
<1> USE DEF dump, app
<1>1. TypeOK'
  BY DEF IInv, TypeOK, Instance, Instances
<1>2. HobIsBuilt' /\ NothingYet' /\ WalkSoFar' /\ DumpIsCore'
  <2>1. hob' = hob /\ atDump' = atDump /\ allocated' = allocated /\ offset' = offset
        /\ printed' = printed /\ pass' = pass /\ Images' = Images
    BY DEF Images
  <2> QED
    BY <2>1 DEF IInv, HobIsBuilt, NothingYet, WalkSoFar, DumpIsCore
<1> QED
  BY <1>1, <1>2 DEF IInv

LEMMA CoreSteps ==
  ASSUME IInv,
         FindFv \/ Peim \/ PeiCoreDumpEntrypoint \/ EndOfPeiSignal \/ OtherCallback \/ Boot
  PROVE  IInv'
<1>1. Instance \in Instances /\ Fv \in Seq(Volumes)
      /\ PpiData \in [ToSet(Lists) -> Seq(PpiEntries)]
  BY DEF IInv, TypeOK, Instance, Instances
<1>2. ASSUME NEW l \in ToSet(Lists), NEW e \in PpiEntries
      PROVE  Add(l, e) \in [ToSet(Lists) -> Seq(PpiEntries)]
  <2>1. Append(PpiData[l], e) \in Seq(PpiEntries)
    BY <1>1
  <2> QED
    BY <1>1, <2>1 DEF Add
<1>3. CASE FindFv
  <2>1. Fv' \in Seq(Volumes)
    BY <1>1, <1>3 DEF FindFv
  <2> QED
    BY <1>1, <1>3, <2>1, CoreStep DEF FindFv
<1>4. CASE Peim
  BY <1>1, <1>4, ChangesTyped, CoreStep DEF Peim
<1>5. CASE PeiCoreDumpEntrypoint
  BY <1>1, <1>2, <1>5, ListsAre, CoreStep DEF PeiCoreDumpEntrypoint, PpiEntries
<1>6. CASE EndOfPeiSignal
  BY <1>1, <1>2, <1>6, ListsAre, CoreStep DEF EndOfPeiSignal, PpiEntries
<1>7. CASE OtherCallback
  BY <1>1, <1>7, ChangesTyped, CoreStep DEF OtherCallback
<1>8. CASE Boot
  BY <1>1, <1>8, CoreStep DEF Boot, pei
<1> QED
  BY <1>3, <1>4, <1>5, <1>6, <1>7, <1>8

(* The callback.                                                            *)
LEMMA CallbackStep == ASSUME IInv, PeiCoreDumpEndOfPeiCallback PROVE IInv'
<1>1. PICK memory \in BOOLEAN :
        /\ allocated' = memory
        /\ hob' \in {NULL, BuildPeiCoreDatabase(Instance, DumpImageData(Instance, memory))}
  BY DEF PeiCoreDumpEndOfPeiCallback
<1>2. /\ atDump' = Instance /\ Instance \in Instances /\ Instance' = Instance
      /\ pc = "callbacks" /\ pc' \in {"callbacks", "overrun"}
      /\ pass' = pass /\ offset' = offset /\ printed' = printed
      /\ pc' = "overrun" <=> hob' # NULL /\ hob'.size < DatabaseSize(Instance)
  BY DEF PeiCoreDumpEndOfPeiCallback, IInv, TypeOK, pei, app, Instance
<1>3. TypeOK'
  BY <1>1, <1>2 DEF IInv, TypeOK
<1>4. HobIsBuilt'
  <2>1. Images' = DumpImageData(Instance, memory)
    BY <1>1, <1>2 DEF Images
  <2>2. hob' # NULL => hob'.size \in Int
    <3>1. hob' # NULL => hob'.size = DataSize(HobLength(Instance))
      BY <1>1, <1>2, HobData
    <3> QED
      BY <1>2, <3>1, HobSize
  <2>3. DatabaseSize(Instance) \in Int
    BY <1>2, Sizes
  <2> QED
    BY <1>1, <1>2, <2>1, <2>2, <2>3 DEF HobIsBuilt
<1> QED
  BY <1>2, <1>3, <1>4 DEF IInv, NothingYet, WalkSoFar, DumpIsCore

(***************************************************************************)
(* The application's walk                                                  *)
(***************************************************************************)

(* What the walk meets, and where.                                          *)
LEMMA WalkFacts ==
  ASSUME IInv, hob # NULL, pc # "overrun"
  PROVE  LET n == CalcTotalPeimCount(atDump)
             all == DatabaseSize(atDump)
         IN /\ atDump \in Instances /\ n \in Nat
            /\ Images \in Seq(Files) /\ Len(Images) <= n
            /\ hob.size \in Int /\ all <= hob.size /\ hob.size <= all + 7
            /\ \A i \in 0 .. n : Place(i) = i * 132 /\ Place(i) \in Nat
            /\ PpiDatabaseSize(atDump) \in Nat /\ PpiDatabaseSize(atDump) >= 76
            /\ MemoryPlace = Place(n) + PpiDatabaseSize(atDump)
            /\ all = MemoryPlace + 36
            /\ \A i \in 0 .. n - 1 :
                 StructureAt(Place(i))
                   = [Signature |-> "PCID", Length |-> 132,
                      FileGuid |-> IF i + 1 <= Len(Images) THEN Images[i + 1] ELSE ZeroGuid]
            /\ StructureAt(Place(n)) = BuildPpiDatabaseData(atDump, Images)
            /\ StructureAt(MemoryPlace) = [Signature |-> "PCMI", Length |-> 36]
            /\ StructureAt(all) = [Signature |-> "none", Length |-> 65535]
<1> DEFINE n == CalcTotalPeimCount(atDump)
           all == DatabaseSize(atDump)
           images == Images
           p == PpiDatabaseSize(atDump)
<1>1. atDump \in Instances /\ hob = BuildPeiCoreDatabase(atDump, images) /\ all <= hob.size
  BY DEF IInv, HobIsBuilt
<1>2. n \in Nat /\ images \in Seq(Files) /\ Len(images) <= n
  <2>1. allocated \in BOOLEAN
    BY DEF IInv, TypeOK
  <2> QED
    BY <1>1, <2>1, ImagesFit DEF Images
<1>3. /\ ImageDatabaseSize(atDump) = n * 132
      /\ p \in Nat /\ p >= 76
      /\ all = ImageDatabaseSize(atDump) + p + 36
  BY <1>1, Sizes
<1>4. /\ hob.size = DataSize(HobLength(atDump))
      /\ DOMAIN hob.data = {Place(i) : i \in 0 .. n} \cup {MemoryPlace}
      /\ \A i \in 0 .. n - 1 :
           hob.data[Place(i)] = BuildImageDatabaseData(atDump, images)[i + 1]
      /\ hob.data[Place(n)] = BuildPpiDatabaseData(atDump, images)
      /\ hob.data[MemoryPlace] = BuildMemoryInfoData
  BY <1>1, HobData DEF MemoryPlace
<1>5. hob.size \in Int /\ hob.size <= all + 7
  BY <1>1, <1>4, HobSize
<1>6. \A i \in 0 .. n : Place(i) = i * 132 /\ Place(i) \in Nat
  BY <1>2 DEF Place, sizeof
<1> HIDE DEF images, n, all, p
<1>7. /\ MemoryPlace = Place(n) + p /\ all = MemoryPlace + 36
      /\ n \in 0 .. n
  BY <1>2, <1>3, <1>6 DEF MemoryPlace, p
<1>8. ASSUME NEW i \in 0 .. n - 1
      PROVE  StructureAt(Place(i))
               = [Signature |-> "PCID", Length |-> 132,
                  FileGuid |-> IF i + 1 <= Len(images) THEN images[i + 1] ELSE ZeroGuid]
  <2>1. i \in 0 .. n /\ i + 1 \in 1 .. n
    BY <1>2
  <2>2. BuildImageDatabaseData(atDump, images)[i + 1]
          = [Signature |-> "PCID", Length |-> 132,
             FileGuid |-> IF i + 1 <= Len(images) THEN images[i + 1] ELSE ZeroGuid]
    BY <2>1 DEF BuildImageDatabaseData, sizeof, n
  <2> QED
    BY <1>4, <2>1, <2>2 DEF StructureAt
<1>9. StructureAt(Place(n)) = BuildPpiDatabaseData(atDump, images)
  BY <1>4, <1>7 DEF StructureAt
<1>10. StructureAt(MemoryPlace) = [Signature |-> "PCMI", Length |-> 36]
  BY <1>4 DEF StructureAt, BuildMemoryInfoData, sizeof
<1>11. StructureAt(all) = [Signature |-> "none", Length |-> 65535]
  <2>1. all # MemoryPlace
    BY <1>2, <1>3, <1>6, <1>7
  <2>2. ASSUME NEW i \in 0 .. n PROVE all # Place(i)
    BY <1>2, <1>3, <1>6, <1>7
  <2>3. all \notin DOMAIN hob.data
    BY <1>4, <2>1, <2>2
  <2> QED
    BY <2>3 DEF StructureAt, HeaderOfNextHob
<1>12. /\ atDump \in Instances /\ n \in Nat
       /\ images \in Seq(Files) /\ Len(images) <= n
       /\ hob.size \in Int /\ all <= hob.size /\ hob.size <= all + 7
       /\ p \in Nat /\ p >= 76
  BY <1>1, <1>2, <1>3, <1>5
<1> QED
  BY <1>6, <1>7, <1>8, <1>9, <1>10, <1>11, <1>12 DEF images, n, all, p

LEMMA ImageAt ==
  ASSUME IInv, hob # NULL, pc # "overrun", NEW i \in 0 .. CalcTotalPeimCount(atDump) - 1
  PROVE  StructureAt(Place(i))
           = [Signature |-> "PCID", Length |-> 132,
              FileGuid |-> IF i + 1 <= Len(Images) THEN Images[i + 1] ELSE ZeroGuid]
<1>1. \A j \in 0 .. CalcTotalPeimCount(atDump) - 1 :
        StructureAt(Place(j))
          = [Signature |-> "PCID", Length |-> 132,
             FileGuid |-> IF j + 1 <= Len(Images) THEN Images[j + 1] ELSE ZeroGuid]
  BY WalkFacts
<1> QED
  BY ONLY <1>1

(* The start of the application, at the first structure.                    *)
LEMMA EntrypointStep == ASSUME IInv, PeiCoreDumpAppEntrypoint PROVE IInv'
<1> USE DEF PeiCoreDumpAppEntrypoint, pei, dump, app
<1>1. /\ Instance' = Instance /\ Images' = Images /\ hob' = hob /\ atDump' = atDump
      /\ allocated' = allocated /\ pc = "shell" /\ pc' \in {"walk", "done"}
      /\ pass' = 1 /\ offset' = 0 /\ printed' = Report(<<>>, {}, 0)
      /\ pc' = "walk" <=> hob # NULL
  BY DEF Instance, Images, IInv, NothingYet, Report
<1>2. TypeOK' /\ HobIsBuilt' /\ NothingYet' /\ DumpIsCore'
  BY <1>1, PassesAre DEF IInv, TypeOK, HobIsBuilt, NothingYet, DumpIsCore
<1>3. WalkSoFar'
  <2> SUFFICES ASSUME hob # NULL PROVE ImagesSoFar'
    BY <1>1, PassesAre DEF WalkSoFar
  <2>1. CalcTotalPeimCount(atDump) \in Nat /\ Images \in Seq(Files)
    BY <1>1, WalkFacts
  <2>2. Len(Images) \in Nat /\ ImagesBefore(0) = <<>>
    BY <2>1 DEF ImagesBefore
  <2>3. 0 \in 0 .. CalcTotalPeimCount(atDump) /\ Place(0) = 0
    BY <2>1 DEF Place, sizeof
  <2>4. (CalcTotalPeimCount(atDump))' = CalcTotalPeimCount(atDump) /\ ImagesBefore(0)' = ImagesBefore(0)
    BY <1>1 DEF ImagesBefore
  <2> QED
    BY <1>1, <2>2, <2>3, <2>4 DEF ImagesSoFar
<1> QED
  BY <1>2, <1>3 DEF IInv

(* What a step of the walk leaves alone.                                    *)
LEMMA WalkKeeps ==
  ASSUME IInv, Walk \/ NextPass, pc = "walk"
  PROVE  /\ hob' = hob /\ atDump' = atDump /\ Instance' = Instance /\ allocated' = allocated
         /\ Images' = Images /\ Ppis' = Ppis
         /\ hob # NULL /\ HobIsBuilt' /\ TypeOK' /\ NothingYet'
<1> USE DEF pei, dump
<1>1. /\ hob' = hob /\ atDump' = atDump /\ allocated' = allocated
      /\ Fv' = Fv /\ PpiData' = PpiData /\ pc' \in {"walk", "done"}
  BY DEF Walk, NextPass
<1>2. Instance' = Instance /\ Images' = Images /\ Ppis' = Ppis
  BY <1>1 DEF Instance, Images, Ppis
<1>3. pass' \in 1 .. Len(Passes)
  <2>1. CASE Walk
    BY <2>1 DEF Walk, IInv, TypeOK
  <2>2. CASE NextPass
    BY <2>2, PassesAre DEF NextPass, IInv, TypeOK
  <2> QED
    BY <2>1, <2>2
<1>4. TypeOK'
  BY <1>1, <1>2, <1>3 DEF TypeOK, IInv
<1>5. HobIsBuilt' /\ NothingYet' /\ hob # NULL
  BY <1>1, <1>2 DEF HobIsBuilt, NothingYet, IInv, WalkSoFar
<1> QED
  BY <1>1, <1>2, <1>4, <1>5

(* One image more is printed with each structure of an image, unless it has *)
(* no image.                                                                *)
LEMMA OneMore ==
  ASSUME NEW s, s \in Seq(Files), NEW i \in Nat
  PROVE  LET before(k) == SubSeq(s, 1, IF k <= Len(s) THEN k ELSE Len(s))
         IN before(i + 1) = IF i + 1 <= Len(s) THEN Append(before(i), s[i + 1]) ELSE before(i)
<1>1. Len(s) \in Nat
  OBVIOUS
<1>2. CASE i + 1 <= Len(s)
  <2> DEFINE a == SubSeq(s, 1, i + 1)
             b == SubSeq(s, 1, i)
  <2>1. i \in 0 .. Len(s) /\ i + 1 \in 0 .. Len(s) /\ i + 1 \in 1 .. Len(s) /\ 1 \in 1 .. Len(s) + 1
    BY <1>1, <1>2
  <2>2. a \in Seq(Files) /\ Len(a) = i + 1 /\ \A m \in 1 .. i + 1 : a[m] = s[m]
    BY <1>1, <2>1, SubSeqProperties
  <2>3. b \in Seq(Files) /\ Len(b) = i /\ \A m \in 1 .. i : b[m] = s[m]
    BY <1>1, <2>1, SubSeqProperties
  <2>4. s[i + 1] \in Files
    BY <2>1
  <2> HIDE DEF a, b
  <2>5. Append(b, s[i + 1]) \in Seq(Files) /\ Len(Append(b, s[i + 1])) = i + 1
    BY <2>3, <2>4
  <2>6. \A m \in 1 .. i + 1 : Append(b, s[i + 1])[m] = s[m]
    BY <2>3, <2>4
  <2>7. a = Append(b, s[i + 1])
    BY <2>2, <2>5, <2>6
  <2> QED
    BY <1>1, <1>2, <2>7 DEF a, b
<1>3. CASE ~ (i + 1 <= Len(s))
  <2>1. i <= Len(s) => i = Len(s)
    BY <1>1, <1>3
  <2> QED
    BY <1>3, <2>1
<1> QED
  BY <1>2, <1>3

(* The first pass prints the images.                                        *)
LEMMA ImagesStep ==
  ASSUME IInv, Walk, pass = 1
  PROVE  ImagesSoFar'
<1> DEFINE n == CalcTotalPeimCount(atDump)
           all == DatabaseSize(atDump)
           p == PpiDatabaseSize(atDump)
           structure == StructureAt(offset)
<1>1. /\ pc = "walk" /\ pc # "overrun" /\ offset < hob.size /\ hob # NULL
      /\ hob' = hob /\ atDump' = atDump /\ Images' = Images
  BY WalkKeeps DEF Walk
<1>2. printed' = DumpPeiLoadedImage(structure) /\ offset' = offset + structure.Length
  BY PassesAre DEF Walk, Found
<1>3. /\ n \in Nat /\ Images \in Seq(Files) /\ Len(Images) \in Nat /\ Len(Images) <= n
      /\ hob.size \in Int /\ all <= hob.size /\ hob.size <= all + 7
      /\ p \in Nat /\ p >= 76
      /\ \A i \in 0 .. n : Place(i) = i * 132 /\ Place(i) \in Nat
      /\ MemoryPlace = Place(n) + p /\ all = MemoryPlace + 36
  BY <1>1, WalkFacts
<1>4. n \in 0 .. n /\ Place(n) \in Nat /\ MemoryPlace \in Nat /\ all \in Nat
  <2> HIDE DEF n, p, all
  <2>1. n \in 0 .. n
    BY ONLY <1>3
  <2>2. Place(n) \in Nat
    BY ONLY <1>3, <2>1
  <2>3. p \in Nat /\ MemoryPlace = Place(n) + p /\ all = MemoryPlace + 36
    BY ONLY <1>3
  <2>4. \A a, b \in Nat : a + b \in Nat
    OBVIOUS
  <2>5. MemoryPlace \in Nat
    BY ONLY <2>2, <2>3, <2>4
  <2>6. all \in Nat
    BY ONLY <2>3, <2>4, <2>5
  <2> QED
    BY ONLY <2>1, <2>2, <2>5, <2>6
<1>5. n' = n /\ all' = all /\ MemoryPlace' = MemoryPlace
      /\ \A i : ImagesBefore(i)' = ImagesBefore(i) /\ Place(i)' = Place(i)
  BY <1>1 DEF MemoryPlace, ImagesBefore, Place
<1>6. ASSUME structure.Signature # "PCID" PROVE printed' = printed
  BY <1>2, <1>6 DEF DumpPeiLoadedImage
<1>7. ASSUME NEW i \in 0 .. n, offset = Place(i), printed = Report(ImagesBefore(i), {}, 0)
      PROVE  ImagesSoFar'
  <2>1. CASE i = n
    <3>1. structure = BuildPpiDatabaseData(atDump, Images)
      BY <1>1, <1>7, <2>1, WalkFacts
    <3>2. structure.Signature = "PCPD" /\ structure.Length = p
      BY <3>1 DEF BuildPpiDatabaseData
    <3>3. offset' = MemoryPlace /\ printed' = printed
      BY <1>2, <1>3, <1>6, <1>7, <2>1, <3>2
    <3>4. ImagesBefore(n) = Images
      BY <1>3, SMTT(40) DEF ImagesBefore
    <3> QED
      BY <1>1, <1>5, <1>7, <2>1, <3>3, <3>4 DEF ImagesSoFar, Report
  <2>2. CASE i # n
    <3>1. i \in 0 .. n - 1 /\ i \in Nat /\ i + 1 \in 0 .. n
      <4> HIDE DEF n
      <4> QED
        BY <1>3, <2>2
    <3>2. structure = [Signature |-> "PCID", Length |-> 132,
                       FileGuid |-> IF i + 1 <= Len(Images) THEN Images[i + 1] ELSE ZeroGuid]
      BY <1>1, <1>7, <3>1, ImageAt
    <3>3. offset' = Place(i + 1)
      BY <1>2, <1>3, <1>7, <3>1, <3>2
    <3>4. ImagesBefore(i + 1)
            = IF i + 1 <= Len(Images) THEN Append(ImagesBefore(i), Images[i + 1]) ELSE ImagesBefore(i)
      BY <1>3, <3>1, OneMore DEF ImagesBefore
    <3>5. i + 1 <= Len(Images) => Images[i + 1] # ZeroGuid
      <4>1. i + 1 <= Len(Images) => Images[i + 1] \in Files
        BY <1>3, <3>1, SMTT(40)
      <4> QED
        BY <4>1, VolumesTyped
    <3>6. printed' = Report(ImagesBefore(i + 1), {}, 0)
      <4>1. CASE i + 1 <= Len(Images)
        <5>1. printed' = [printed EXCEPT !.images = Append(@, Images[i + 1])]
          BY <1>2, <3>2, <3>5, <4>1 DEF DumpPeiLoadedImage
        <5> QED
          BY <1>7, <3>4, <4>1, <5>1 DEF Report
      <4>2. CASE ~ (i + 1 <= Len(Images))
        <5>1. printed' = printed
          BY <1>2, <3>2, <4>2 DEF DumpPeiLoadedImage
        <5> QED
          BY <1>7, <3>4, <4>2, <5>1
      <4> QED
        BY <4>1, <4>2
    <3> QED
      BY <1>5, <3>1, <3>3, <3>6 DEF ImagesSoFar, Report
  <2> QED
    BY <2>1, <2>2
<1>8. ASSUME offset \in {MemoryPlace, all}, printed = Report(Images, {}, 0)
      PROVE  ImagesSoFar'
  <2>1. CASE offset = MemoryPlace
    <3>1. structure = [Signature |-> "PCMI", Length |-> 36]
      BY <1>1, <2>1, WalkFacts
    <3>2. offset' = all /\ printed' = printed
      BY <1>2, <1>3, <1>6, <2>1, <3>1, SMTT(40)
    <3> QED
      BY <1>1, <1>5, <1>8, <3>2 DEF ImagesSoFar, Report
  <2>2. CASE offset = all
    <3>1. structure = [Signature |-> "none", Length |-> 65535]
      BY <1>1, <2>2, WalkFacts
    <3>2. offset' = all + 65535 /\ printed' = printed
      BY <1>2, <1>6, <2>2, <3>1
    <3> QED
      BY <1>1, <1>5, <1>8, <3>2 DEF ImagesSoFar, Report, HeaderOfNextHob
  <2> QED
    BY <1>8, <2>1, <2>2
<1>9. ImagesSoFar /\ offset # all + HeaderOfNextHob
  <2>1. ImagesSoFar
    BY <1>1, PassesAre DEF IInv, WalkSoFar
  <2>2. offset # all + HeaderOfNextHob
    <3>1. HeaderOfNextHob = 65535
      BY DEF HeaderOfNextHob
    <3>2. \A a \in Nat, h \in Int : h <= a + 7 => ~ (a + 65535 < h)
      OBVIOUS
    <3>3. all \in Nat /\ hob.size \in Int /\ hob.size <= all + 7 /\ offset < hob.size
      BY <1>1, <1>3, <1>4
    <3> HIDE DEF all
    <3>4. ~ (all + 65535 < hob.size)
      BY ONLY <3>2, <3>3
    <3> QED
      BY ONLY <3>1, <3>3, <3>4
  <2> QED
    BY <2>1, <2>2
<1> QED
  BY <1>7, <1>8, <1>9 DEF ImagesSoFar

(* Both other passes step over the structures of images.                    *)
LEMMA OverImages ==
  ASSUME IInv, hob # NULL, pc # "overrun", offset \in HeaderPlaces
  PROVE  \/ /\ StructureAt(offset).Signature = "PCID"
            /\ offset + StructureAt(offset).Length \in HeaderPlaces
         \/ /\ StructureAt(offset) = BuildPpiDatabaseData(atDump, Images)
            /\ offset + StructureAt(offset).Length = MemoryPlace
<1> DEFINE n == CalcTotalPeimCount(atDump)
<1>1. PICK i \in 0 .. n : offset = Place(i)
  BY DEF HeaderPlaces
<1>2. n \in Nat /\ \A j \in 0 .. n : Place(j) = j * 132
  BY WalkFacts
<1>3. CASE i = n
  <2>1. StructureAt(offset) = BuildPpiDatabaseData(atDump, Images)
    BY <1>1, <1>3, WalkFacts
  <2>2. StructureAt(offset).Length = PpiDatabaseSize(atDump)
    BY <2>1 DEF BuildPpiDatabaseData
  <2>3. MemoryPlace = Place(n) + PpiDatabaseSize(atDump)
    BY WalkFacts
  <2> HIDE DEF n
  <2> QED
    BY ONLY <1>1, <1>3, <2>1, <2>2, <2>3
<1>4. CASE i # n
  <2>1. i \in 0 .. n - 1 /\ i + 1 \in 0 .. n /\ i \in Nat
    <3> HIDE DEF n
    <3> QED
      BY <1>2, <1>4
  <2>2. StructureAt(offset).Signature = "PCID" /\ StructureAt(offset).Length = 132
    <3>1. StructureAt(Place(i))
            = [Signature |-> "PCID", Length |-> 132,
               FileGuid |-> IF i + 1 <= Len(Images) THEN Images[i + 1] ELSE ZeroGuid]
      BY <2>1, ImageAt
    <3> QED
      BY ONLY <1>1, <3>1
  <2>3. offset + StructureAt(offset).Length = Place(i + 1)
    BY <1>1, <1>2, <2>1, <2>2
  <2> QED
    BY <2>1, <2>2, <2>3 DEF HeaderPlaces
<1> QED
  BY <1>3, <1>4

(* The second pass prints the PPIs.                                         *)
LEMMA PpisStep ==
  ASSUME IInv, Walk, pass = 2
  PROVE  PpisSoFar'
<1>1. /\ pc = "walk" /\ pc # "overrun" /\ offset < hob.size /\ hob # NULL
      /\ hob' = hob /\ atDump' = atDump /\ Images' = Images /\ Ppis' = Ppis
  BY WalkKeeps DEF Walk
<1>2. HeaderPlaces' = HeaderPlaces
  BY <1>1 DEF HeaderPlaces, Place
<1>3. offset \in HeaderPlaces /\ printed = Report(Images, {}, 0)
  <2>1. PpisSoFar
    BY <1>1, PassesAre DEF IInv, WalkSoFar
  <2>2. hob.size \in Int
    BY <1>1, WalkFacts
  <2> QED
    BY <1>1, <2>1, <2>2 DEF PpisSoFar
<1>4. CASE /\ StructureAt(offset).Signature = "PCID"
           /\ offset + StructureAt(offset).Length \in HeaderPlaces
  <2>1. printed' = printed /\ offset' = offset + StructureAt(offset).Length
    BY <1>4, PassesAre DEF Walk, Found
  <2> QED
    BY <1>1, <1>2, <1>3, <1>4, <2>1 DEF PpisSoFar, Report
<1>5. CASE StructureAt(offset) = BuildPpiDatabaseData(atDump, Images)
  <2>1. Found(StructureAt(offset))
    BY <1>5, PassesAre DEF Found, BuildPpiDatabaseData
  <2>2. printed' = DumpPpiOnPpiDatabaseStruct(StructureAt(offset)) /\ offset' = hob.size
    BY <2>1, PassesAre DEF Walk
  <2>3. atDump \in Instances
    BY <1>1, WalkFacts
  <2>4. printed' = [printed EXCEPT !.ppis = Ppis]
    BY <1>5, <2>2, <2>3, PpisPrinted
  <2> QED
    BY <1>1, <1>3, <2>2, <2>4 DEF PpisSoFar, Report
<1> QED
  BY <1>1, <1>3, <1>4, <1>5, OverImages

(* The third pass prints the memory.                                        *)
LEMMA MemoryStep ==
  ASSUME IInv, Walk, pass = 3
  PROVE  MemorySoFar'
<1>1. /\ pc = "walk" /\ pc # "overrun" /\ offset < hob.size /\ hob # NULL
      /\ hob' = hob /\ atDump' = atDump /\ Images' = Images /\ Ppis' = Ppis
  BY WalkKeeps DEF Walk
<1>2. HeaderPlaces' = HeaderPlaces /\ MemoryPlace' = MemoryPlace
  BY <1>1 DEF HeaderPlaces, Place, MemoryPlace
<1>3. offset \in HeaderPlaces \cup {MemoryPlace} /\ printed = Report(Images, Ppis, 0)
  <2>1. MemorySoFar
    BY <1>1, PassesAre DEF IInv, WalkSoFar
  <2>2. hob.size \in Int
    BY <1>1, WalkFacts
  <2> QED
    BY <1>1, <2>1, <2>2 DEF MemorySoFar
<1>4. ASSUME StructureAt(offset).Signature # "PCMI",
             offset + StructureAt(offset).Length \in HeaderPlaces \cup {MemoryPlace}
      PROVE  MemorySoFar'
  <2>1. printed' = printed /\ offset' = offset + StructureAt(offset).Length
    BY <1>4, PassesAre DEF Walk, Found
  <2> QED
    BY <1>1, <1>2, <1>3, <1>4, <2>1 DEF MemorySoFar, Report
<1>5. CASE offset = MemoryPlace
  <2>1. StructureAt(offset).Signature = "PCMI"
    BY <1>1, <1>5, WalkFacts
  <2>2. Found(StructureAt(offset))
    BY <2>1, PassesAre DEF Found
  <2>3. printed' = [printed EXCEPT !.memory = @ + 1] /\ offset' = hob.size
    BY <2>2, PassesAre DEF Walk
  <2> QED
    BY <1>1, <1>3, <2>3 DEF MemorySoFar, Report
<1>6. CASE offset \in HeaderPlaces
  <2>1. BuildPpiDatabaseData(atDump, Images).Signature = "PCPD"
    BY DEF BuildPpiDatabaseData
  <2>2. /\ StructureAt(offset).Signature # "PCMI"
        /\ offset + StructureAt(offset).Length \in HeaderPlaces \cup {MemoryPlace}
    BY <1>1, <1>6, <2>1, OverImages
  <2> QED
    BY <1>4, <2>2
<1> QED
  BY <1>3, <1>5, <1>6

LEMMA WalkStep == ASSUME IInv, Walk PROVE IInv'
<1>1. pc = "walk" /\ pc' = "walk" /\ pass' = pass
  BY DEF Walk
<1>2. hob' # NULL /\ HobIsBuilt' /\ TypeOK' /\ NothingYet' /\ DumpIsCore'
  BY <1>1, WalkKeeps DEF DumpIsCore
<1>3. pass \in 1 .. 3
  BY PassesAre DEF IInv, TypeOK
<1>4. WalkSoFar'
  <2>1. CASE pass = 1
    BY <1>1, <1>2, <2>1, ImagesStep, PassesAre DEF WalkSoFar
  <2>2. CASE pass = 2
    BY <1>1, <1>2, <2>2, PpisStep, PassesAre DEF WalkSoFar
  <2>3. CASE pass = 3
    BY <1>1, <1>2, <2>3, MemoryStep, PassesAre DEF WalkSoFar
  <2> QED
    BY <1>3, <2>1, <2>2, <2>3
<1> QED
  BY <1>2, <1>4 DEF IInv

(* A pass that ends has printed all of its kind: no structure begins behind *)
(* the data.                                                                *)
LEMMA NextPassStep == ASSUME IInv, NextPass PROVE IInv'
<1>1. /\ pc = "walk" /\ pc # "overrun" /\ offset >= hob.size /\ printed' = printed
      /\ IF pass < 3 THEN pass' = pass + 1 /\ offset' = 0 /\ pc' = "walk"
         ELSE pc' = "done" /\ pass' = pass
  BY PassesAre DEF NextPass
<1>2. /\ hob' = hob /\ atDump' = atDump /\ Images' = Images /\ Ppis' = Ppis /\ hob # NULL
      /\ HobIsBuilt' /\ TypeOK' /\ NothingYet'
  BY <1>1, WalkKeeps
<1>3. pass \in 1 .. 3
  BY PassesAre DEF IInv, TypeOK
<1>4. HeaderPlaces' = HeaderPlaces
  BY <1>2 DEF HeaderPlaces, Place
<1> DEFINE n == CalcTotalPeimCount(atDump)
           p == PpiDatabaseSize(atDump)
           all == DatabaseSize(atDump)
<1>5. /\ n \in Nat /\ p \in Nat /\ p >= 76 /\ hob.size \in Int /\ all <= hob.size
      /\ \A i \in 0 .. n : Place(i) = i * 132 /\ Place(i) \in Nat
      /\ MemoryPlace = Place(n) + p /\ all = MemoryPlace + 36
  BY <1>1, <1>2, WalkFacts
<1>6. ASSUME NEW i \in 0 .. n PROVE offset # Place(i)
  <2> HIDE DEF n, p, all
  <2>1. n \in 0 .. n
    BY <1>5
  <2>2. Place(i) <= Place(n) /\ Place(i) \in Nat /\ Place(n) \in Nat
    BY <1>5, <2>1
  <2>3. Place(i) < all /\ all \in Nat
    BY <1>5, <2>2
  <2>4. ~ (Place(i) >= hob.size)
    BY <1>5, <2>2, <2>3
  <2> QED
    BY <1>1, <2>4
<1>7. offset # MemoryPlace
  <2> HIDE DEF n, p, all
  <2>1. MemoryPlace \in Nat
    BY <1>5
  <2>2. ~ (MemoryPlace >= hob.size)
    BY <1>5, <2>1
  <2> QED
    BY <1>1, <2>2
<1>8. 0 \in HeaderPlaces
  <2>1. 0 \in 0 .. n /\ Place(0) = 0
    BY <1>5
  <2> QED
    BY <2>1 DEF HeaderPlaces
<1>9. offset \notin HeaderPlaces
  BY <1>6 DEF HeaderPlaces
<1>10. CASE pass = 1
  <2>1. printed = Report(Images, {}, 0)
    BY <1>1, <1>6, <1>10, PassesAre DEF IInv, WalkSoFar, ImagesSoFar
  <2>2. pass' = 2 /\ offset' = 0 /\ pc' = "walk"
    BY <1>1, <1>10
  <2>3. PpisSoFar'
    BY <1>1, <1>2, <1>4, <1>8, <2>1, <2>2 DEF PpisSoFar, Report
  <2> QED
    BY <1>2, <2>2, <2>3, PassesAre DEF IInv, WalkSoFar, DumpIsCore
<1>11. CASE pass = 2
  <2>1. printed = Report(Images, Ppis, 0)
    BY <1>1, <1>9, <1>11, PassesAre DEF IInv, WalkSoFar, PpisSoFar
  <2>2. pass' = 3 /\ offset' = 0 /\ pc' = "walk"
    BY <1>1, <1>11
  <2>3. MemorySoFar'
    BY <1>1, <1>2, <1>4, <1>8, <2>1, <2>2 DEF MemorySoFar, Report
  <2> QED
    BY <1>2, <2>2, <2>3, PassesAre DEF IInv, WalkSoFar, DumpIsCore
<1>12. CASE pass = 3
  <2>1. printed = Report(Images, Ppis, 1)
    BY <1>1, <1>7, <1>9, <1>12, PassesAre DEF IInv, WalkSoFar, MemorySoFar
  <2>2. pc' = "done" /\ pass' = 3
    BY <1>1, <1>12
  <2>3. DumpIsCore'
    BY <1>1, <1>2, <2>1 DEF DumpIsCore, Report
  <2> QED
    BY <1>2, <2>2, <2>3 DEF IInv, WalkSoFar
<1> QED
  BY <1>3, <1>10, <1>11, <1>12

(***************************************************************************)
(* The theorems                                                            *)
(***************************************************************************)

LEMMA NextIInv == IInv /\ [Next]_vars => IInv'
<1> SUFFICES ASSUME IInv, [Next]_vars PROVE IInv'
  OBVIOUS
<1>1. CASE Next
  BY <1>1, CoreSteps, CallbackStep, EntrypointStep, WalkStep, NextPassStep DEF Next
<1>2. CASE UNCHANGED vars
  <2>1. /\ Images' = Images /\ Ppis' = Ppis /\ MemoryPlace' = MemoryPlace
        /\ Instance' = Instance /\ HeaderPlaces' = HeaderPlaces
        /\ \A i : ImagesBefore(i)' = ImagesBefore(i)
    BY <1>2 DEF vars, pei, dump, Images, Ppis, MemoryPlace, Instance, HeaderPlaces, Place,
                ImagesBefore
  <2>2. TypeOK' /\ HobIsBuilt' /\ NothingYet' /\ DumpIsCore'
    BY <1>2, <2>1 DEF vars, pei, dump, app, IInv, TypeOK, HobIsBuilt, NothingYet, DumpIsCore
  <2>3. WalkSoFar'
    BY <1>2, <2>1 DEF vars, pei, dump, app, IInv, WalkSoFar, ImagesSoFar, PpisSoFar,
                      MemorySoFar, Report, Place
  <2> QED
    BY <2>2, <2>3 DEF IInv
<1> QED
  BY <1>1, <1>2

(* The HOB is what was built from the core, the walk is where its passes    *)
(* say, and nothing is printed twice or left out.                           *)
THEOREM Invariance == Spec => []IInv
BY InitIInv, NextIInv, PTL DEF Spec

(* PeiCoreDumpApp prints the images, the PPIs and the memory that the PEI   *)
(* core had when PeiCoreDump was called back, each once and where it was.   *)
THEOREM DumpPrintsCore == Spec => []DumpIsCore
<1>1. IInv => DumpIsCore
  BY DEF IInv
<1> QED
  BY <1>1, Invariance, PTL

(* Only a database whose HOB needs a length that does not fit overruns it.  *)
THEOREM HobIsLargeEnough == Spec => []HobHoldsAll
<1>1. IInv => HobHoldsAll
  <2> SUFFICES ASSUME IInv, pc = "overrun"
               PROVE  sizeof.EFI_HOB_GUID_TYPE + DatabaseSize(atDump) >= HobLengths
    BY DEF HobHoldsAll
  <2>1. /\ atDump \in Instances /\ hob = BuildPeiCoreDatabase(atDump, Images)
        /\ hob.size < DatabaseSize(atDump)
    BY DEF IInv, HobIsBuilt
  <2>2. hob.size = DataSize(HobLength(atDump))
    BY <2>1, HobData
  <2>3. DatabaseSize(atDump) \in Nat /\ hob.size \in Int
    BY <2>1, <2>2, Sizes, HobSize
  <2>4. ~ (24 + DatabaseSize(atDump) < HobLengths)
    BY <2>1, <2>2, <2>3, HobSize
  <2> QED
    BY <2>3, <2>4 DEF sizeof
<1> QED
  BY <1>1, Invariance, PTL
=============================================================================
