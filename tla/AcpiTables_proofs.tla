-------------------------- MODULE AcpiTables_proofs --------------------------
(***************************************************************************)
(* What a dump of the ACPI tables prints, and what its files hold, for     *)
(* every memory, firmware and set of libraries; and what the libraries     *)
(* read of the structures of their tables, for all tables that are         *)
(* well-formed.                                                            *)
(***************************************************************************)
EXTENDS AcpiTables, AcpiWalks, Sublists_proofs, FiniteSetTheorems

Bytes == DOMAIN Table \cup {Old}
Files == [Names -> Seq(Bytes)]
(* The strings; the provers do not know that these five are.                *)
Signatures == STRING \cup {"FACP", "FACS", "DSDT", "SSDT", "PSDT"}
Lines == [by : Libraries \cup RootSigns, table : DOMAIN Table \cup RootSigns]
Modes == {"Shell", "ScanRoots", "Entries", "Facs", "Dsdt", "Done", "Assert", "Fault"}
Walked == {"Entries", "Facs", "Dsdt", "Done", "Assert", "Fault"}

Typed ==
  /\ firmware \in Firmwares
  /\ files \in Files
  /\ registry \in Seq(Signatures)
  /\ mIsDumpData \in BOOLEAN
  /\ mTableSign \in Signs \cup {NoSign}
  /\ pc \in Modes
  /\ list \in Seq(Pointers)
  /\ Index \in Nat /\ 1 <= Index /\ Index <= Len(list) + 1
  /\ Facs \in Pointers /\ Dsdt \in Pointers
  /\ FileIndex \in [AmlSigns -> Nat]
  /\ printed \in Seq(Lines)

(* All libraries are registered when a dump begins.                         *)
Ready == pc # "Shell" => ToSet(registry) = ToSet(Linked \o EntryPointSigns)

(* The walk begins at the root, over the list in force.                     *)
Walking ==
  /\ pc = "ScanRoots" =>
       list = <<>> /\ Index = 1 /\ Facs = NULL /\ Dsdt = NULL /\ printed = <<>>
  /\ pc \in Walked => list = InForce
  /\ pc \in {"Facs", "Dsdt"} => mTableSign = NoSign /\ 2 <= Index
  /\ pc = "Fault" => mTableSign # NoSign

(* A file begins with a table.                                              *)
Holds(file, p) ==
  /\ Table[p].Length <= Len(file)
  /\ \A i \in 1 .. Table[p].Length : file[i] = p

(* The files that have been written are the tables that have been printed,  *)
(* and there is a file for each entry that is left.                         *)
Written ==
  \A sign \in AmlSigns :
    LET tables == Where(printed, LinesBy({sign}))
    IN /\ FileIndex[sign] = Len(tables)
       /\ FileIndex[sign] <= MaxFiles
       /\ \A n \in 1 .. Len(tables) : Holds(files[<<sign, n>>], tables[n].table)
Filed ==
  mIsDumpData /\ pc \in {"ScanRoots", "Entries", "Facs", "Dsdt", "Done"} => Written
Enough ==
  /\ pc = "ScanRoots" => \A sign \in AmlSigns : FileIndex[sign] = 0
  /\ pc = "Entries" => \A sign \in AmlSigns : FileIndex[sign] <= Index - 1
  /\ pc \in {"Facs", "Dsdt"} => \A sign \in AmlSigns : FileIndex[sign] <= Index - 2

Pending(function, p) == IF p = NULL THEN <<>> ELSE <<Line(function, p)>>

(* Without -s: what is printed, and of the FADT what is still to come, is   *)
(* what the entries up to here publish.                                     *)
Complete ==
  mTableSign = NoSign =>
    /\ pc = "Entries" => PrintedTables = PublishedUpTo(Index - 1)
    /\ pc = "Facs" => PrintedTables \o (Pending("FACS", Facs) \o Pending("DSDT", Dsdt))
                        = PublishedUpTo(Index - 1)
    /\ pc = "Dsdt" => PrintedTables \o Pending("DSDT", Dsdt) = PublishedUpTo(Index - 1)
    /\ pc = "Done" => PrintedTables = Published
    /\ \E rest \in Seq(Lines) : Published = PrintedTables \o rest

(* With -s: what is printed, and what comes behind the loops, is as often   *)
(* among what the entries up to here publish.                               *)
Selected(n) == Where(PublishedUpTo(n), OfSign(mTableSign))
LaterOf(sign, facs, dsdt) ==
  IF sign = "FACS" THEN Pending("FACS", facs)
  ELSE IF sign = "DSDT" THEN Pending("DSDT", dsdt)
  ELSE <<>>
Later == LaterOf(mTableSign, Facs, Dsdt)
SameTimes(s, t) == \A line \in Lines : Times(s, line) = Times(t, line)
Filtered ==
  mTableSign # NoSign =>
    /\ pc = "Entries" =>
         /\ SameTimes(PrintedTables \o Later, Selected(Index - 1))
         /\ (\A i \in 1 .. Index - 1 : list[i] \notin Fadts) => Facs = NULL /\ Dsdt = NULL
         /\ Facs # NULL => Table[Facs].Signature = "FACS"
         /\ Dsdt # NULL => Table[Dsdt].Signature = "DSDT"
    /\ pc = "Done" => SameTimes(PrintedTables, Selected(Len(InForce)))

IInv == Typed /\ Ready /\ Walking /\ Filed /\ Enough /\ Complete /\ Filtered
-----------------------------------------------------------------------------
(* How often an element is in a sequence.                                   *)
LEMMA TimesAppend ==
  ASSUME NEW S, NEW s \in Seq(S), NEW e \in S, NEW x
  PROVE  /\ Times(s, x) \in Nat
         /\ Times(Append(s, e), x) = Times(s, x) + (IF e = x THEN 1 ELSE 0)
<1> DEFINE L == Len(s)
           t == Append(s, e)
           A == {i \in 1 .. L : s[i] = x}
           B == {i \in 1 .. L + 1 : t[i] = x}
<1>1. /\ L \in Nat /\ t \in Seq(S) /\ Len(t) = L + 1 /\ t[L + 1] = e
      /\ \A i \in 1 .. L : t[i] = s[i]
      /\ DOMAIN s = 1 .. L /\ DOMAIN t = 1 .. L + 1
  BY AppendProperties
<1>2. IsFiniteSet(A) /\ Cardinality(A) \in Nat
  <2>1. IsFiniteSet(1 .. L)
    BY <1>1, FS_Interval
  <2>2. A \in SUBSET (1 .. L)
    OBVIOUS
  <2> HIDE DEF A, L
  <2>3. IsFiniteSet(A)
    BY <2>1, <2>2, FS_Subset
  <2> QED
    BY <2>3, FS_CardinalityType
<1>3. Times(s, x) = Cardinality(A) /\ Times(t, x) = Cardinality(B)
  BY <1>1 DEF Times
<1>4. B = IF e = x THEN A \cup {L + 1} ELSE A
  BY <1>1
<1>5. L + 1 \notin A
  BY <1>1
<1>6. Cardinality(A \cup {L + 1}) = Cardinality(A) + 1
  <2> HIDE DEF A, L
  <2> QED
    BY <1>2, <1>5, FS_AddElement
<1> HIDE DEF A, B, L, t
<1>7. Times(t, x) = Times(s, x) + (IF e = x THEN 1 ELSE 0)
  BY <1>2, <1>3, <1>4, <1>6
<1> QED
  BY <1>2, <1>3, <1>7 DEF t

(* The empty sequence has no element.                                       *)
LEMMA TimesOfNone ==
  ASSUME NEW x
  PROVE  Times(<<>>, x) = 0
<1>1. {i \in DOMAIN <<>> : <<>>[i] = x} = {}
  OBVIOUS
<1> QED
  BY <1>1, FS_EmptySet, Zenon DEF Times

(* How often an element occurs is a number.                                 *)
LEMMA TimesNat ==
  ASSUME NEW S, NEW s \in Seq(S), NEW x
  PROVE  Times(s, x) \in Nat
<1>1. CASE S = {}
  <2>1. s = <<>>
    BY <1>1
  <2> QED
    BY <2>1, TimesOfNone
<1>2. CASE S # {}
  BY <1>2, TimesAppend
<1> QED
  BY <1>1, <1>2

(* Counting goes through concatenation.                                     *)
LEMMA TimesConcat ==
  ASSUME NEW S, NEW s \in Seq(S), NEW t \in Seq(S), NEW x
  PROVE  Times(s \o t, x) = Times(s, x) + Times(t, x)
<1> DEFINE L == Len(t)
           Initial(m) == SubSeq(t, 1, m)
           Good == {m \in 0 .. L : Times(s \o Initial(m), x) = Times(s, x) + Times(Initial(m), x)}
<1>1. L \in Nat /\ \A m \in 0 .. L : Initial(m) \in Seq(S)
  <2>1. L \in Nat
    OBVIOUS
  <2>2. ASSUME NEW m \in 0 .. L
        PROVE  SubSeq(t, 1, m) \in Seq(S)
    <3>1. 1 \in Int /\ m \in Int /\ \A i \in 1 .. m : t[i] \in S
      BY <2>1
    <3> QED
      BY <3>1, SubSeqProperties
  <2> QED
    BY <2>1, <2>2
<1>2. 0 \in Good
  <2>1. Initial(0) = <<>>
    BY SubSeqEmpty
  <2>2. Times(<<>>, x) = 0
    BY TimesOfNone
  <2>3. s \o <<>> = s
    BY ConcatEmptySeq
  <2>4. Times(s, x) \in Nat
    BY TimesNat
  <2>5. Times(s \o Initial(0), x) = Times(s, x) + Times(Initial(0), x)
    <3>1. Times(s, x) = Times(s, x) + 0
      BY <2>4
    <3> QED
      BY ONLY <2>1, <2>2, <2>3, <3>1, Zenon
  <2> QED
    BY <1>1, <2>5
<1>3. ASSUME NEW m \in 1 .. L, m - 1 \in Good
      PROVE  m \in Good
  <2>1. m \in 0 .. L /\ m - 1 \in 0 .. L /\ t[m] \in S
    BY <1>1
  <2>2. Initial(m) = Append(Initial(m - 1), t[m])
    <3>1. 1 \in 1 .. Len(t) /\ m \in 1 .. Len(t)
      BY <1>1
    <3>2. SubSeq(t, 1, m) = SubSeq(t, 1, m - 1) \o <<t[m]>>
      BY <3>1, SubSeqRecursiveSecond
    <3> QED
      BY <1>1, <2>1, <3>2, AppendIsConcat
  <2> DEFINE u == Initial(m - 1)
             e == t[m]
  <2>3. u \in Seq(S) /\ e \in S /\ Initial(m) = Append(u, e)
    BY <1>1, <2>1, <2>2
  <2>4. Times(s \o u, x) = Times(s, x) + Times(u, x)
    BY <1>3
  <2> HIDE DEF u, e, Initial
  <2>5. s \o Append(u, e) = Append(s \o u, e) /\ s \o u \in Seq(S)
    BY <2>3, AppendToConcat, ConcatProperties, SMTT(40)
  <2> DEFINE su == s \o u
  <2>6. su \in Seq(S)
    BY <2>5
  <2> HIDE DEF su
  <2>7. /\ Times(Append(su, e), x) = Times(su, x) + (IF e = x THEN 1 ELSE 0)
        /\ Times(s, x) \in Nat
    BY ONLY <2>3, <2>6, s \in Seq(S), TimesAppend
  <2>8. Times(Append(u, e), x) = Times(u, x) + (IF e = x THEN 1 ELSE 0) /\ Times(u, x) \in Nat
    BY ONLY <2>3, TimesAppend
  <2>9. /\ Times(Append(s \o u, e), x) = Times(s \o u, x) + (IF e = x THEN 1 ELSE 0)
        /\ Times(Append(u, e), x) = Times(u, x) + (IF e = x THEN 1 ELSE 0)
        /\ Times(s, x) \in Nat /\ Times(u, x) \in Nat
    BY <2>7, <2>8 DEF su
  <2>10. Times(s \o Initial(m), x) = Times(s, x) + Times(Initial(m), x)
    BY <2>3, <2>4, <2>5, <2>9
  <2> QED
    BY <2>1, <2>10
<1>4. L \in Good
  <2> HIDE DEF Good, L
  <2>1. 0 .. L \subseteq Good
    BY <1>1, <1>2, <1>3, UpTo
  <2> QED
    BY <1>1, <2>1
<1>5. Initial(L) = t
  BY SubSeqFull
<1> QED
  BY <1>4, <1>5

(* One more sequence behind the others.                                     *)
LEMMA FlattenAppend ==
  ASSUME NEW S, NEW seqs, seqs \in Seq(Seq(S)), NEW e, e \in Seq(S)
  PROVE  FlattenSeq(Append(seqs, e)) = FlattenSeq(seqs) \o e
<1> DEFINE L == Len(seqs)
           T == Seq(S)
           more == Append(seqs, e)
<1>1. /\ L \in Nat /\ more \in Seq(T) /\ Len(more) = L + 1 /\ more[L + 1] = e
      /\ \A i \in 1 .. L : more[i] = seqs[i] /\ seqs[i] \in T
  BY AppendProperties
<1>2. Len(more) # 0
  BY <1>1
<1> HIDE DEF more
<1>3. PICK g : /\ \A i \in 1 .. Len(more) : g[i] = IF i = 1 THEN more[i] ELSE g[i - 1] \o more[i]
               /\ FlattenSeq(more) = g[Len(more)]
  BY ONLY <1>1, <1>2, FlattenDef DEF T
<1>4. FlattenSeq(more) = g[L + 1] /\ g[L + 1] = IF L + 1 = 1 THEN e ELSE g[L] \o e
  <2>1. L + 1 \in 1 .. Len(more) /\ (L + 1) - 1 = L
    BY <1>1
  <2> HIDE DEF L
  <2> QED
    BY <1>1, <1>3, <2>1
<1>5. CASE L = 0
  <2>1. FlattenSeq(seqs) = <<>>
    BY <1>5 DEF FlattenSeq
  <2>2. <<>> \o e = e
    BY ConcatEmptySeq
  <2>3. L + 1 = 1
    BY <1>5
  <2> QED
    BY <1>4, <2>1, <2>2, <2>3 DEF more
<1>6. CASE L # 0
  <2>1. PICK f : /\ \A i \in 1 .. L : f[i] = IF i = 1 THEN seqs[i] ELSE f[i - 1] \o seqs[i]
                 /\ FlattenSeq(seqs) = f[L]
    BY <1>6, FlattenDef
  <2> DEFINE Good == {m \in 0 .. L : m = 0 \/ f[m] = g[m]}
  <2> HIDE DEF L
  <2>2. 0 \in Good
    BY <1>1
  <2>3. ASSUME NEW m \in 1 .. L, m - 1 \in Good
        PROVE  m \in Good
    <3>1. m \in 1 .. Len(more) /\ m \in 0 .. L /\ more[m] = seqs[m]
      BY <1>1
    <3>2. g[m] = IF m = 1 THEN seqs[m] ELSE g[m - 1] \o seqs[m]
      BY <1>3, <3>1
    <3>3. m # 1 => f[m - 1] = g[m - 1]
      BY <2>3
    <3>4. f[m] = g[m]
      BY <2>1, <3>2, <3>3
    <3> QED
      BY <3>1, <3>4
  <2>4. L \in Good
    <3> HIDE DEF Good
    <3>1. 0 .. L \subseteq Good
      BY <1>1, <2>2, <2>3, UpTo
    <3> QED
      BY <1>1, <3>1
  <2>5. f[L] = g[L] /\ L + 1 # 1
    BY <1>1, <1>6, <2>4
  <2> QED
    BY <1>4, <2>1, <2>5 DEF more
<1> QED
  BY <1>5, <1>6

(* A registry that is large enough holds every library.                     *)
LEMMA AllRegistered ==
  ASSUME NEW S, NEW signs \in Seq(S), Len(signs) <= MaxFuncs
  PROVE  Registered(signs) \in Seq(S) /\ ToSet(Registered(signs)) = ToSet(signs)
<1> DEFINE L == Len(signs)
           T == Seq(S)
           base == <<>>
           step == [n \in 1 .. L |-> [t \in T |-> RegisterDumpAcpiTable(t, signs[n])]]
           Is(f) == f = [n \in 0 .. L |->
                           IF n = 0 THEN <<>> ELSE RegisterDumpAcpiTable(f[n - 1], signs[n])]
<1>1. L \in Nat /\ L <= MaxFuncs /\ MaxFuncs \in Nat /\ \A i \in 1 .. L : signs[i] \in S
  BY RegistryAssumption
<1>2. step \in [1 .. L -> [T -> T]]
  <2>1. ASSUME NEW n \in 1 .. L, NEW t \in T
        PROVE  RegisterDumpAcpiTable(t, signs[n]) \in T
    <3>1. Append(t, signs[n]) \in T
      BY <1>1, AppendProperties
    <3> QED
      BY <3>1 DEF RegisterDumpAcpiTable
  <2> QED
    BY <2>1
<1>3. PICK g \in [0 .. L -> T] : g[0] = base /\ \A i \in 1 .. L : g[i] = step[i][g[i - 1]]
  <2>1. base \in T /\ L \in Nat /\ step \in [1 .. L -> [T -> T]]
    BY <1>1, <1>2
  <2> HIDE DEF L, T, base, step
  <2>2. \E g \in [0 .. L -> T] : g[0] = base /\ \A i \in 1 .. L : g[i] = step[i][g[i - 1]]
    BY ONLY <2>1, Iterations, SMTT(40)
  <2> QED
    BY <2>2
<1>4. Is(g)
  <2>1. ASSUME NEW n \in 0 .. L
        PROVE  g[n] = IF n = 0 THEN <<>> ELSE RegisterDumpAcpiTable(g[n - 1], signs[n])
    <3>1. CASE n = 0
      BY <1>3, <3>1
    <3>2. CASE n # 0
      <4>1. n \in 1 .. L /\ n - 1 \in 0 .. L
        BY <1>1, <3>2
      <4>2. g[n] = step[n][g[n - 1]] /\ g[n - 1] \in T
        BY <1>3, <4>1
      <4>3. step[n][g[n - 1]] = RegisterDumpAcpiTable(g[n - 1], signs[n])
        BY <4>1, <4>2
      <4> QED
        BY <3>2, <4>2, <4>3
    <3> QED
      BY <3>1, <3>2
  <2>2. g = [n \in 0 .. L |-> g[n]]
    BY <1>3
  <2> HIDE DEF L, T, base, step
  <2> QED
    BY <2>1, <2>2, Zenon
<1> DEFINE funcs == CHOOSE f : Is(f)
<1>5. Is(funcs)
  BY <1>4
<1>6. Registered(signs) = funcs[L]
  BY <1>1 DEF Registered
<1> HIDE DEF funcs, step, base
<1>7. /\ funcs[0] = <<>>
      /\ \A n \in 1 .. L : funcs[n] = RegisterDumpAcpiTable(funcs[n - 1], signs[n])
  BY <1>1, <1>5
<1> HIDE DEF Is
<1> DEFINE Seen(n) == {signs[i] : i \in 1 .. n}
           Right(n) == /\ funcs[n] \in T /\ Len(funcs[n]) <= n
                       /\ ToSet(funcs[n]) = Seen(n)
           Good == {n \in 0 .. L : Right(n)}
<1>8. 0 \in Good
  <2>1. <<>> \in T /\ Len(<<>>) = 0 /\ Len(<<>>) <= 0
    OBVIOUS
  <2>2. ToSet(<<>>) = {}
    BY DEF ToSet
  <2>3. Seen(0) = {}
    OBVIOUS
  <2>4. 0 \in 0 .. L
    BY <1>1
  <2> HIDE DEF Seen, T, L
  <2>5. Right(0)
    BY <1>7, <2>1, <2>2, <2>3
  <2> QED
    BY <2>4, <2>5
<1>9. ASSUME NEW n \in 1 .. L, n - 1 \in Good
      PROVE  n \in Good
  <2> DEFINE before == funcs[n - 1]
             sign == signs[n]
  <2>1. /\ before \in T /\ Len(before) \in Nat /\ Len(before) <= n - 1 /\ sign \in S
        /\ ToSet(before) = Seen(n - 1)
    BY <1>1, <1>9
  <2>2. Seen(n) = Seen(n - 1) \cup {sign}
    <3>1. 1 .. n = (1 .. n - 1) \cup {n}
      BY <1>1
    <3> QED
      BY <3>1
  <2>3. funcs[n] = RegisterDumpAcpiTable(before, sign)
    BY <1>7
  <2> HIDE DEF before, sign, Seen
  <2>4. Contains(before, sign) <=> sign \in ToSet(before)
    <3>1. DOMAIN before = 1 .. Len(before)
      BY <2>1, LenProperties
    <3> QED
      BY <3>1, Zenon DEF Contains, ToSet
  <2>5. ~ (Len(before) >= MaxFuncs)
    BY <1>1, <2>1
  <2>6. CASE Contains(before, sign)
    <3>1. funcs[n] = before
      BY <2>3, <2>6 DEF RegisterDumpAcpiTable
    <3>2. Seen(n) = ToSet(before)
      BY <2>1, <2>2, <2>4, <2>6
    <3>3. Right(n)
      BY <1>1, <2>1, <3>1, <3>2
    <3> HIDE DEF Right
    <3> QED
      BY <1>1, <3>3
  <2>7. CASE ~Contains(before, sign)
    <3>1. funcs[n] = Append(before, sign)
      BY <2>3, <2>5, <2>7 DEF RegisterDumpAcpiTable
    <3>2. Append(before, sign) \in T /\ ToSet(Append(before, sign)) = ToSet(before) \cup {sign}
      BY ONLY <2>1, AppendMembers DEF T
    <3>3. Len(Append(before, sign)) = Len(before) + 1
      BY <2>1, AppendProperties
    <3>4. Len(funcs[n]) <= n /\ ToSet(funcs[n]) = Seen(n)
      BY <2>1, <2>2, <3>1, <3>2, <3>3
    <3>5. Right(n)
      BY <3>1, <3>2, <3>4, Zenon
    <3> HIDE DEF Right
    <3> QED
      BY <1>1, <3>5
  <2> QED
    BY <2>6, <2>7
<1>10. L \in Good
  <2> HIDE DEF Good, L
  <2>1. 0 .. L \subseteq Good
    BY <1>1, <1>8, <1>9, UpTo
  <2> QED
    BY <1>1, <2>1
<1>11. Seen(L) = ToSet(signs)
  BY <1>1 DEF ToSet
<1> QED
  BY <1>6, <1>10, <1>11

-----------------------------------------------------------------------------
(* What the first of one or two pointers is that is not NULL.               *)
LEMMA MinOfPair ==
  /\ Min({1}) = 1
  /\ Min({2}) = 2
  /\ Min({1, 2}) = 1
<1>1. {1} \in SUBSET Nat /\ {2} \in SUBSET Nat /\ {1, 2} \in SUBSET Nat
  OBVIOUS
<1>2. Min({1}) \in {1} /\ Min({2}) \in {2}
  BY <1>1, MinOf
<1>3. Min({1, 2}) \in {1, 2} /\ \A k \in {1, 2} : Min({1, 2}) <= k
  BY <1>1, MinOf
<1>4. Min({1, 2}) = 1
  <2> DEFINE m == Min({1, 2})
  <2>1. m \in {1, 2} /\ \A k \in {1, 2} : m <= k
    BY <1>3
  <2> HIDE DEF m
  <2>2. m = 1
    BY <2>1
  <2> QED
    BY <2>2 DEF m
<1> QED
  BY <1>2, <1>4

(* Two elements, one after the other.                                       *)
LEMMA PairConcat ==
  ASSUME NEW a, NEW b
  PROVE  <<a>> \o <<b>> = <<a, b>>
<1> DEFINE S == {a, b}
           s == <<a>>
           t == <<b>>
           u == <<a, b>>
<1>1. /\ s \in Seq(S) /\ Len(s) = 1 /\ s[1] = a
      /\ t \in Seq(S) /\ Len(t) = 1 /\ t[1] = b
      /\ u \in Seq(S) /\ Len(u) = 2 /\ u[1] = a /\ u[2] = b
  OBVIOUS
<1> HIDE DEF s, t, u, S
<1>2. /\ s \o t \in Seq(S) /\ Len(s \o t) = Len(s) + Len(t)
      /\ \A i \in 1 .. Len(s) + Len(t) :
           (s \o t)[i] = IF i <= Len(s) THEN s[i] ELSE t[i - Len(s)]
  BY <1>1, ConcatProperties
<1>3. \A i \in 1 .. Len(s \o t) : (s \o t)[i] = u[i]
  BY <1>1, <1>2
<1>4. s \o t = u
  BY <1>1, <1>2, <1>3, SeqEqual
<1> QED
  BY <1>4 DEF s, t, u

(* The first pointer that is present, of one and of two.                    *)
LEMMA FirstOfOne ==
  ASSUME NEW a
  PROVE  {i \in DOMAIN <<a>> : <<a>>[i] # NULL} = IF a = NULL THEN {} ELSE {1}
<1>1. DOMAIN <<a>> = {1}
  OBVIOUS
<1>2. <<a>>[1] = a
  OBVIOUS
<1> QED
  BY <1>1, <1>2

LEMMA FirstOfTwo ==
  ASSUME NEW a, NEW b
  PROVE  {i \in DOMAIN <<a, b>> : <<a, b>>[i] # NULL} =
           IF a # NULL THEN (IF b # NULL THEN {1, 2} ELSE {1})
           ELSE (IF b # NULL THEN {2} ELSE {})
<1>1. DOMAIN <<a, b>> = {1, 2}
  OBVIOUS
<1>2. <<a, b>>[1] = a /\ <<a, b>>[2] = b
  OBVIOUS
<1> QED
  BY <1>1, <1>2

(* What a narrow pointer alone publishes.                                   *)
LEMMA PointedToOne ==
  ASSUME NEW function, NEW a
  PROVE  PointedTo(function, <<a>>) = Pending(function, a)
<1>1. <<a>>[1] = a
  OBVIOUS
<1> QED
  BY <1>1, FirstOfOne, MinOfPair DEF PointedTo, Pending

(* What a wide pointer and a narrow one publish.                            *)
LEMMA PointedToTwo ==
  ASSUME NEW function, NEW a, NEW b
  PROVE  PointedTo(function, <<a, b>>) = Pending(function, IF a # NULL THEN a ELSE b)
<1> DEFINE s == <<a, b>>
           present == {i \in DOMAIN s : s[i] # NULL}
<1>1. s[1] = a /\ s[2] = b
  OBVIOUS
<1>2. present = IF a # NULL THEN (IF b # NULL THEN {1, 2} ELSE {1})
                ELSE (IF b # NULL THEN {2} ELSE {})
  BY FirstOfTwo
<1>3. PointedTo(function, s) =
        IF present = {} THEN <<>> ELSE <<Line(function, s[Min(present)])>>
  BY DEF PointedTo
<1> HIDE DEF present, s
<1>4. CASE a # NULL
  <2>1. present # {} /\ Min(present) = 1
    BY <1>2, <1>4, MinOfPair
  <2> QED
    BY <1>1, <1>3, <1>4, <2>1 DEF Pending, s
<1>5. CASE a = NULL /\ b # NULL
  <2>1. present # {} /\ Min(present) = 2
    BY <1>2, <1>5, MinOfPair
  <2> QED
    BY <1>1, <1>3, <1>5, <2>1 DEF Pending, s
<1>6. CASE a = NULL /\ b = NULL
  <2>1. present = {}
    BY <1>2, <1>6
  <2> QED
    BY <1>3, <1>6, <2>1 DEF Pending, s
<1> QED
  BY <1>4, <1>5, <1>6

(* The list that the code walks is the list in force.                       *)
LEMMA EntriesInForce ==
  ASSUME firmware \in Firmwares
  PROVE  /\ ScanAcpiRSDP = NULL => InForce = <<>>
         /\ ScanAcpiRSDP # NULL => Entries = InForce
         /\ InForce \in Seq(Pointers) /\ Len(InForce) < MaxFiles
         /\ \A i, j \in 1 .. Len(InForce) :
              InForce[i] \in Fadts /\ InForce[j] \in Fadts => i = j
<1> DEFINE rsdp == IF firmware.v20 = NULL THEN firmware.v10 ELSE firmware.v20
           two == firmware.v20 # NULL /\ rsdp.Revision >= 2
           lists == IF two THEN <<rsdp.xsdt, rsdp.rsdt>> ELSE <<rsdp.rsdt>>
           present == {i \in DOMAIN lists : lists[i] # NULL}
           Good(l) == /\ l \in Seq(Pointers) /\ Len(l) < MaxFiles
                      /\ \A i, j \in 1 .. Len(l) : l[i] \in Fadts /\ l[j] \in Fadts => i = j
<1>1. ScanAcpiRSDP = rsdp
  BY DEF ScanAcpiRSDP
<1>2. mIsAcpi20 <=> two
  BY Zenon DEF mIsAcpi20
<1>3. InForce = IF rsdp = NULL THEN <<>>
                ELSE IF present = {} THEN <<>> ELSE lists[Min(present)]
  BY Zenon DEF InForce
<1>4. rsdp # NULL => (rsdp.rsdt # NULL => Good(rsdp.rsdt)) /\ (rsdp.xsdt # NULL => Good(rsdp.xsdt))
  <2>1. ASSUME rsdp # NULL, NEW entries \in {rsdp.rsdt, rsdp.xsdt} \ {NULL}
        PROVE  Good(entries)
    <3>1. rsdp \in {firmware.v10, firmware.v20} \ {NULL}
      BY <2>1
    <3> HIDE DEF rsdp
    <3>2. /\ entries \in Seq(Pointers) /\ Len(entries) < MaxFiles
          /\ \A i, j \in DOMAIN entries : entries[i] \in Fadts /\ entries[j] \in Fadts => i = j
      BY <2>1, <3>1, FirmwareAssumption
    <3>3. DOMAIN entries = 1 .. Len(entries)
      BY <3>2, LenProperties
    <3> QED
      BY <3>2, <3>3
  <2> HIDE DEF Good, rsdp
  <2> QED
    BY <2>1
<1>5. Good(<<>>)
  BY AcpiAssumption
<1>6. Xsdt = (IF two THEN rsdp.xsdt ELSE NULL) /\ Rsdt = rsdp.rsdt
  BY <1>1, <1>2 DEF Xsdt, Rsdt
<1>7. Entries = IF Xsdt # NULL THEN Xsdt ELSE IF Rsdt # NULL THEN Rsdt ELSE <<>>
  BY DEF Entries
<1>8. present = IF two THEN (IF rsdp.xsdt # NULL THEN (IF rsdp.rsdt # NULL THEN {1, 2} ELSE {1})
                             ELSE (IF rsdp.rsdt # NULL THEN {2} ELSE {}))
                ELSE IF rsdp.rsdt # NULL THEN {1} ELSE {}
  <2> HIDE DEF rsdp, two
  <2>1. CASE two
    <3>1. lists = <<rsdp.xsdt, rsdp.rsdt>>
      BY <2>1
    <3> HIDE DEF lists
    <3> QED
      BY <2>1, <3>1, FirstOfTwo
  <2>2. CASE ~two
    <3>1. lists = <<rsdp.rsdt>>
      BY <2>2
    <3> HIDE DEF lists
    <3>2. present = IF rsdp.rsdt = NULL THEN {} ELSE {1}
      BY <3>1, FirstOfOne
    <3> QED
      BY <2>2, <3>2
  <2> QED
    BY <2>1, <2>2
<1>9. /\ two => lists[1] = rsdp.xsdt /\ lists[2] = rsdp.rsdt
      /\ ~two => lists[1] = rsdp.rsdt
  <2> HIDE DEF rsdp, two
  <2> QED
    OBVIOUS
<1> HIDE DEF rsdp, two, lists, present, Good
<1>10. rsdp # NULL => Entries = InForce
  <2>1. ASSUME rsdp # NULL, present = {}
        PROVE  Entries = InForce
    BY <1>3, <1>6, <1>7, <1>8, <2>1
  <2>2. ASSUME rsdp # NULL, present # {}
        PROVE  Entries = InForce
    <3>1. CASE Xsdt # NULL
      <4>1. two /\ Xsdt = rsdp.xsdt
        BY <1>6, <3>1
      <4>2. Min(present) = 1
        BY <1>8, <3>1, <4>1, MinOfPair
      <4> QED
        BY <1>3, <1>7, <1>9, <2>2, <3>1, <4>1, <4>2
    <3>2. CASE Xsdt = NULL
      <4>1. Rsdt # NULL /\ Min(present) = (IF two THEN 2 ELSE 1)
        BY <1>6, <1>8, <2>2, <3>2, MinOfPair
      <4> QED
        BY <1>3, <1>6, <1>7, <1>9, <2>2, <3>2, <4>1
    <3> QED
      BY <3>1, <3>2
  <2> QED
    BY <2>1, <2>2
<1>11. Good(InForce)
  <2>1. CASE rsdp = NULL
    BY <1>3, <1>5, <2>1
  <2>2. CASE rsdp # NULL
    <3>1. InForce = IF Xsdt # NULL THEN Xsdt ELSE IF Rsdt # NULL THEN Rsdt ELSE <<>>
      BY <1>7, <1>10, <2>2
    <3> QED
      BY <1>4, <1>5, <1>6, <2>2, <3>1
  <2> QED
    BY <2>1, <2>2
<1> QED
  BY <1>1, <1>3, <1>10, <1>11 DEF Good

(* What an entry publishes, in the pointers that the code takes.            *)
FacsOf(p) == IF Table[p].Extended /\ Table[p].XFirmwareCtrl # NULL
             THEN Table[p].XFirmwareCtrl ELSE Table[p].FirmwareCtrl
DsdtOf(p) == IF Table[p].Extended /\ Table[p].XDsdt # NULL
             THEN Table[p].XDsdt ELSE Table[p].Dsdt

(* The five libraries that DumpACPIEntryPoint registers itself.             *)
LEMMA EntryPointSignsAre ==
  /\ EntryPointSigns \in Seq(Signatures)
  /\ ToSet(EntryPointSigns) = {"FACP", "FACS", "DSDT", "SSDT", "PSDT"}
<1> DEFINE E == EntryPointSigns
<1>1. E \in Seq(Signatures) /\ DOMAIN E = 1 .. 5
  <2>1. /\ "FACP" \in Signatures /\ "FACS" \in Signatures /\ "DSDT" \in Signatures
        /\ "SSDT" \in Signatures /\ "PSDT" \in Signatures
    BY DEF Signatures
  <2>2. /\ <<"FACP", "FACS", "DSDT", "SSDT", "PSDT">> \in Seq(Signatures)
        /\ DOMAIN <<"FACP", "FACS", "DSDT", "SSDT", "PSDT">> = 1 .. 5
    <3> HIDE DEF Signatures
    <3> QED
      BY ONLY <2>1
  <2> QED
    BY <2>2 DEF EntryPointSigns
<1>2. ToSet(E) = {E[i] : i \in 1 .. 5}
  BY <1>1 DEF ToSet
<1>3. 1 .. 5 = {1, 2, 3, 4, 5}
  OBVIOUS
<1>4. ToSet(E) = {E[1], E[2], E[3], E[4], E[5]}
  BY <1>2, <1>3
<1> QED
  BY <1>1, <1>4 DEF EntryPointSigns

(* What a library prints of a table is a line; the roots have no library.   *)
LEMMA LinesOfLibraries ==
  /\ \A function \in Libraries, p \in DOMAIN Table : Line(function, p) \in Lines
  /\ {"FACP", "FACS", "DSDT", "SSDT", "PSDT", "any"} \subseteq Libraries
  /\ \A sign : LibraryFor(sign) \in Libraries
  /\ LibraryFor("FACP") = "FACP"
  /\ Libraries \cap RootSigns = {}
<1> DEFINE E == EntryPointSigns
           A == ToSet(Linked \o E)
<1>1. E \in Seq(Signatures) /\ ToSet(E) = {"FACP", "FACS", "DSDT", "SSDT", "PSDT"}
  BY EntryPointSignsAre
<1>2. A = ToSet(Linked) \cup ToSet(E)
  <2>1. STRING \subseteq Signatures
    BY DEF Signatures
  <2>2. Linked \in Seq(Signatures) /\ E \in Seq(Signatures)
    BY <1>1, <2>1, RegistryAssumption, SeqMonotonic
  <2> HIDE DEF E
  <2> QED
    BY ONLY <2>2, ConcatMembers DEF A
<1>3. Libraries = A \cup {"any"}
  BY DEF Libraries
<1>4. \A sign : LibraryFor(sign) = IF sign \in A THEN sign ELSE "any"
  BY DEF LibraryFor
<1> HIDE DEF E, A
<1>5. Libraries \cap RootSigns = {}
  BY <1>1, <1>2, <1>3, RegistryAssumption DEF RootSigns
<1>6. \A function \in Libraries, p \in DOMAIN Table : Line(function, p) \in Lines
  BY DEF Line, Lines
<1> QED
  BY <1>1, <1>2, <1>3, <1>4, <1>5, <1>6

(* There is room for all of them.                                           *)
LEMMA LibrariesFit ==
  Linked \o EntryPointSigns \in Seq(Signatures) /\ Len(Linked \o EntryPointSigns) <= MaxFuncs
<1>1. EntryPointSigns \in Seq(Signatures)
  BY EntryPointSignsAre
<1>2. Linked \in Seq(Signatures)
  <2>1. STRING \subseteq Signatures
    BY DEF Signatures
  <2> QED
    BY <2>1, RegistryAssumption, SeqMonotonic
<1>3. /\ Linked \o EntryPointSigns \in Seq(Signatures)
      /\ Len(Linked \o EntryPointSigns) = Len(Linked) + Len(EntryPointSigns)
  BY <1>1, <1>2, ConcatProperties
<1> QED
  BY <1>3, RegistryAssumption

(* What one entry publishes, in the pointers that the code takes.           *)
LEMMA PublishedByEntry ==
  ASSUME NEW p \in DOMAIN Table
  PROVE  /\ p \notin Fadts => PublishedBy(p) = <<Line(LibraryFor(Table[p].Signature), p)>>
         /\ p \in Fadts => PublishedBy(p) =
              <<Line("FACP", p)>> \o (Pending("FACS", FacsOf(p)) \o Pending("DSDT", DsdtOf(p)))
         /\ PublishedBy(NULL) = <<>>
<1> DEFINE t == Table[p]
           Wide(q) == IF t.Extended THEN <<q>> ELSE <<>>
<1>1. p # NULL /\ (p \in Fadts <=> t.Signature = "FACP")
  BY AcpiAssumption DEF Fadts
<1>2. PublishedBy(p) =
        IF t.Signature # "FACP" THEN <<Line(LibraryFor(t.Signature), p)>>
        ELSE <<Line("FACP", p)>>
               \o (PointedTo("FACS", Wide(t.XFirmwareCtrl) \o <<t.FirmwareCtrl>>)
               \o PointedTo("DSDT", Wide(t.XDsdt) \o <<t.Dsdt>>))
  BY <1>1, Zenon DEF PublishedBy
<1>3. PublishedBy(NULL) = <<>>
  BY Zenon DEF PublishedBy
<1>4. ASSUME NEW function, NEW wide, NEW narrow
      PROVE  PointedTo(function, Wide(wide) \o <<narrow>>) =
               Pending(function, IF t.Extended /\ wide # NULL THEN wide ELSE narrow)
  <2>1. CASE t.Extended
    <3>1. Wide(wide) \o <<narrow>> = <<wide, narrow>>
      BY <2>1, PairConcat
    <3>2. (IF t.Extended /\ wide # NULL THEN wide ELSE narrow) = IF wide # NULL THEN wide ELSE narrow
      BY <2>1
    <3>3. PointedTo(function, <<wide, narrow>>) =
            Pending(function, IF wide # NULL THEN wide ELSE narrow)
      BY PointedToTwo
    <3> QED
      BY <3>1, <3>2, <3>3, Zenon
  <2>2. CASE ~t.Extended
    <3>1. Wide(wide) \o <<narrow>> = <<narrow>>
      <4>1. <<narrow>> \in Seq({narrow})
        OBVIOUS
      <4>2. <<>> \o <<narrow>> = <<narrow>>
        BY <4>1, ConcatEmptySeq
      <4> QED
        BY <2>2, <4>2
    <3> QED
      BY <2>2, <3>1, PointedToOne
  <2> QED
    BY <2>1, <2>2
<1>5. /\ PointedTo("FACS", Wide(t.XFirmwareCtrl) \o <<t.FirmwareCtrl>>) = Pending("FACS", FacsOf(p))
      /\ PointedTo("DSDT", Wide(t.XDsdt) \o <<t.Dsdt>>) = Pending("DSDT", DsdtOf(p))
  BY <1>4, Zenon DEF FacsOf, DsdtOf
<1> QED
  BY <1>1, <1>2, <1>3, <1>5

(* A FADT points to a FACS and to a DSDT, or nowhere.                       *)
LEMMA PointersOfFadt ==
  ASSUME NEW p \in Fadts
  PROVE  /\ FacsOf(p) \in Pointers /\ DsdtOf(p) \in Pointers
         /\ FacsOf(p) # NULL => FacsOf(p) \in DOMAIN Table /\ Table[FacsOf(p)].Signature = "FACS"
         /\ DsdtOf(p) # NULL => DsdtOf(p) \in DOMAIN Table /\ Table[DsdtOf(p)].Signature = "DSDT"
<1>1. /\ \A q \in {Table[p].FirmwareCtrl, Table[p].XFirmwareCtrl} :
           q = NULL \/ (q \in DOMAIN Table /\ Table[q].Signature = "FACS")
      /\ \A q \in {Table[p].Dsdt, Table[p].XDsdt} :
           q = NULL \/ (q \in DOMAIN Table /\ Table[q].Signature = "DSDT")
  BY TableAssumption, Zenon
<1> QED
  BY <1>1 DEF FacsOf, DsdtOf, Pointers

(* What a pointer adds to the output.                                       *)
LEMMA LinesOfPointer ==
  ASSUME NEW function \in Libraries, NEW p \in Pointers
  PROVE  /\ Pending(function, p) \in Seq(Lines)
         /\ p # NULL => p \in DOMAIN Table /\ Line(function, p) \in Lines
<1>1. p # NULL => p \in DOMAIN Table /\ Line(function, p) \in Lines
  BY LinesOfLibraries DEF Pointers
<1> QED
  BY <1>1 DEF Pending

(* What an entry adds to what is published.                                 *)
LEMMA LinesOfEntry ==
  ASSUME NEW p \in Pointers
  PROVE  PublishedBy(p) \in Seq(Lines)
<1>1. CASE p = NULL
  <2>1. PublishedBy(NULL) = <<>>
    BY Zenon DEF PublishedBy
  <2> QED
    BY <1>1, <2>1
<1>2. CASE p # NULL /\ p \notin Fadts
  <2>1. p \in DOMAIN Table
    BY <1>2 DEF Pointers
  <2>2. PublishedBy(p) = <<Line(LibraryFor(Table[p].Signature), p)>>
    BY <1>2, <2>1, PublishedByEntry
  <2>3. Line(LibraryFor(Table[p].Signature), p) \in Lines
    BY <2>1, LinesOfLibraries
  <2> QED
    BY <2>2, <2>3
<1>3. CASE p \in Fadts
  <2>1. p \in DOMAIN Table
    BY <1>3 DEF Fadts
  <2> DEFINE one == <<Line("FACP", p)>>
             two == Pending("FACS", FacsOf(p))
             three == Pending("DSDT", DsdtOf(p))
  <2>2. PublishedBy(p) = one \o (two \o three)
    BY <1>3, <2>1, PublishedByEntry
  <2>3. one \in Seq(Lines)
    <3>1. Line("FACP", p) \in Lines
      BY <2>1, LinesOfLibraries
    <3> QED
      BY <3>1
  <2>4. two \in Seq(Lines) /\ three \in Seq(Lines)
    BY <1>3, PointersOfFadt, LinesOfLibraries, LinesOfPointer
  <2> HIDE DEF one, two, three
  <2> QED
    BY <2>2, <2>3, <2>4, ConcatProperties
<1> QED
  BY <1>1, <1>2, <1>3

(* What the entries publish, entry by entry.                                *)
LEMMA PublishedSteps ==
  ASSUME firmware \in Firmwares
  PROVE  /\ PublishedUpTo(0) = <<>>
         /\ \A n \in 1 .. Len(InForce) :
              /\ PublishedUpTo(n) = PublishedUpTo(n - 1) \o PublishedBy(InForce[n])
              /\ PublishedBy(InForce[n]) \in Seq(Lines) /\ InForce[n] \in Pointers
         /\ \A n \in 0 .. Len(InForce) : PublishedUpTo(n) \in Seq(Lines)
<1> DEFINE L == Len(InForce)
           T == Seq(Lines)
           seqs(n) == [i \in 1 .. n |-> PublishedBy(InForce[i])]
<1>1. L \in Nat /\ \A i \in 1 .. L : InForce[i] \in Pointers
  <2>1. InForce \in Seq(Pointers)
    BY EntriesInForce
  <2> QED
    BY <2>1
<1>2. \A i \in 1 .. L : PublishedBy(InForce[i]) \in T
  <2> HIDE DEF L
  <2> QED
    BY <1>1, LinesOfEntry
<1>3. ASSUME NEW n \in 0 .. L
      PROVE  seqs(n) \in Seq(T) /\ Len(seqs(n)) = n
  <2> HIDE DEF L, T
  <2>1. n \in Nat /\ \A i \in 1 .. n : PublishedBy(InForce[i]) \in T
    BY <1>1, <1>2
  <2> QED
    BY <2>1
<1>4. \A n \in 0 .. L : PublishedUpTo(n) = FlattenSeq(seqs(n))
  BY Zenon DEF PublishedUpTo
<1>5. PublishedUpTo(0) = <<>>
  <2>1. 0 \in 0 .. L
    BY <1>1
  <2>2. FlattenSeq(seqs(0)) = seqs(0)
    BY <1>3, <2>1 DEF FlattenSeq
  <2>3. seqs(0) = <<>>
    <3>1. 1 .. 0 = {}
      OBVIOUS
    <3> QED
      OBVIOUS
  <2> QED
    BY <1>4, <2>1, <2>2, <2>3
<1>6. ASSUME NEW n \in 1 .. L
      PROVE  PublishedUpTo(n) = PublishedUpTo(n - 1) \o PublishedBy(InForce[n])
  <2>1. n \in 0 .. L /\ n - 1 \in 0 .. L
    BY <1>1
  <2> DEFINE s == seqs(n - 1)
             t == seqs(n)
             e == PublishedBy(InForce[n])
  <2>2. s \in Seq(T) /\ Len(s) = n - 1 /\ t \in Seq(T) /\ Len(t) = n /\ e \in T
    BY <1>2, <1>3, <2>1
  <2>3. \A i \in 1 .. n : t[i] = IF i = n THEN e ELSE s[i]
    <3>1. \A i \in 1 .. n : i # n => i \in 1 .. n - 1
      BY <1>1
    <3> QED
      BY <3>1
  <2> HIDE DEF s, t, e, T, L
  <2>4. Append(s, e) \in Seq(T) /\ Len(Append(s, e)) = n
        /\ \A i \in 1 .. n : Append(s, e)[i] = IF i = n THEN e ELSE s[i]
    <3>1. /\ Append(s, e) \in Seq(T) /\ Len(Append(s, e)) = Len(s) + 1
          /\ \A i \in 1 .. Len(s) : Append(s, e)[i] = s[i]
          /\ Append(s, e)[Len(s) + 1] = e
      BY <2>2, AppendProperties
    <3> QED
      BY <1>1, <2>1, <2>2, <3>1
  <2>5. t = Append(s, e)
    <3> DEFINE u == Append(s, e)
    <3>1. u \in Seq(T) /\ Len(u) = n /\ \A i \in 1 .. n : u[i] = t[i]
      BY <2>3, <2>4
    <3> HIDE DEF u
    <3>2. t = u
      BY <2>2, <3>1, SeqEqual
    <3> QED
      BY <3>2 DEF u
  <2>6. FlattenSeq(Append(s, e)) = FlattenSeq(s) \o e
    BY <2>2, FlattenAppend DEF T
  <2>7. PublishedUpTo(n) = FlattenSeq(t) /\ PublishedUpTo(n - 1) = FlattenSeq(s)
    BY <1>4, <2>1 DEF s, t
  <2> QED
    BY <2>5, <2>6, <2>7 DEF e
<1> HIDE DEF T, seqs
<1> DEFINE Good == {n \in 0 .. L : PublishedUpTo(n) \in T}
<1>7. 0 \in Good
  <2>1. <<>> \in T
    BY DEF T
  <2>2. PublishedUpTo(0) \in T /\ 0 \in 0 .. L
    BY <1>1, <1>5, <2>1
  <2> QED
    BY <2>2
<1>8. ASSUME NEW n \in 1 .. L, n - 1 \in Good
      PROVE  n \in Good
  <2>1. n \in 0 .. L /\ PublishedUpTo(n - 1) \in T
    BY <1>1, <1>8
  <2>2. PublishedUpTo(n - 1) \o PublishedBy(InForce[n]) \in T
    BY <1>2, <2>1, ConcatProperties DEF T
  <2> QED
    BY <1>6, <2>1, <2>2
<1>9. 0 .. L \subseteq Good
  <2> HIDE DEF Good, L
  <2> QED
    BY <1>1, <1>7, <1>8, UpTo
<1> QED
  BY <1>1, <1>2, <1>5, <1>6, <1>9 DEF T

(* What is published begins with what the first entries publish.            *)
LEMMA PublishedRest ==
  ASSUME firmware \in Firmwares, NEW n \in 0 .. Len(InForce)
  PROVE  \E rest \in Seq(Lines) : Published = PublishedUpTo(n) \o rest
<1> DEFINE L == Len(InForce)
           T == Seq(Lines)
           Up(m) == PublishedUpTo(m)
           Reaches(m) == m < n \/ \E rest \in T : Up(m) = Up(n) \o rest
           Good == {m \in 0 .. L : Reaches(m)}
<1>1. L \in Nat /\ n \in 0 .. L
  <2>1. InForce \in Seq(Pointers)
    BY EntriesInForce
  <2> QED
    BY <2>1
<1>2. /\ \A m \in 1 .. L : Up(m) = Up(m - 1) \o PublishedBy(InForce[m])
                           /\ PublishedBy(InForce[m]) \in T
      /\ \A m \in 0 .. L : Up(m) \in T
  BY PublishedSteps
<1>3. \E rest \in T : Up(n) = Up(n) \o rest
  <2>1. Up(n) \o <<>> = Up(n) /\ <<>> \in T
    BY <1>1, <1>2, ConcatEmptySeq
  <2> HIDE DEF T, Up
  <2> QED
    BY <2>1
<1> HIDE DEF L, T, Up
<1>4. 0 \in Good
  <2>1. 0 \in 0 .. L /\ (0 < n \/ n = 0)
    BY <1>1
  <2>2. Reaches(0)
    BY <1>3, <2>1, Zenon
  <2> HIDE DEF Reaches
  <2> QED
    BY <2>1, <2>2
<1>5. ASSUME NEW m \in 1 .. L, m - 1 \in Good
      PROVE  m \in Good
  <2>1. m \in 0 .. L
    BY <1>1
  <2>2. CASE m < n
    BY <2>1, <2>2
  <2>3. CASE m = n
    BY <1>3, <2>1, <2>3
  <2>4. CASE n < m
    <3>1. ~ (m - 1 < n)
      BY <1>1, <2>4
    <3>2. PICK rest \in T : Up(m - 1) = Up(n) \o rest
      BY <1>5, <3>1
    <3> DEFINE e == PublishedBy(InForce[m])
    <3>3. Up(m) = Up(m - 1) \o e /\ e \in T /\ Up(n) \in T
      BY <1>1, <1>2
    <3> HIDE DEF e
    <3>4. (Up(n) \o rest) \o e = Up(n) \o (rest \o e) /\ rest \o e \in T
      <4>1. Up(n) \in Seq(Lines) /\ rest \in Seq(Lines) /\ e \in Seq(Lines)
        BY <3>2, <3>3 DEF T
      <4> QED
        BY ONLY <4>1, ConcatAssociative, ConcatProperties, SMTT(40) DEF T
    <3> QED
      BY <2>1, <3>2, <3>3, <3>4
  <2> QED
    BY <1>1, <2>2, <2>3, <2>4
<1>6. L \in Good
  <2> HIDE DEF Good
  <2>1. 0 .. L \subseteq Good
    BY <1>1, <1>4, <1>5, UpTo
  <2> QED
    BY <1>1, <2>1
<1>7. \E rest \in T : Up(L) = Up(n) \o rest
  BY <1>1, <1>6
<1> QED
  BY <1>7 DEF L, T, Up, Published

-----------------------------------------------------------------------------
(* A table that a library has printed.                                      *)
LEMMA PrintedOne ==
  ASSUME printed \in Seq(Lines), NEW function \in Libraries, NEW p \in DOMAIN Table,
         printed' = Append(printed, Line(function, p))
  PROVE  /\ printed' \in Seq(Lines)
         /\ PrintedTables \in Seq(Lines)
         /\ PrintedTables' = PrintedTables \o Pending(function, p)
         /\ \A sign : Where(printed', LinesBy({sign})) =
              IF sign = function THEN Append(Where(printed, LinesBy({sign})), Line(function, p))
              ELSE Where(printed, LinesBy({sign}))
<1> DEFINE line == Line(function, p)
<1>1. line \in Lines /\ p # NULL /\ line \in LinesBy(Libraries)
      /\ \A sign : line \in LinesBy({sign}) <=> sign = function
  BY LinesOfLibraries, AcpiAssumption DEF LinesBy, Line
<1>2. Pending(function, p) = <<line>>
  BY <1>1 DEF Pending
<1> HIDE DEF line
<1>3. printed' = Append(printed, line)
  BY DEF line
<1>4. printed' \in Seq(Lines)
  BY <1>1, <1>3, AppendProperties
<1>5. PrintedTables \in Seq(Lines)
  BY WhereElements DEF PrintedTables
<1>6. PrintedTables' = Append(PrintedTables, line)
  <2>1. Where(Append(printed, line), LinesBy(Libraries)) =
          Append(Where(printed, LinesBy(Libraries)), line)
    BY <1>1, WhereAppend
  <2> QED
    BY <1>3, <2>1 DEF PrintedTables
<1>7. Append(PrintedTables, line) = PrintedTables \o <<line>>
  BY <1>1, <1>5, AppendIsConcat
<1>8. ASSUME NEW sign
      PROVE  Where(printed', LinesBy({sign})) =
               IF sign = function THEN Append(Where(printed, LinesBy({sign})), line)
               ELSE Where(printed, LinesBy({sign}))
  <2> DEFINE Keep == LinesBy({sign})
  <2>1. line \in Keep <=> sign = function
    BY <1>1
  <2> HIDE DEF Keep
  <2>2. Where(Append(printed, line), Keep) =
          IF line \in Keep THEN Append(Where(printed, Keep), line) ELSE Where(printed, Keep)
    BY <1>1, WhereAppend
  <2> QED
    BY <1>3, <2>1, <2>2 DEF Keep
<1> QED
  BY <1>2, <1>4, <1>5, <1>6, <1>7, <1>8 DEF line

(* What a file is after it has been written.                                *)
LEMMA WrittenFile ==
  ASSUME NEW file \in Seq(Bytes), NEW p \in DOMAIN Table, NEW n \in Nat
  PROVE  /\ Write(file, p, n) \in Seq(Bytes)
         /\ n = Table[p].Length => Holds(Write(file, p, n), p)
<1> DEFINE L == Len(file)
           M == IF n > L THEN n ELSE L
           w == [i \in 1 .. M |-> IF i <= n THEN p ELSE file[i]]
<1>1. L \in Nat /\ \A i \in 1 .. L : file[i] \in Bytes
  OBVIOUS
<1>2. M \in Nat /\ n <= M /\ p \in Bytes
  BY <1>1 DEF Bytes
<1>3. \A i \in 1 .. M : (IF i <= n THEN p ELSE file[i]) \in Bytes
  BY <1>1, <1>2
<1>4. Write(file, p, n) = w
  BY DEF Write
<1> HIDE DEF L, M
<1>5. w \in Seq(Bytes) /\ Len(w) = M
  BY <1>2, <1>3
<1>6. \A i \in 1 .. n : w[i] = p
  BY <1>2
<1> HIDE DEF w
<1> QED
  BY <1>2, <1>4, <1>5, <1>6 DEF Holds

(* One call of a library's function.                                        *)
LEMMA DumpStep ==
  ASSUME Typed, NEW function \in Libraries, NEW p \in DOMAIN Table, NEW next,
         Dump(function, p, next)
  PROVE  /\ files' \in Files /\ FileIndex' \in [AmlSigns -> Nat] /\ printed' \in Seq(Lines)
         /\ pc' = next \/ pc' = "Assert"
         /\ PrintedTables \in Seq(Lines)
         /\ PrintedTables' = PrintedTables \o Pending(function, p)
         /\ \A sign \in AmlSigns :
              FileIndex'[sign] = FileIndex[sign]
                \/ (sign = function /\ FileIndex'[sign] = FileIndex[sign] + 1)
         /\ (mIsDumpData /\ Written /\ (\A sign \in AmlSigns : FileIndex[sign] < MaxFiles)
               /\ pc' # "Assert") => Written'
<1>1. /\ files \in Files /\ FileIndex \in [AmlSigns -> Nat] /\ printed \in Seq(Lines)
      /\ printed' = Append(printed, Line(function, p))
  BY DEF Typed, Dump
<1>2. /\ printed' \in Seq(Lines) /\ PrintedTables \in Seq(Lines)
      /\ PrintedTables' = PrintedTables \o Pending(function, p)
  BY <1>1, PrintedOne
<1> DEFINE Earlier(sign) == Where(printed, LinesBy({sign}))
           Later1(sign) == Where(printed', LinesBy({sign}))
<1>3. \A sign : Later1(sign) = IF sign = function THEN Append(Earlier(sign), Line(function, p))
                               ELSE Earlier(sign)
  BY <1>1, PrintedOne
<1>4. \A sign : Earlier(sign) \in Seq(Lines)
  BY <1>1, WhereElements
<1>5. Line(function, p) \in Lines /\ Line(function, p).table = p
  BY LinesOfLibraries DEF Line
<1>6. Written <=> \A sign \in AmlSigns :
        /\ FileIndex[sign] = Len(Earlier(sign))
        /\ FileIndex[sign] <= MaxFiles
        /\ \A n \in 1 .. Len(Earlier(sign)) : Holds(files[<<sign, n>>], Earlier(sign)[n].table)
  BY Zenon DEF Written
<1>7. Written' <=> \A sign \in AmlSigns :
        /\ FileIndex'[sign] = Len(Later1(sign))
        /\ FileIndex'[sign] <= MaxFiles
        /\ \A n \in 1 .. Len(Later1(sign)) : Holds(files'[<<sign, n>>], Later1(sign)[n].table)
  BY Zenon DEF Written
<1> HIDE DEF Earlier, Later1
<1>8. CASE ~ (mIsDumpData /\ function \in AmlSigns)
  <2>1. pc' = next /\ FileIndex' = FileIndex /\ files' = files
    BY <1>8 DEF Dump
  <2>2. mIsDumpData => \A sign \in AmlSigns : Later1(sign) = Earlier(sign)
    BY <1>3, <1>8
  <2>3. mIsDumpData /\ Written => Written'
    BY <1>6, <1>7, <2>1, <2>2
  <2> QED
    BY <1>1, <1>2, <2>1, <2>3
<1>9. CASE mIsDumpData /\ function \in AmlSigns
  <2> DEFINE k == FileIndex[function] + 1
             name == <<function, k>>
  <2>1. k \in Nat /\ k >= 1
    BY <1>1, <1>9
  <2>2. WriteAml(function, p, next)
    BY <1>9 DEF Dump
  <2>3. FileIndex' = [FileIndex EXCEPT ![function] = FileIndex[function] + 1]
    BY <2>2 DEF WriteAml
  <2>4. /\ FileIndex' \in [AmlSigns -> Nat] /\ FileIndex'[function] = k
        /\ \A sign \in AmlSigns : sign # function => FileIndex'[sign] = FileIndex[sign]
    BY <1>1, <1>9, <2>1, <2>3
  <2>5. FileName(function) = name
    BY <2>4 DEF FileName
  <2>6. Table[p].Length \in Nat
    BY TableAssumption
  <2> HIDE DEF k, name
  <2>7. \/ files' = [files EXCEPT ![name] = Write(files[name], p, Table[p].Length)] /\ pc' = next
        \/ /\ \E n \in 0 .. Table[p].Length - 1 :
                files' = [files EXCEPT ![name] = Write(files[name], p, n)]
           /\ pc' = "Assert"
    BY <2>2, <2>5 DEF WriteAml
  <2>8. ASSUME NEW n \in Nat
        PROVE  [files EXCEPT ![name] = Write(files[name], p, n)] \in Files
    <3>1. CASE name \in Names
      <4>1. files[name] \in Seq(Bytes)
        BY <1>1, <3>1 DEF Files
      <4>2. Write(files[name], p, n) \in Seq(Bytes)
        BY <4>1, WrittenFile
      <4> QED
        BY <1>1, <4>2 DEF Files
    <3>2. CASE name \notin Names
      BY <1>1, <3>2 DEF Files
    <3> QED
      BY <3>1, <3>2
  <2>9. files' \in Files
    <3>1. Table[p].Length \in Nat /\ 0 .. Table[p].Length - 1 \subseteq Nat
      BY <2>6
    <3> QED
      BY <2>7, <2>8, <3>1, Zenon
  <2>10. pc' = next \/ pc' = "Assert"
    BY <2>7, Zenon
  <2>11. ASSUME Written, \A sign \in AmlSigns : FileIndex[sign] < MaxFiles, pc' # "Assert"
         PROVE  Written'
    <3>1. files' = [files EXCEPT ![name] = Write(files[name], p, Table[p].Length)]
      BY <2>7, <2>11, Zenon
    <3>2. name \in Names
      <4>1. k \in 1 .. MaxFiles
        BY <1>1, <1>9, <2>1, <2>11, AcpiAssumption DEF k
      <4> QED
        BY <1>9, <4>1 DEF name, Names
    <3>3. files[name] \in Seq(Bytes)
      BY <1>1, <3>2 DEF Files
    <3>4. files'[name] = Write(files[name], p, Table[p].Length)
      BY <1>1, <3>1, <3>2 DEF Files
    <3>5. Holds(files'[name], p)
      BY <2>6, <3>3, <3>4, WrittenFile
    <3>6. \A other \in Names : other # name => files'[other] = files[other]
      BY <1>1, <3>1 DEF Files
    <3>7. ASSUME NEW sign \in AmlSigns
          PROVE  /\ FileIndex'[sign] = Len(Later1(sign))
                 /\ FileIndex'[sign] <= MaxFiles
                 /\ \A n \in 1 .. Len(Later1(sign)) :
                      Holds(files'[<<sign, n>>], Later1(sign)[n].table)
      <4>1. /\ FileIndex[sign] = Len(Earlier(sign)) /\ FileIndex[sign] < MaxFiles
            /\ FileIndex[sign] \in Nat /\ MaxFiles \in Nat
            /\ \A n \in 1 .. Len(Earlier(sign)) : Holds(files[<<sign, n>>], Earlier(sign)[n].table)
        BY <1>1, <1>6, <2>11, AcpiAssumption
      <4>2. \A n \in 1 .. Len(Earlier(sign)) : <<sign, n>> \in Names
        BY <4>1 DEF Names
      <4>3. CASE sign # function
        <5>1. Later1(sign) = Earlier(sign) /\ FileIndex'[sign] = FileIndex[sign]
          BY <1>3, <2>4, <4>3
        <5>2. \A n \in 1 .. Len(Earlier(sign)) : <<sign, n>> # name
          BY <4>3 DEF name
        <5>3. \A n \in 1 .. Len(Earlier(sign)) : files'[<<sign, n>>] = files[<<sign, n>>]
          BY <3>6, <4>2, <5>2
        <5> QED
          BY <4>1, <5>1, <5>3
      <4>4. CASE sign = function
        <5> DEFINE old == Earlier(sign)
                   new == Later1(sign)
                   K == Len(old)
        <5>1. new = Append(old, Line(function, p)) /\ old \in Seq(Lines)
          BY <1>3, <1>4, <4>4
        <5> HIDE DEF old, new
        <5>2. /\ Len(new) = K + 1 /\ new[K + 1] = Line(function, p)
              /\ \A i \in 1 .. K : new[i] = old[i]
          BY <1>5, <5>1, AppendProperties
        <5>3. K = FileIndex[sign] /\ K + 1 = k /\ FileIndex'[sign] = K + 1
          BY <2>4, <4>1, <4>4 DEF k, old
        <5>4. name = <<sign, K + 1>>
          BY <4>4, <5>3 DEF name
        <5>5. Holds(files'[<<sign, K + 1>>], new[K + 1].table)
          BY <1>5, <3>5, <5>2, <5>4
        <5>6. \A n \in 1 .. K : Holds(files'[<<sign, n>>], new[n].table)
          <6>1. ASSUME NEW n \in 1 .. K
                PROVE  Holds(files'[<<sign, n>>], new[n].table)
            <7>1. <<sign, n>> # name
              <8>1. n # K + 1
                BY <4>1, <5>3
              <8> QED
                BY <5>4, <8>1
            <7>2. files'[<<sign, n>>] = files[<<sign, n>>]
              BY <3>6, <4>2, <7>1 DEF old
            <7>3. Holds(files[<<sign, n>>], old[n].table)
              BY <4>1 DEF old
            <7> QED
              BY <5>2, <7>2, <7>3
          <6> QED
            BY <6>1
        <5>7. K \in Nat /\ K < MaxFiles
          BY <4>1, <5>3
        <5> HIDE DEF K
        <5>8. \A n \in 1 .. Len(new) : n \in 1 .. K \/ n = K + 1
          BY <5>2, <5>7
        <5>9. \A n \in 1 .. Len(new) : Holds(files'[<<sign, n>>], new[n].table)
          BY <5>5, <5>6, <5>8
        <5>10. FileIndex'[sign] = Len(new) /\ FileIndex'[sign] <= MaxFiles
          BY <4>1, <5>2, <5>3, <5>7
        <5> QED
          BY <5>9, <5>10 DEF new
      <4> QED
        BY <4>3, <4>4
    <3> QED
      BY <1>7, <3>7
  <2> QED
    BY <1>2, <2>4, <2>9, <2>10, <2>11 DEF k
<1> QED
  BY <1>8, <1>9

-----------------------------------------------------------------------------
(* The firmware stays what it is.                                           *)
LEMMA SameFirmware ==
  ASSUME firmware' = firmware
  PROVE  /\ InForce' = InForce
         /\ Published' = Published
         /\ \A n : PublishedUpTo(n)' = PublishedUpTo(n)
<1>1. InForce' = InForce
  BY Zenon DEF InForce
<1>2. \A n : PublishedUpTo(n)' = PublishedUpTo(n)
  BY <1>1, Zenon DEF PublishedUpTo
<1>3. Published' = Published
  BY <1>1, Zenon DEF Published, PublishedUpTo
<1> QED
  BY <1>1, <1>2, <1>3

(* The root tables are none that a library prints.                          *)
LEMMA OnlyRoots ==
  ASSUME NEW s \in Seq(Lines), \A i \in 1 .. Len(s) : s[i].by \in RootSigns
  PROVE  /\ Where(s, LinesBy(Libraries)) = <<>>
         /\ \A sign \in AmlSigns : Where(s, LinesBy({sign})) = <<>>
<1>1. Libraries \cap RootSigns = {} /\ AmlSigns \cap RootSigns = {}
  BY LinesOfLibraries DEF AmlSigns, RootSigns
<1>2. \A functions, line : line \in LinesBy(functions) => line.by \in functions
  BY DEF LinesBy
<1>3. \A i \in 1 .. Len(s) : s[i] \notin LinesBy(Libraries)
  BY <1>1, <1>2
<1>4. Where(s, LinesBy(Libraries)) = <<>>
  BY <1>3, WhereNone
<1>5. ASSUME NEW sign \in AmlSigns
      PROVE  Where(s, LinesBy({sign})) = <<>>
  <2>1. \A i \in 1 .. Len(s) : s[i] \notin LinesBy({sign})
    BY <1>1, <1>2
  <2> QED
    BY <2>1, WhereNone
<1> QED
  BY <1>4, <1>5

(* The root tables have the signatures of roots.                            *)
LEMMA RootTablesAre ==
  /\ RootTables \in Seq(RootSigns)
  /\ DOMAIN RootTables = 1 .. Len(RootTables) /\ Len(RootTables) \in Nat
<1> DEFINE S == RootSigns
           one == <<"RSDP">>
           two == IF Rsdt = NULL THEN <<>> ELSE <<"RSDT">>
           three == IF Xsdt = NULL THEN <<>> ELSE <<"XSDT">>
<1>1. one \in Seq(S) /\ two \in Seq(S) /\ three \in Seq(S)
  <2>1. "RSDP" \in S /\ "RSDT" \in S /\ "XSDT" \in S
    BY DEF RootSigns
  <2> HIDE DEF S
  <2>2. <<"RSDP">> \in Seq(S) /\ <<"RSDT">> \in Seq(S) /\ <<"XSDT">> \in Seq(S)
        /\ <<>> \in Seq(S)
    BY <2>1
  <2> QED
    BY <2>2, Zenon
<1>2. RootTables = (one \o two) \o three
  BY DEF RootTables
<1> HIDE DEF one, two, three, S
<1>3. RootTables \in Seq(S)
  BY <1>1, <1>2, ConcatProperties
<1>4. DOMAIN RootTables = 1 .. Len(RootTables) /\ Len(RootTables) \in Nat
  BY <1>3, LenProperties
<1> QED
  BY <1>3, <1>4 DEF S

(* A walk begins.                                                           *)
LEMMA NextEntryPoint ==
  ASSUME IInv, DumpACPIEntryPoint
  PROVE  IInv'
<1>1. /\ firmware' = firmware /\ files' = files /\ pc' = "ScanRoots" /\ list' = <<>> /\ Index' = 1
      /\ Facs' = NULL /\ Dsdt' = NULL /\ printed' = <<>>
      /\ FileIndex' = [sign \in AmlSigns |-> 0]
      /\ mIsDumpData' \in BOOLEAN /\ mTableSign' \in Signs \cup {NoSign}
      /\ registry' = Registered(Linked \o EntryPointSigns)
  BY DEF DumpACPIEntryPoint
<1>2. firmware \in Firmwares /\ files \in Files
  BY DEF IInv, Typed
<1>3. registry' \in Seq(Signatures) /\ ToSet(registry') = ToSet(Linked \o EntryPointSigns)
  BY <1>1, LibrariesFit, AllRegistered
<1>4. <<>> \in Seq(Lines) /\ Len(<<>>) = 0 /\ <<>> \in Seq(Pointers)
  OBVIOUS
<1>5. /\ Where(<<>>, LinesBy(Libraries)) = <<>>
      /\ \A sign \in AmlSigns : Where(<<>>, LinesBy({sign})) = <<>>
  BY WhereEmpty
<1>6. Typed'
  BY <1>1, <1>2, <1>3, <1>4 DEF Typed, Modes, Pointers
<1>7. Ready'
  BY <1>1, <1>3 DEF Ready
<1>8. Walking'
  BY <1>1 DEF Walking, Walked
<1>9. Written'
  <2>1. ASSUME NEW sign \in AmlSigns
        PROVE  /\ FileIndex'[sign] = Len(Where(printed', LinesBy({sign})))
               /\ FileIndex'[sign] <= MaxFiles
               /\ Len(Where(printed', LinesBy({sign}))) = 0
    BY <1>1, <1>4, <1>5, AcpiAssumption
  <2>2. 1 .. 0 = {}
    OBVIOUS
  <2> QED
    BY <2>1, <2>2 DEF Written
<1>10. Filed' /\ Enough'
  BY <1>1, <1>9 DEF Filed, Enough
<1>11. Complete'
  <2>1. PrintedTables' = <<>>
    BY <1>1, <1>5 DEF PrintedTables
  <2>2. Published' = Published
    BY <1>1, SameFirmware
  <2>3. \E rest \in Seq(Lines) : Published = <<>> \o rest
    <3>1. PublishedUpTo(0) = <<>> /\ 0 \in 0 .. Len(InForce)
      <4>1. InForce \in Seq(Pointers)
        BY <1>2, EntriesInForce
      <4> QED
        BY <1>2, <4>1, PublishedSteps
    <3> QED
      BY <1>2, <3>1, PublishedRest
  <2> QED
    BY <1>1, <2>1, <2>2, <2>3 DEF Complete
<1>12. Filtered'
  BY <1>1 DEF Filtered
<1> QED
  BY <1>6, <1>7, <1>8, <1>10, <1>11, <1>12, Zenon DEF IInv

(* Without an RSDP nothing is published, and nothing is printed.            *)
LEMMA NextNoRoots ==
  ASSUME IInv, NoRoots
  PROVE  IInv'
<1>1. /\ pc = "ScanRoots" /\ ScanAcpiRSDP = NULL /\ pc' = "Done"
      /\ UNCHANGED <<firmware, options, walk, output>>
  BY DEF NoRoots
<1>2. /\ firmware' = firmware /\ files' = files /\ registry' = registry
      /\ mIsDumpData' = mIsDumpData /\ mTableSign' = mTableSign
      /\ list' = list /\ Index' = Index /\ Facs' = Facs /\ Dsdt' = Dsdt
      /\ FileIndex' = FileIndex /\ printed' = printed
  BY <1>1 DEF options, walk, output
<1>3. Typed'
  BY <1>1, <1>2 DEF IInv, Typed, Modes
<1>4. InForce = <<>> /\ InForce' = InForce /\ firmware \in Firmwares
  BY <1>1, <1>2, EntriesInForce, SameFirmware DEF IInv, Typed
<1>5. list = <<>> /\ printed = <<>>
  BY <1>1 DEF IInv, Walking
<1>6. Ready' /\ Walking'
  BY <1>1, <1>2, <1>4, <1>5 DEF IInv, Ready, Walking, Walked
<1>7. Filed' /\ Enough'
  <2>1. Written' <=> Written
    BY <1>2 DEF Written
  <2> QED
    BY <1>1, <1>2, <2>1 DEF IInv, Filed, Enough
<1>8. Published = <<>> /\ PublishedUpTo(Len(InForce)) = <<>>
  <2>1. Len(InForce) = 0
    BY <1>4
  <2> QED
    BY <1>4, <2>1, PublishedSteps DEF Published
<1>9. PrintedTables = <<>> /\ PrintedTables' = <<>>
  <2>1. Where(printed, LinesBy(Libraries)) = <<>>
    BY <1>5, WhereEmpty
  <2> QED
    BY <1>2, <2>1 DEF PrintedTables
<1>10. /\ Published' = Published /\ \A n : PublishedUpTo(n)' = PublishedUpTo(n)
  BY <1>2, SameFirmware
<1>11. Complete'
  <2>1. <<>> \o <<>> = <<>> /\ <<>> \in Seq(Lines)
    OBVIOUS
  <2> QED
    BY <1>1, <1>8, <1>9, <1>10, <2>1 DEF Complete
<1>12. Filtered'
  <2>1. Where(<<>>, OfSign(mTableSign)) = <<>>
    BY WhereEmpty
  <2>2. Selected(Len(InForce))' = <<>>
    BY <1>2, <1>4, <1>8, <1>10, <2>1 DEF Selected
  <2> QED
    BY <1>1, <1>9, <2>2 DEF Filtered, SameTimes
<1> QED
  BY <1>3, <1>6, <1>7, <1>11, <1>12, Zenon DEF IInv

(* The roots are printed, and no table yet.                                 *)
LEMMA RootsDumped ==
  ASSUME IInv, pc = "ScanRoots", ScanAcpiRSDP # NULL, list' = Entries,
         printed' \in Seq(Lines), \A i \in 1 .. Len(printed') : printed'[i].by \in RootSigns,
         pc' = "Entries" \/ (pc' = "Done" /\ mTableSign \in RootSigns),
         UNCHANGED <<firmware, options, Index, Facs, Dsdt, FileIndex, files>>
  PROVE  IInv'
<1>1. /\ firmware' = firmware /\ files' = files /\ registry' = registry
      /\ mIsDumpData' = mIsDumpData /\ mTableSign' = mTableSign
      /\ Index' = Index /\ Facs' = Facs /\ Dsdt' = Dsdt /\ FileIndex' = FileIndex
  BY DEF options
<1>2. firmware \in Firmwares /\ Entries = InForce /\ InForce' = InForce
      /\ InForce \in Seq(Pointers) /\ Len(InForce) \in Nat /\ Len(InForce) < MaxFiles
  <2>1. firmware \in Firmwares
    BY DEF IInv, Typed
  <2>2. Entries = InForce /\ InForce \in Seq(Pointers) /\ Len(InForce) < MaxFiles
    BY <2>1, EntriesInForce
  <2> QED
    BY <1>1, <2>1, <2>2, SameFirmware
<1>3. /\ Index = 1 /\ Facs = NULL /\ Dsdt = NULL
      /\ \A sign \in AmlSigns : FileIndex[sign] = 0
  BY DEF IInv, Walking, Enough
<1>4. Typed'
  BY <1>1, <1>2, <1>3 DEF IInv, Typed, Modes
<1>5. Ready' /\ Walking'
  BY <1>1, <1>2 DEF IInv, Ready, Walking, Walked
<1>6. Enough'
  BY <1>1, <1>3 DEF Enough
<1>7. PrintedTables' = <<>> /\ \A sign \in AmlSigns : Where(printed', LinesBy({sign})) = <<>>
  BY OnlyRoots DEF PrintedTables
<1>8. Written'
  <2>1. ASSUME NEW sign \in AmlSigns
        PROVE  /\ FileIndex'[sign] = Len(Where(printed', LinesBy({sign})))
               /\ FileIndex'[sign] <= MaxFiles
               /\ Len(Where(printed', LinesBy({sign}))) = 0
    BY <1>1, <1>3, <1>7, AcpiAssumption
  <2>2. 1 .. 0 = {}
    OBVIOUS
  <2> QED
    BY <2>1, <2>2 DEF Written
<1>9. Filed'
  BY <1>8 DEF Filed
<1>10. /\ Published' = Published /\ \A n : PublishedUpTo(n)' = PublishedUpTo(n)
       /\ PublishedUpTo(0) = <<>>
  BY <1>1, <1>2, SameFirmware, PublishedSteps
<1>11. Complete'
  <2>1. mTableSign = NoSign => mTableSign \notin RootSigns
    BY AcpiAssumption
  <2>2. PublishedUpTo(Index - 1)' = <<>>
    <3>1. (Index - 1)' = 0
      BY <1>1, <1>3
    <3> QED
      BY <1>1, <1>2, <1>10, <3>1 DEF PublishedUpTo
  <2>3. \E rest \in Seq(Lines) : Published = PublishedUpTo(0) \o rest
    <3>1. 0 \in 0 .. Len(InForce)
      BY <1>2
    <3> QED
      BY <1>2, <3>1, PublishedRest
  <2> QED
    BY <1>1, <1>7, <1>10, <2>1, <2>2, <2>3 DEF Complete
<1>12. Filtered'
  <2>1. <<>> \o <<>> = <<>>
    OBVIOUS
  <2>2. pc' = "Entries" => SameTimes(PrintedTables \o Later, Selected(Index - 1))'
    <3>1. Later' = <<>>
      BY <1>1, <1>3 DEF Later, LaterOf, Pending
    <3>2. Selected(Index - 1)' = <<>>
      <4>1. (Index - 1)' = 0
        BY <1>1, <1>3
      <4>2. PublishedUpTo(Index - 1)' = <<>>
        BY <1>1, <1>2, <1>10, <4>1 DEF PublishedUpTo
      <4> QED
        BY <4>2, WhereEmpty DEF Selected
    <3> QED
      BY <1>7, <2>1, <3>1, <3>2 DEF SameTimes
  <2>3. pc' = "Done" => SameTimes(PrintedTables, Selected(Len(InForce)))'
    <3>1. ASSUME pc' = "Done"
          PROVE  Selected(Len(InForce))' = <<>>
      <4>1. mTableSign \in RootSigns
        BY <3>1
      <4>2. OfSign(mTableSign) = {}
        BY <4>1, TableAssumption DEF OfSign
      <4> DEFINE s == PublishedUpTo(Len(InForce))
      <4>3. s \in Seq(Lines)
        BY <1>2, PublishedSteps
      <4> HIDE DEF s
      <4>4. Where(s, {}) = <<>>
        BY <4>3, WhereNone
      <4>5. Where(PublishedUpTo(Len(InForce))', OfSign(mTableSign)) = <<>>
        BY <1>2, <1>10, <4>2, <4>4 DEF s, PublishedUpTo
      <4> QED
        BY <1>1, <4>5 DEF Selected, OfSign
    <3> QED
      BY <1>7, <3>1 DEF SameTimes
  <2> QED
    BY <1>1, <1>3, <2>2, <2>3 DEF Filtered
<1> QED
  BY <1>4, <1>5, <1>6, <1>9, <1>11, <1>12, Zenon DEF IInv

(* The roots of a full dump.                                                *)
LEMMA NextDumpRoots ==
  ASSUME IInv, DumpRoots
  PROVE  IInv'
<1>1. /\ pc = "ScanRoots" /\ ScanAcpiRSDP # NULL /\ list' = Entries /\ pc' = "Entries"
      /\ printed' = [i \in DOMAIN RootTables |-> Line(RootTables[i], RootTables[i])]
      /\ UNCHANGED <<firmware, options, Index, Facs, Dsdt, FileIndex, files>>
  BY DEF DumpRoots
<1> DEFINE L == Len(RootTables)
<1>2. L \in Nat /\ DOMAIN RootTables = 1 .. L /\ \A i \in 1 .. L : RootTables[i] \in RootSigns
  BY RootTablesAre
<1> HIDE DEF L
<1>3. \A i \in 1 .. L : Line(RootTables[i], RootTables[i]) \in Lines
  BY <1>2 DEF Line, Lines
<1>4. /\ printed' = [i \in 1 .. L |-> Line(RootTables[i], RootTables[i])]
      /\ printed' \in Seq(Lines) /\ Len(printed') = L
  BY <1>1, <1>2, <1>3
<1>5. \A i \in 1 .. Len(printed') : printed'[i].by \in RootSigns
  BY <1>2, <1>4 DEF Line
<1> QED
  BY <1>1, <1>4, <1>5, RootsDumped

(* The roots with -s: one of them may be all that is asked for.             *)
LEMMA NextSelectRoot ==
  ASSUME IInv, SelectRoot
  PROVE  IInv'
<1>1. /\ pc = "ScanRoots" /\ ScanAcpiRSDP # NULL /\ list' = Entries
      /\ printed' = IF Contains(RootTables, mTableSign) THEN <<Line(mTableSign, mTableSign)>> ELSE <<>>
      /\ pc' = IF mTableSign \in RootSigns THEN "Done" ELSE "Entries"
      /\ UNCHANGED <<firmware, options, Index, Facs, Dsdt, FileIndex, files>>
  BY DEF SelectRoot
<1>2. Contains(RootTables, mTableSign) => mTableSign \in RootSigns
  BY RootTablesAre DEF Contains
<1>3. printed' \in Seq(Lines) /\ \A i \in 1 .. Len(printed') : printed'[i].by \in RootSigns
  <2>1. CASE Contains(RootTables, mTableSign)
    <3> DEFINE line == Line(mTableSign, mTableSign)
    <3>1. line \in Lines /\ line.by \in RootSigns
      BY <1>2, <2>1 DEF Line, Lines
    <3>2. printed' = <<line>>
      BY <1>1, <2>1
    <3> HIDE DEF line
    <3> QED
      BY <3>1, <3>2
  <2>2. CASE ~Contains(RootTables, mTableSign)
    BY <1>1, <2>2
  <2> QED
    BY <2>1, <2>2
<1>4. pc' = "Entries" \/ (pc' = "Done" /\ mTableSign \in RootSigns)
  BY <1>1
<1> QED
  BY <1>1, <1>3, <1>4, RootsDumped

-----------------------------------------------------------------------------
(* Every signature is looked up among all libraries.                        *)
LEMMA Lookup ==
  ASSUME IInv, pc # "Shell", NEW sign
  PROVE  GetDumpAcpiTableFunc(sign) = LibraryFor(sign)
<1>1. registry \in Seq(Signatures) /\ ToSet(registry) = ToSet(Linked \o EntryPointSigns)
  BY DEF IInv, Typed, Ready
<1>2. Contains(registry, sign) <=> sign \in ToSet(registry)
  <2>1. DOMAIN registry = 1 .. Len(registry)
    BY <1>1, LenProperties
  <2> QED
    BY <2>1, Zenon DEF Contains, ToSet
<1> QED
  BY <1>1, <1>2, Zenon DEF GetDumpAcpiTableFunc, LibraryFor

(* What begins what the first entries publish begins what all publish.      *)
LEMMA RestOf ==
  ASSUME firmware \in Firmwares, NEW n \in 0 .. Len(InForce),
         NEW s \in Seq(Lines), NEW t \in Seq(Lines), s \o t = PublishedUpTo(n)
  PROVE  \E rest \in Seq(Lines) : Published = s \o rest
<1>1. PICK rest \in Seq(Lines) : Published = PublishedUpTo(n) \o rest
  BY PublishedRest
<1>2. s \in Seq(Lines) /\ t \in Seq(Lines) /\ rest \in Seq(Lines)
  BY <1>1
<1>3. (s \o t) \o rest = s \o (t \o rest) /\ t \o rest \in Seq(Lines)
  <2>1. (s \o t) \o rest = s \o (t \o rest)
    BY ONLY <1>2, ConcatAssociative, SMTT(40)
  <2>2. t \o rest \in Seq(Lines)
    BY ONLY <1>2, ConcatProperties
  <2> QED
    BY <2>1, <2>2
<1>4. Published = s \o (t \o rest)
  BY <1>1, <1>3, Zenon
<1> QED
  BY ONLY <1>3, <1>4, Zenon

(* Where the walk is.                                                       *)
LEMMA WalkIsAt ==
  ASSUME IInv, pc \in {"Entries", "Facs", "Dsdt"}
  PROVE  /\ firmware \in Firmwares
         /\ list = InForce /\ InForce \in Seq(Pointers)
         /\ Len(InForce) \in Nat /\ Len(InForce) < MaxFiles
         /\ Index \in Nat /\ 1 <= Index /\ Index <= Len(InForce) + 1
         /\ Index - 1 \in 0 .. Len(InForce)
         /\ PublishedUpTo(Index - 1) \in Seq(Lines)
         /\ printed \in Seq(Lines) /\ PrintedTables \in Seq(Lines)
<1>1. /\ firmware \in Firmwares /\ list = InForce /\ list \in Seq(Pointers)
      /\ Index \in Nat /\ 1 <= Index /\ Index <= Len(list) + 1 /\ printed \in Seq(Lines)
  BY DEF IInv, Typed, Walking, Walked
<1>2. InForce \in Seq(Pointers) /\ Len(InForce) \in Nat /\ Len(InForce) < MaxFiles
  BY <1>1, EntriesInForce
<1>3. Index - 1 \in 0 .. Len(InForce)
  BY <1>1, <1>2
<1>4. PublishedUpTo(Index - 1) \in Seq(Lines)
  BY <1>1, <1>3, PublishedSteps
<1>5. PrintedTables \in Seq(Lines)
  BY <1>1, WhereElements DEF PrintedTables
<1> QED
  BY <1>1, <1>2, <1>3, <1>4, <1>5

(* The entry that the walk is at is the next one to be published.           *)
LEMMA EntryIsAt ==
  ASSUME IInv, NEW p, At(p)
  PROVE  /\ pc = "Entries" /\ Index \in 1 .. Len(InForce) /\ InForce[Index] = p /\ list[Index] = p
         /\ p \in Pointers /\ PublishedBy(p) \in Seq(Lines)
         /\ PublishedUpTo(Index) = PublishedUpTo(Index - 1) \o PublishedBy(p)
         /\ PublishedUpTo(Index) \in Seq(Lines)
<1>1. pc = "Entries" /\ Index <= Len(list) /\ list[Index] = p
  BY DEF At
<1>2. list = InForce /\ Index \in Nat /\ 1 <= Index /\ firmware \in Firmwares
      /\ Len(InForce) \in Nat
  BY <1>1, WalkIsAt
<1>3. Index \in 1 .. Len(InForce) /\ Index \in 0 .. Len(InForce)
  BY <1>1, <1>2
<1>4. /\ PublishedUpTo(Index) = PublishedUpTo(Index - 1) \o PublishedBy(InForce[Index])
      /\ PublishedBy(InForce[Index]) \in Seq(Lines) /\ InForce[Index] \in Pointers
      /\ PublishedUpTo(Index) \in Seq(Lines)
  BY <1>2, <1>3, PublishedSteps
<1> QED
  BY <1>1, <1>2, <1>3, <1>4

(* What the loops do not change.                                            *)
LEMMA Stays ==
  ASSUME IInv, UNCHANGED <<firmware, options, list>>, pc \in {"Entries", "Facs", "Dsdt"},
         pc' \in {"Entries", "Facs", "Dsdt", "Done", "Assert"},
         pc' \in {"Facs", "Dsdt"} => mTableSign = NoSign /\ 2 <= Index',
         Index' \in Nat, 1 <= Index', Index' <= Len(InForce) + 1,
         Facs' \in Pointers, Dsdt' \in Pointers,
         files' \in Files, FileIndex' \in [AmlSigns -> Nat], printed' \in Seq(Lines)
  PROVE  /\ firmware' = firmware /\ list' = list /\ mIsDumpData' = mIsDumpData
         /\ mTableSign' = mTableSign
         /\ InForce' = InForce /\ Published' = Published
         /\ \A n : PublishedUpTo(n)' = PublishedUpTo(n)
         /\ Typed' /\ Ready' /\ Walking'
<1>1. /\ firmware' = firmware /\ list' = list /\ registry' = registry
      /\ mIsDumpData' = mIsDumpData /\ mTableSign' = mTableSign
  BY DEF options
<1>2. /\ InForce' = InForce /\ Published' = Published
      /\ \A n : PublishedUpTo(n)' = PublishedUpTo(n)
  BY <1>1, SameFirmware
<1>3. list = InForce
  BY WalkIsAt
<1>4. Typed'
  BY <1>1, <1>3 DEF IInv, Typed, Modes
<1>5. Ready'
  BY <1>1 DEF IInv, Ready
<1>6. Walking'
  BY <1>1, <1>2, <1>3 DEF Walking, Walked
<1> QED
  BY <1>1, <1>2, <1>4, <1>5, <1>6

(* An entry that is NULL publishes nothing.                                 *)
LEMMA NullSkipped ==
  ASSUME IInv, At(NULL), Index' = Index + 1,
         UNCHANGED <<firmware, options, pc, list, Facs, Dsdt, output>>
  PROVE  IInv'
<1>1. pc = "Entries" /\ Index \in 1 .. Len(InForce)
      /\ PublishedUpTo(Index) = PublishedUpTo(Index - 1) \o PublishedBy(NULL)
      /\ list[Index] = NULL
  BY EntryIsAt
<1>2. PublishedUpTo(Index) = PublishedUpTo(Index - 1)
  <2>1. PublishedBy(NULL) = <<>>
    BY Zenon DEF PublishedBy
  <2>2. PublishedUpTo(Index - 1) \o <<>> = PublishedUpTo(Index - 1)
    BY <1>1, WalkIsAt, ConcatEmptySeq
  <2> QED
    BY <1>1, <2>1, <2>2
<1>3. /\ pc' = pc /\ Facs' = Facs /\ Dsdt' = Dsdt
      /\ FileIndex' = FileIndex /\ files' = files /\ printed' = printed
  BY DEF output
<1>4. /\ Facs \in Pointers /\ Dsdt \in Pointers
      /\ files \in Files /\ FileIndex \in [AmlSigns -> Nat] /\ printed \in Seq(Lines)
      /\ Index \in Nat /\ Len(InForce) \in Nat
  BY <1>1, WalkIsAt DEF IInv, Typed
<1>5. /\ firmware' = firmware /\ list' = list /\ mIsDumpData' = mIsDumpData
      /\ mTableSign' = mTableSign
      /\ InForce' = InForce /\ Published' = Published
      /\ \A n : PublishedUpTo(n)' = PublishedUpTo(n)
      /\ Typed' /\ Ready' /\ Walking'
  BY <1>1, <1>3, <1>4, Stays
<1>6. Filed' /\ Enough'
  <2>1. Written' <=> Written
    BY <1>3 DEF Written
  <2>2. Filed'
    BY <1>3, <1>5, <2>1 DEF IInv, Filed
  <2>3. \A sign \in AmlSigns : FileIndex[sign] <= Index - 1 /\ FileIndex[sign] \in Nat
    BY <1>1, <1>4 DEF IInv, Enough
  <2>4. Enough'
    BY <1>1, <1>3, <1>4, <2>3 DEF Enough
  <2> QED
    BY <2>2, <2>4
<1>7. PublishedUpTo(Index - 1)' = PublishedUpTo(Index - 1)
  <2>1. (Index - 1)' = Index
    BY <1>4
  <2>2. PublishedUpTo(Index - 1)' = PublishedUpTo(Index)
    BY <1>5, <2>1, Zenon DEF PublishedUpTo
  <2> QED
    BY <1>2, <2>2
<1>8. PrintedTables' = PrintedTables
  BY <1>3 DEF PrintedTables
<1>9. Complete'
  BY <1>1, <1>3, <1>5, <1>7, <1>8 DEF IInv, Complete
<1>10. Filtered'
  <2>1. ASSUME mTableSign # NoSign
        PROVE  /\ SameTimes(PrintedTables \o Later, Selected(Index - 1))
               /\ (\A i \in 1 .. Index - 1 : list[i] \notin Fadts) => Facs = NULL /\ Dsdt = NULL
               /\ Facs # NULL => Table[Facs].Signature = "FACS"
               /\ Dsdt # NULL => Table[Dsdt].Signature = "DSDT"
    BY <1>1, <2>1 DEF IInv, Filtered
  <2>2. Later' = Later /\ Selected(Index - 1)' = Selected(Index - 1)
    <3>1. Later' = Later
      BY <1>3, <1>5 DEF Later
    <3>2. Selected(Index - 1)' = Selected(Index - 1)
      BY <1>5, <1>7, Zenon DEF Selected
    <3> QED
      BY <3>1, <3>2
  <2>3. SameTimes(PrintedTables \o Later, Selected(Index - 1))' <=>
          SameTimes(PrintedTables \o Later, Selected(Index - 1))
    BY <1>8, <2>2, Zenon DEF SameTimes
  <2>4. (\A i \in 1 .. Index' - 1 : list[i] \notin Fadts) =>
          \A i \in 1 .. Index - 1 : list[i] \notin Fadts
    BY <1>4
  <2> QED
    BY <1>1, <1>3, <1>5, <2>1, <2>3, <2>4 DEF Filtered
<1> QED
  BY <1>5, <1>6, <1>9, <1>10, Zenon DEF IInv

(* A NULL entry is skipped.                                                 *)
LEMMA NextSkipNull ==
  ASSUME IInv, SkipNull
  PROVE  IInv'
BY NullSkipped DEF SkipNull

(* A NULL entry is read, and the processor stops or goes on.                *)
LEMMA NextReadNull ==
  ASSUME IInv, ReadNull
  PROVE  IInv'
<1>1. mTableSign # NoSign /\ At(NULL)
      /\ UNCHANGED <<firmware, options, list, Facs, Dsdt, output>>
  BY DEF ReadNull
<1>2. CASE Index' = Index + 1 /\ pc' = pc
  BY <1>1, <1>2, NullSkipped
<1>3. CASE pc' = "Fault" /\ Index' = Index
  <2>1. pc = "Entries"
    BY <1>1, EntryIsAt
  <2>2. /\ firmware' = firmware /\ list' = list /\ registry' = registry
        /\ mIsDumpData' = mIsDumpData /\ mTableSign' = mTableSign
        /\ Facs' = Facs /\ Dsdt' = Dsdt
        /\ FileIndex' = FileIndex /\ files' = files /\ printed' = printed
    BY <1>1 DEF options, output
  <2>3. Typed'
    BY <1>3, <2>2 DEF IInv, Typed, Modes
  <2>4. InForce' = InForce /\ list = InForce
    BY <2>1, <2>2, SameFirmware, WalkIsAt
  <2>5. Ready' /\ Walking'
    BY <1>1, <1>3, <2>1, <2>2, <2>4 DEF IInv, Ready, Walking, Walked
  <2>6. Filed' /\ Enough' /\ Complete' /\ Filtered'
    BY <1>1, <1>3, <2>2 DEF Filed, Enough, Complete, Filtered
  <2> QED
    BY <2>3, <2>5, <2>6, Zenon DEF IInv
<1>4. (pc' = "Fault" /\ Index' = Index) \/ (Index' = Index + 1 /\ pc' = pc)
  BY DEF ReadNull
<1> QED
  BY <1>2, <1>3, <1>4

(* A machine that has stopped is reset.                                     *)
LEMMA NextReset ==
  ASSUME IInv, Reset
  PROVE  IInv'
<1>1. /\ pc \in {"Assert", "Fault"} /\ pc' = "Shell"
      /\ firmware' = firmware /\ list' = list /\ registry' = registry
      /\ mIsDumpData' = mIsDumpData /\ mTableSign' = mTableSign
      /\ Index' = Index /\ Facs' = Facs /\ Dsdt' = Dsdt
      /\ FileIndex' = FileIndex /\ files' = files /\ printed' = printed
  BY DEF Reset, options, walk, output
<1>2. Typed'
  BY <1>1 DEF IInv, Typed, Modes
<1>3. Ready' /\ Walking' /\ Filed' /\ Enough' /\ Filtered'
  BY <1>1 DEF Ready, Walking, Walked, Filed, Enough, Filtered
<1>4. Complete'
  <2>1. Published' = Published
    BY <1>1, SameFirmware
  <2>2. PrintedTables' = PrintedTables
    BY <1>1 DEF PrintedTables
  <2> QED
    BY <1>1, <2>1, <2>2 DEF IInv, Complete
<1> QED
  BY <1>2, <1>3, <1>4, Zenon DEF IInv

(* A call of a library's function in one of the loops.                      *)
LEMMA DumpInLoop ==
  ASSUME IInv, NEW function \in Libraries, NEW p \in DOMAIN Table, NEW next,
         Dump(function, p, next), pc \in {"Entries", "Facs", "Dsdt"},
         UNCHANGED <<firmware, options, list>>, next \in {"Entries", "Facs", "Dsdt", "Done"}
  PROVE  /\ files' \in Files /\ FileIndex' \in [AmlSigns -> Nat] /\ printed' \in Seq(Lines)
         /\ pc' = next \/ pc' = "Assert"
         /\ PrintedTables \in Seq(Lines)
         /\ PrintedTables' = PrintedTables \o Pending(function, p)
         /\ \A sign \in AmlSigns : FileIndex[sign] \in Nat /\
              (FileIndex'[sign] = FileIndex[sign]
                \/ (sign = function /\ FileIndex'[sign] = FileIndex[sign] + 1))
         /\ Filed'
<1>1. Typed
  BY DEF IInv
<1>2. /\ files' \in Files /\ FileIndex' \in [AmlSigns -> Nat] /\ printed' \in Seq(Lines)
      /\ pc' = next \/ pc' = "Assert"
      /\ PrintedTables \in Seq(Lines)
      /\ PrintedTables' = PrintedTables \o Pending(function, p)
      /\ \A sign \in AmlSigns :
           FileIndex'[sign] = FileIndex[sign]
             \/ (sign = function /\ FileIndex'[sign] = FileIndex[sign] + 1)
      /\ (mIsDumpData /\ Written /\ (\A sign \in AmlSigns : FileIndex[sign] < MaxFiles)
            /\ pc' # "Assert") => Written'
  BY <1>1, DumpStep
<1>3. \A sign \in AmlSigns : FileIndex[sign] \in Nat
  BY <1>1 DEF Typed
<1>4. \A sign \in AmlSigns : FileIndex[sign] < MaxFiles
  <2>1. /\ Index \in Nat /\ Index <= Len(InForce) + 1 /\ Len(InForce) \in Nat
        /\ Len(InForce) < MaxFiles /\ MaxFiles \in Nat
    BY WalkIsAt, AcpiAssumption
  <2>2. CASE pc = "Entries"
    <3>1. \A sign \in AmlSigns : FileIndex[sign] <= Index - 1
      BY <2>2 DEF IInv, Enough
    <3>2. Index - 1 <= Len(InForce)
      BY <2>1
    <3> QED
      BY <1>3, <2>1, <3>1, <3>2
  <2>3. CASE pc \in {"Facs", "Dsdt"}
    <3>1. \A sign \in AmlSigns : FileIndex[sign] <= Index - 2
      BY <2>3 DEF IInv, Enough
    <3> QED
      BY <1>3, <2>1, <3>1
  <2> QED
    BY <2>2, <2>3
<1>5. mIsDumpData' = mIsDumpData
  BY DEF options
<1>6. Filed'
  <2>1. mIsDumpData => Written
    BY DEF IInv, Filed
  <2>2. mIsDumpData /\ pc' # "Assert" => Written'
    BY <1>2, <1>4, <2>1, Zenon
  <2> QED
    BY <1>5, <2>2 DEF Filed
<1> QED
  BY <1>2, <1>3, <1>6

(* A step of one of the loops that prints nothing.                          *)
LEMMA NoneInLoop ==
  ASSUME IInv, UNCHANGED output, UNCHANGED <<firmware, options, list>>,
         pc \in {"Entries", "Facs", "Dsdt"}
  PROVE  /\ files' = files /\ FileIndex' = FileIndex /\ printed' = printed
         /\ files' \in Files /\ FileIndex' \in [AmlSigns -> Nat] /\ printed' \in Seq(Lines)
         /\ PrintedTables \in Seq(Lines)
         /\ PrintedTables' = PrintedTables
         /\ Filed'
<1>1. files' = files /\ FileIndex' = FileIndex /\ printed' = printed
  BY DEF output
<1>2. PrintedTables' = PrintedTables /\ PrintedTables \in Seq(Lines)
  BY <1>1, WalkIsAt DEF PrintedTables
<1>3. Written' <=> Written
  BY <1>1 DEF Written
<1>4. Filed'
  <2>1. mIsDumpData' = mIsDumpData
    BY DEF options
  <2>2. mIsDumpData => Written
    BY DEF IInv, Filed
  <2> QED
    BY <1>3, <2>1, <2>2 DEF Filed
<1> QED
  BY <1>1, <1>2, <1>4 DEF IInv, Typed

(* An entry of the full dump.                                               *)
LEMMA NextDumpEntry ==
  ASSUME IInv, DumpEntry
  PROVE  IInv'
<1>1. PICK p \in DOMAIN Table :
        /\ At(p)
        /\ IF Table[p].Signature = "FACP"
           THEN /\ Dump(GetDumpAcpiTableFunc("FACP"), p, "Facs")
                /\ ScanAcpiFADT(p)
           ELSE /\ Dump(GetDumpAcpiTableFunc(Table[p].Signature), p, "Entries")
                /\ UNCHANGED <<Facs, Dsdt>>
  BY Zenon DEF DumpEntry
<1>2. mTableSign = NoSign /\ Index' = Index + 1 /\ UNCHANGED <<firmware, options, list>>
  BY DEF DumpEntry
<1>3. /\ pc = "Entries" /\ Index \in 1 .. Len(InForce)
      /\ PublishedUpTo(Index) = PublishedUpTo(Index - 1) \o PublishedBy(p)
      /\ PublishedUpTo(Index) \in Seq(Lines)
  BY <1>1, EntryIsAt
<1>4. /\ firmware \in Firmwares /\ Index \in Nat /\ Len(InForce) \in Nat
      /\ PublishedUpTo(Index - 1) \in Seq(Lines) /\ Index <= Len(InForce)
      /\ Index \in 0 .. Len(InForce)
  BY <1>3, WalkIsAt
<1>5. PrintedTables = PublishedUpTo(Index - 1)
  BY <1>2, <1>3 DEF IInv, Complete
<1>6. \A sign \in AmlSigns : FileIndex[sign] <= Index - 1
  BY <1>3 DEF IInv, Enough
<1>7. (Index - 1)' = Index
  BY <1>2, <1>4
<1>8. Facs \in Pointers /\ Dsdt \in Pointers
  BY DEF IInv, Typed
<1>9. CASE p \notin Fadts
  <2> DEFINE function == GetDumpAcpiTableFunc(Table[p].Signature)
  <2>1. Dump(function, p, "Entries") /\ Facs' = Facs /\ Dsdt' = Dsdt
    BY <1>1, <1>9 DEF Fadts
  <2>2. function = LibraryFor(Table[p].Signature) /\ function \in Libraries
    BY <1>3, Lookup, LinesOfLibraries
  <2> HIDE DEF function
  <2>3. /\ files' \in Files /\ FileIndex' \in [AmlSigns -> Nat] /\ printed' \in Seq(Lines)
        /\ pc' = "Entries" \/ pc' = "Assert"
        /\ PrintedTables' = PrintedTables \o Pending(function, p)
        /\ \A sign \in AmlSigns : FileIndex[sign] \in Nat /\
             (FileIndex'[sign] = FileIndex[sign] \/ FileIndex'[sign] = FileIndex[sign] + 1)
        /\ Filed'
    BY <1>2, <1>3, <1>4, <2>1, <2>2, DumpInLoop
  <2>4. /\ Published' = Published /\ mTableSign' = mTableSign
        /\ \A n : PublishedUpTo(n)' = PublishedUpTo(n)
        /\ Typed' /\ Ready' /\ Walking'
    BY <1>2, <1>3, <1>4, <1>8, <2>1, <2>3, Stays
  <2>5. PrintedTables' = PublishedUpTo(Index)
    <3>1. PublishedBy(p) = <<Line(function, p)>> /\ p # NULL
      BY <1>9, <2>2, PublishedByEntry, AcpiAssumption
    <3> QED
      BY <1>3, <1>5, <2>3, <3>1 DEF Pending
  <2>6. PublishedUpTo(Index - 1)' = PublishedUpTo(Index)
    BY <1>7, <2>4, Zenon DEF PublishedUpTo
  <2>7. \E rest \in Seq(Lines) : Published = PublishedUpTo(Index) \o rest
    BY <1>4, PublishedRest
  <2>8. Complete'
    BY <2>3, <2>4, <2>5, <2>6, <2>7 DEF Complete
  <2>9. Enough'
    <3>1. Index' - 1 = Index
      BY <1>2, <1>4
    <3>2. ASSUME NEW sign \in AmlSigns
          PROVE  FileIndex'[sign] <= Index
      <4>1. FileIndex[sign] \in Nat /\ FileIndex[sign] <= Index - 1
        BY <1>6, <2>3
      <4>2. FileIndex'[sign] = FileIndex[sign] \/ FileIndex'[sign] = FileIndex[sign] + 1
        BY <2>3
      <4> QED
        BY <1>4, <4>1, <4>2
    <3> QED
      BY <2>3, <3>1, <3>2 DEF Enough
  <2>10. Filtered'
    BY <1>2, <2>4 DEF Filtered
  <2> QED
    BY <2>3, <2>4, <2>8, <2>9, <2>10, Zenon DEF IInv
<1>10. CASE p \in Fadts
  <2>1. GetDumpAcpiTableFunc("FACP") = "FACP" /\ "FACP" \in Libraries /\ "FACP" \notin AmlSigns
    BY <1>3, Lookup, LinesOfLibraries DEF AmlSigns
  <2>2. Dump("FACP", p, "Facs") /\ ScanAcpiFADT(p)
    BY <1>1, <1>10, <2>1 DEF Fadts
  <2>3. Facs' = FacsOf(p) /\ Dsdt' = DsdtOf(p)
    BY <2>2 DEF ScanAcpiFADT, FacsOf, DsdtOf
  <2>4. Facs' \in Pointers /\ Dsdt' \in Pointers
    BY <1>10, <2>3, PointersOfFadt
  <2>5. /\ files' \in Files /\ FileIndex' \in [AmlSigns -> Nat] /\ printed' \in Seq(Lines)
        /\ pc' = "Facs" \/ pc' = "Assert"
        /\ PrintedTables' = PrintedTables \o Pending("FACP", p)
        /\ \A sign \in AmlSigns : FileIndex[sign] \in Nat /\
             (FileIndex'[sign] = FileIndex[sign]
               \/ (sign = "FACP" /\ FileIndex'[sign] = FileIndex[sign] + 1))
        /\ Filed'
    BY <1>2, <1>3, <1>4, <2>1, <2>2, DumpInLoop
  <2>6. /\ Published' = Published /\ mTableSign' = mTableSign
        /\ \A n : PublishedUpTo(n)' = PublishedUpTo(n)
        /\ Typed' /\ Ready' /\ Walking'
    BY <1>2, <1>3, <1>4, <2>4, <2>5, Stays
  <2> DEFINE one == <<Line("FACP", p)>>
             two == Pending("FACS", FacsOf(p)) \o Pending("DSDT", DsdtOf(p))
  <2>7. one \in Seq(Lines) /\ two \in Seq(Lines)
    <3>1. Line("FACP", p) \in Lines
      BY LinesOfLibraries
    <3>2. Pending("FACS", FacsOf(p)) \in Seq(Lines) /\ Pending("DSDT", DsdtOf(p)) \in Seq(Lines)
      BY <2>3, <2>4, LinesOfLibraries, LinesOfPointer
    <3> QED
      BY <3>1, <3>2, ConcatProperties
  <2>8. PublishedBy(p) = one \o two /\ Pending("FACP", p) = one
    BY <1>10, PublishedByEntry, AcpiAssumption DEF Pending
  <2>9. PrintedTables' \in Seq(Lines) /\ PrintedTables' \o two = PublishedUpTo(Index)
    <3> HIDE DEF one, two
    <3>1. (PrintedTables \o one) \o two = PrintedTables \o (one \o two)
          /\ PrintedTables \o one \in Seq(Lines)
      <4>1. PrintedTables \in Seq(Lines) /\ one \in Seq(Lines) /\ two \in Seq(Lines)
        BY <1>4, <1>5, <2>7
      <4> QED
        BY ONLY <4>1, ConcatAssociative, ConcatProperties, SMTT(40)
    <3> QED
      BY <1>3, <1>5, <2>5, <2>8, <3>1
  <2>10. PublishedUpTo(Index - 1)' = PublishedUpTo(Index)
    BY <1>7, <2>6, Zenon DEF PublishedUpTo
  <2>11. \E rest \in Seq(Lines) : Published = PrintedTables' \o rest
    <3> HIDE DEF two
    <3> DEFINE s == PrintedTables'
    <3>1. s \in Seq(Lines) /\ s \o two = PublishedUpTo(Index)
      BY <2>9
    <3> HIDE DEF s
    <3>2. \E rest \in Seq(Lines) : Published = s \o rest
      BY <1>4, <2>7, <3>1, RestOf
    <3> QED
      BY <3>2 DEF s
  <2>12. (Pending("FACS", Facs) \o Pending("DSDT", Dsdt))' = two
    BY <2>3 DEF Pending
  <2>13. Complete'
    <3> HIDE DEF one, two
    <3> QED
      BY <2>5, <2>6, <2>9, <2>10, <2>11, <2>12 DEF Complete
  <2>14. Enough'
    BY <1>2, <1>4, <1>6, <2>1, <2>5 DEF Enough
  <2>15. Filtered'
    BY <1>2, <2>6 DEF Filtered
  <2> QED
    BY <2>5, <2>6, <2>13, <2>14, <2>15, Zenon DEF IInv
<1> QED
  BY <1>9, <1>10

(* The tables of the FADT in the full dump.                                 *)
LEMMA NextDumpFacs ==
  ASSUME IInv, DumpFacs
  PROVE  IInv'
<1>1. /\ pc = "Facs" /\ DumpOrNothing("FACS", Facs, "Dsdt")
      /\ UNCHANGED <<firmware, options, list>> /\ Index' = Index
      /\ Facs' = Facs /\ Dsdt' = Dsdt
  BY DEF DumpFacs, walk
<1>2. /\ mTableSign = NoSign /\ 2 <= Index /\ Facs \in Pointers /\ Dsdt \in Pointers
      /\ \A sign \in AmlSigns : FileIndex[sign] <= Index - 2
      /\ PrintedTables \o (Pending("FACS", Facs) \o Pending("DSDT", Dsdt)) = PublishedUpTo(Index - 1)
  BY <1>1 DEF IInv, Walking, Typed, Enough, Complete
<1>3. /\ firmware \in Firmwares /\ Index \in Nat /\ 1 <= Index /\ Index <= Len(InForce) + 1
      /\ Index - 1 \in 0 .. Len(InForce) /\ PrintedTables \in Seq(Lines)
  BY <1>1, WalkIsAt
<1> DEFINE one == Pending("FACS", Facs)
           two == Pending("DSDT", Dsdt)
<1>4. one \in Seq(Lines) /\ two \in Seq(Lines) /\ "FACS" \in Libraries /\ "FACS" \notin AmlSigns
  BY <1>2, LinesOfLibraries, LinesOfPointer DEF AmlSigns
<1>5. /\ files' \in Files /\ FileIndex' \in [AmlSigns -> Nat] /\ printed' \in Seq(Lines)
      /\ pc' = "Dsdt" \/ pc' = "Assert"
      /\ PrintedTables' = PrintedTables \o one
      /\ \A sign \in AmlSigns : FileIndex'[sign] = FileIndex[sign]
      /\ Filed'
  <2>1. CASE Facs = NULL
    <3>1. pc' = "Dsdt" /\ UNCHANGED output
      BY <1>1, <2>1 DEF DumpOrNothing
    <3>2. PrintedTables \o <<>> = PrintedTables /\ one = <<>>
      BY <1>3, <2>1, ConcatEmptySeq DEF Pending
    <3> QED
      BY <1>1, <3>1, <3>2, NoneInLoop
  <2>2. CASE Facs # NULL
    <3>1. Dump("FACS", Facs, "Dsdt")
      BY <1>1, <2>2 DEF DumpOrNothing
    <3>2. Facs \in DOMAIN Table
      BY <1>2, <2>2 DEF Pointers
    <3> QED
      BY <1>1, <1>4, <3>1, <3>2, DumpInLoop
  <2> QED
    BY <2>1, <2>2
<1>6. /\ Published' = Published /\ mTableSign' = mTableSign
      /\ \A n : PublishedUpTo(n)' = PublishedUpTo(n)
      /\ Typed' /\ Ready' /\ Walking'
  <2>1. Index' \in Nat /\ 1 <= Index' /\ Index' <= Len(InForce) + 1 /\ 2 <= Index'
        /\ Facs' \in Pointers /\ Dsdt' \in Pointers
    BY <1>1, <1>2, <1>3
  <2> QED
    BY <1>1, <1>2, <1>5, <2>1, Stays
<1>7. PublishedUpTo(Index - 1)' = PublishedUpTo(Index - 1) /\ two' = two
  <2>1. (Index - 1)' = Index - 1
    BY <1>1
  <2>2. PublishedUpTo(Index - 1)' = PublishedUpTo(Index - 1)
    BY <1>6, <2>1, Zenon DEF PublishedUpTo
  <2> QED
    BY <1>1, <2>2 DEF Pending
<1>8. PrintedTables' \in Seq(Lines) /\ PrintedTables' \o two = PublishedUpTo(Index - 1)
  <2>1. (PrintedTables \o one) \o two = PrintedTables \o (one \o two)
        /\ PrintedTables \o one \in Seq(Lines)
    <3> HIDE DEF one, two
    <3> QED
      BY <1>3, <1>4, ConcatAssociative, ConcatProperties, SMTT(40)
  <2> QED
    BY <1>2, <1>5, <2>1
<1>9. \E rest \in Seq(Lines) : Published = PrintedTables' \o rest
  <2> DEFINE s == PrintedTables'
  <2> HIDE DEF two
  <2>1. s \in Seq(Lines) /\ s \o two = PublishedUpTo(Index - 1)
    BY <1>8
  <2> HIDE DEF s
  <2>2. \E rest \in Seq(Lines) : Published = s \o rest
    BY <1>3, <1>4, <2>1, RestOf
  <2> QED
    BY <2>2 DEF s
<1>10. Complete'
  BY <1>5, <1>6, <1>7, <1>8, <1>9 DEF Complete
<1>11. Enough'
  BY <1>1, <1>2, <1>5 DEF Enough
<1>12. Filtered'
  BY <1>2, <1>6 DEF Filtered
<1> QED
  BY <1>5, <1>6, <1>10, <1>11, <1>12, Zenon DEF IInv

(* The DSDT of the FADT, after which the FADT owes nothing.                 *)
LEMMA NextDumpDsdt ==
  ASSUME IInv, DumpDsdt
  PROVE  IInv'
<1>1. /\ pc = "Dsdt" /\ DumpOrNothing("DSDT", Dsdt, "Entries")
      /\ UNCHANGED <<firmware, options, list>> /\ Index' = Index
      /\ Facs' = Facs /\ Dsdt' = Dsdt
  BY DEF DumpDsdt, walk
<1>2. /\ mTableSign = NoSign /\ 2 <= Index /\ Facs \in Pointers /\ Dsdt \in Pointers
      /\ \A sign \in AmlSigns : FileIndex[sign] <= Index - 2
      /\ PrintedTables \o Pending("DSDT", Dsdt) = PublishedUpTo(Index - 1)
  BY <1>1 DEF IInv, Walking, Typed, Enough, Complete
<1>3. /\ firmware \in Firmwares /\ Index \in Nat /\ 1 <= Index /\ Index <= Len(InForce) + 1
      /\ Index - 1 \in 0 .. Len(InForce) /\ PrintedTables \in Seq(Lines)
  BY <1>1, WalkIsAt
<1> DEFINE two == Pending("DSDT", Dsdt)
<1>4. two \in Seq(Lines) /\ "DSDT" \in Libraries
  BY <1>2, LinesOfLibraries, LinesOfPointer
<1>5. /\ files' \in Files /\ FileIndex' \in [AmlSigns -> Nat] /\ printed' \in Seq(Lines)
      /\ pc' = "Entries" \/ pc' = "Assert"
      /\ PrintedTables' = PrintedTables \o two
      /\ \A sign \in AmlSigns : FileIndex[sign] \in Nat /\
           (FileIndex'[sign] = FileIndex[sign] \/ FileIndex'[sign] = FileIndex[sign] + 1)
      /\ Filed'
  <2>1. CASE Dsdt = NULL
    <3>1. pc' = "Entries" /\ UNCHANGED output
      BY <1>1, <2>1 DEF DumpOrNothing
    <3>2. PrintedTables \o <<>> = PrintedTables /\ two = <<>>
      BY <1>3, <2>1, ConcatEmptySeq DEF Pending
    <3>3. \A sign \in AmlSigns : FileIndex[sign] \in Nat
      BY DEF IInv, Typed
    <3> QED
      BY <1>1, <3>1, <3>2, <3>3, NoneInLoop
  <2>2. CASE Dsdt # NULL
    <3>1. Dump("DSDT", Dsdt, "Entries")
      BY <1>1, <2>2 DEF DumpOrNothing
    <3>2. Dsdt \in DOMAIN Table
      BY <1>2, <2>2 DEF Pointers
    <3> QED
      BY <1>1, <1>4, <3>1, <3>2, DumpInLoop
  <2> QED
    BY <2>1, <2>2
<1>6. /\ Published' = Published /\ mTableSign' = mTableSign
      /\ \A n : PublishedUpTo(n)' = PublishedUpTo(n)
      /\ Typed' /\ Ready' /\ Walking'
  <2>1. Index' \in Nat /\ 1 <= Index' /\ Index' <= Len(InForce) + 1 /\ 2 <= Index'
        /\ Facs' \in Pointers /\ Dsdt' \in Pointers
    BY <1>1, <1>2, <1>3
  <2> QED
    BY <1>1, <1>2, <1>5, <2>1, Stays
<1>7. PublishedUpTo(Index - 1)' = PublishedUpTo(Index - 1)
  <2>1. (Index - 1)' = Index - 1
    BY <1>1
  <2> QED
    BY <1>6, <2>1, Zenon DEF PublishedUpTo
<1>8. PrintedTables' = PublishedUpTo(Index - 1)
  BY <1>2, <1>5
<1>9. \E rest \in Seq(Lines) : Published = PrintedTables' \o rest
  BY <1>3, <1>8, PublishedRest
<1>10. Complete'
  BY <1>5, <1>6, <1>7, <1>8, <1>9 DEF Complete
<1>11. Enough'
  <2>1. \A sign \in AmlSigns : FileIndex'[sign] <= Index - 1
    BY <1>2, <1>3, <1>5, SMTT(40)
  <2> QED
    BY <1>1, <1>5, <2>1 DEF Enough
<1>12. Filtered'
  BY <1>2, <1>6 DEF Filtered
<1> QED
  BY <1>5, <1>6, <1>10, <1>11, <1>12, Zenon DEF IInv

-----------------------------------------------------------------------------
(* What an entry publishes of one signature.                                *)
LEMMA FilteredLine ==
  ASSUME NEW sign, NEW function \in Libraries, NEW p \in DOMAIN Table
  PROVE  Where(<<Line(function, p)>>, OfSign(sign)) =
           IF Table[p].Signature = sign THEN <<Line(function, p)>> ELSE <<>>
<1> DEFINE line == Line(function, p)
<1>1. line \in OfSign(sign) <=> Table[p].Signature = sign
  BY DEF Line, OfSign
<1>2. line \in {line}
  OBVIOUS
<1> HIDE DEF line
<1>3. Where(<<line>>, OfSign(sign)) = IF line \in OfSign(sign) THEN <<line>> ELSE <<>>
  BY <1>2, WhereOne
<1> QED
  BY <1>1, <1>3 DEF line

(* What -s keeps of what a pointer adds.                                    *)
LEMMA FilteredPending ==
  ASSUME NEW sign, NEW function \in Libraries, NEW p \in Pointers, NEW its,
         p # NULL => Table[p].Signature = its
  PROVE  Where(Pending(function, p), OfSign(sign)) =
           IF its = sign THEN Pending(function, p) ELSE <<>>
<1>1. CASE p = NULL
  <2>1. Pending(function, p) = <<>>
    BY <1>1 DEF Pending
  <2> QED
    BY <2>1, WhereEmpty
<1>2. CASE p # NULL
  <2>1. p \in DOMAIN Table /\ Pending(function, p) = <<Line(function, p)>>
    BY <1>2 DEF Pointers, Pending
  <2> QED
    BY <1>2, <2>1, FilteredLine
<1> QED
  BY <1>1, <1>2

OwnLine(sign, p) ==
  IF Table[p].Signature = sign THEN <<Line(LibraryFor(Table[p].Signature), p)>> ELSE <<>>

(* What -s keeps of what an entry publishes.                                *)
LEMMA FilteredEntry ==
  ASSUME NEW sign, NEW p \in DOMAIN Table
  PROVE  /\ OwnLine(sign, p) \in Seq(Lines)
         /\ p \notin Fadts => Where(PublishedBy(p), OfSign(sign)) = OwnLine(sign, p)
         /\ p \in Fadts => Where(PublishedBy(p), OfSign(sign)) =
              OwnLine(sign, p) \o LaterOf(sign, FacsOf(p), DsdtOf(p))
<1> DEFINE function == LibraryFor(Table[p].Signature)
           one == <<Line(function, p)>>
<1>1. function \in Libraries /\ one \in Seq(Lines)
  <2>1. function \in Libraries
    BY LinesOfLibraries
  <2> HIDE DEF function
  <2>2. Line(function, p) \in Lines
    BY <2>1, LinesOfLibraries
  <2> QED
    BY <2>1, <2>2
<1>2. Where(one, OfSign(sign)) = OwnLine(sign, p)
  <2>1. OwnLine(sign, p) = IF Table[p].Signature = sign THEN one ELSE <<>>
    BY DEF OwnLine
  <2> HIDE DEF function
  <2> QED
    BY <1>1, <2>1, FilteredLine
<1>3. OwnLine(sign, p) \in Seq(Lines)
  BY <1>1 DEF OwnLine
<1>4. CASE p \notin Fadts
  <2>1. PublishedBy(p) = one
    BY <1>4, PublishedByEntry
  <2> QED
    BY <1>2, <1>3, <1>4, <2>1
<1>5. CASE p \in Fadts
  <2> DEFINE two == Pending("FACS", FacsOf(p))
             three == Pending("DSDT", DsdtOf(p))
             Keep == OfSign(sign)
  <2>1. /\ FacsOf(p) \in Pointers /\ DsdtOf(p) \in Pointers
        /\ FacsOf(p) # NULL => Table[FacsOf(p)].Signature = "FACS"
        /\ DsdtOf(p) # NULL => Table[DsdtOf(p)].Signature = "DSDT"
        /\ "FACS" \in Libraries /\ "DSDT" \in Libraries
    BY <1>5, PointersOfFadt, LinesOfLibraries
  <2>2. /\ Where(two, Keep) = IF "FACS" = sign THEN two ELSE <<>>
        /\ Where(three, Keep) = IF "DSDT" = sign THEN three ELSE <<>>
    BY <2>1, FilteredPending
  <2>3. two \in Seq(Lines) /\ three \in Seq(Lines)
    BY <2>1, LinesOfPointer
  <2>4. PublishedBy(p) = one \o (two \o three)
    <3>1. function = "FACP"
      BY <1>5, LinesOfLibraries DEF Fadts
    <3> QED
      BY <1>5, <3>1, PublishedByEntry
  <2>5. LaterOf(sign, FacsOf(p), DsdtOf(p)) =
          IF sign = "FACS" THEN two ELSE IF sign = "DSDT" THEN three ELSE <<>>
    BY DEF LaterOf
  <2> HIDE DEF one, two, three, Keep
  <2>6. Where(two \o three, Keep) = Where(two, Keep) \o Where(three, Keep)
        /\ two \o three \in Seq(Lines)
    BY <2>3, WhereConcat, ConcatProperties
  <2>7. Where(one \o (two \o three), Keep) = Where(one, Keep) \o Where(two \o three, Keep)
    <3> DEFINE tail == two \o three
    <3>1. one \in Seq(Lines) /\ tail \in Seq(Lines)
      BY <1>1, <2>6 DEF one
    <3> HIDE DEF tail
    <3>2. Where(one \o tail, Keep) = Where(one, Keep) \o Where(tail, Keep)
      BY ONLY <3>1, WhereConcat
    <3> QED
      BY <3>2 DEF tail
  <2>8. /\ two \o <<>> = two /\ <<>> \o three = three
        /\ <<>> \o <<>> = <<>>
    BY <2>3, ConcatEmptySeq
  <2>9. Where(two, Keep) \o Where(three, Keep) =
          IF sign = "FACS" THEN two ELSE IF sign = "DSDT" THEN three ELSE <<>>
    BY <2>2, <2>8
  <2> QED
    BY <1>2, <1>3, <1>5, <2>4, <2>5, <2>6, <2>7, <2>9 DEF Keep
<1> QED
  BY <1>4, <1>5

(* What comes behind the loops are lines.                                   *)
LEMMA LaterIs ==
  ASSUME NEW sign, NEW facs \in Pointers, NEW dsdt \in Pointers
  PROVE  LaterOf(sign, facs, dsdt) \in Seq(Lines)
<1>1. Pending("FACS", facs) \in Seq(Lines) /\ Pending("DSDT", dsdt) \in Seq(Lines)
  BY LinesOfPointer, LinesOfLibraries
<1> QED
  BY <1>1 DEF LaterOf

(* A table with the signature of -s is printed, and no other.               *)
LEMMA NextSelectEntry ==
  ASSUME IInv, SelectEntry
  PROVE  IInv'
<1>1. PICK p \in DOMAIN Table :
        /\ At(p)
        /\ DumpOrNothing(GetDumpAcpiTableFunc(Table[p].Signature),
                         IF Table[p].Signature = mTableSign THEN p ELSE NULL, "Entries")
        /\ IF Table[p].Signature = "FACP" THEN ScanAcpiFADT(p) ELSE UNCHANGED <<Facs, Dsdt>>
  BY Zenon DEF SelectEntry
<1>2. mTableSign # NoSign /\ Index' = Index + 1 /\ UNCHANGED <<firmware, options, list>>
  BY DEF SelectEntry
<1>3. /\ pc = "Entries" /\ Index \in 1 .. Len(InForce) /\ InForce[Index] = p /\ list[Index] = p
      /\ PublishedUpTo(Index) = PublishedUpTo(Index - 1) \o PublishedBy(p)
      /\ PublishedBy(p) \in Seq(Lines) /\ PublishedUpTo(Index) \in Seq(Lines)
  BY <1>1, EntryIsAt
<1>4. /\ firmware \in Firmwares /\ Index \in Nat /\ Len(InForce) \in Nat /\ list = InForce
      /\ PublishedUpTo(Index - 1) \in Seq(Lines) /\ Index <= Len(InForce)
      /\ PrintedTables \in Seq(Lines)
  BY <1>3, WalkIsAt
<1>5. /\ SameTimes(PrintedTables \o Later, Selected(Index - 1))
      /\ (\A i \in 1 .. Index - 1 : list[i] \notin Fadts) => Facs = NULL /\ Dsdt = NULL
      /\ Facs # NULL => Table[Facs].Signature = "FACS"
      /\ Dsdt # NULL => Table[Dsdt].Signature = "DSDT"
  BY <1>2, <1>3 DEF IInv, Filtered
<1>6. \A sign \in AmlSigns : FileIndex[sign] <= Index - 1
  BY <1>3 DEF IInv, Enough
<1>7. (Index - 1)' = Index
  BY <1>2, <1>4
<1>8. Facs \in Pointers /\ Dsdt \in Pointers
  BY DEF IInv, Typed
<1> DEFINE own == OwnLine(mTableSign, p)
<1>9. /\ own \in Seq(Lines)
      /\ p \notin Fadts => Where(PublishedBy(p), OfSign(mTableSign)) = own
      /\ p \in Fadts => Where(PublishedBy(p), OfSign(mTableSign)) =
           own \o LaterOf(mTableSign, FacsOf(p), DsdtOf(p))
  BY FilteredEntry
<1>10. /\ files' \in Files /\ FileIndex' \in [AmlSigns -> Nat] /\ printed' \in Seq(Lines)
       /\ pc' = "Entries" \/ pc' = "Assert"
       /\ PrintedTables' = PrintedTables \o own
       /\ \A sign \in AmlSigns : FileIndex[sign] \in Nat /\
            (FileIndex'[sign] = FileIndex[sign] \/ FileIndex'[sign] = FileIndex[sign] + 1)
       /\ Filed'
  <2> DEFINE function == GetDumpAcpiTableFunc(Table[p].Signature)
  <2>1. function = LibraryFor(Table[p].Signature) /\ function \in Libraries
    BY <1>3, Lookup, LinesOfLibraries
  <2>2. CASE Table[p].Signature = mTableSign
    <3>1. Dump(function, p, "Entries")
      <4>1. p # NULL
        BY AcpiAssumption
      <4> QED
        BY <1>1, <2>2, <4>1 DEF DumpOrNothing
    <3>2. own = Pending(function, p)
      BY <2>1, <2>2, AcpiAssumption DEF OwnLine, Pending
    <3> HIDE DEF function, own
    <3> QED
      BY <1>2, <1>3, <1>4, <2>1, <3>1, <3>2, DumpInLoop
  <2>3. CASE Table[p].Signature # mTableSign
    <3>1. pc' = "Entries" /\ UNCHANGED output
      BY <1>1, <2>3 DEF DumpOrNothing
    <3>2. PrintedTables \o <<>> = PrintedTables /\ own = <<>>
      BY <1>4, <2>3, ConcatEmptySeq DEF OwnLine
    <3>3. \A sign \in AmlSigns : FileIndex[sign] \in Nat
      BY DEF IInv, Typed
    <3> QED
      BY <1>2, <1>3, <3>1, <3>2, <3>3, NoneInLoop
  <2> QED
    BY <2>2, <2>3
<1>11. /\ p \in Fadts => Facs' = FacsOf(p) /\ Dsdt' = DsdtOf(p)
       /\ p \notin Fadts => Facs' = Facs /\ Dsdt' = Dsdt
  BY <1>1 DEF ScanAcpiFADT, FacsOf, DsdtOf, Fadts
<1>12. Facs' \in Pointers /\ Dsdt' \in Pointers
  BY <1>8, <1>11, PointersOfFadt
<1>13. /\ firmware' = firmware /\ list' = list /\ mTableSign' = mTableSign
       /\ Published' = Published /\ InForce' = InForce
       /\ \A n : PublishedUpTo(n)' = PublishedUpTo(n)
       /\ Typed' /\ Ready' /\ Walking'
  BY <1>2, <1>3, <1>4, <1>10, <1>12, Stays
<1>14. Complete'
  BY <1>2, <1>13 DEF Complete
<1>15. Enough'
  <2>1. Index' - 1 = Index
    BY <1>2, <1>4
  <2>2. ASSUME NEW sign \in AmlSigns
        PROVE  FileIndex'[sign] <= Index
    <3>1. FileIndex[sign] \in Nat /\ FileIndex[sign] <= Index - 1
      BY <1>6, <1>10
    <3>2. FileIndex'[sign] = FileIndex[sign] \/ FileIndex'[sign] = FileIndex[sign] + 1
      BY <1>10
    <3> QED
      BY <1>4, <3>1, <3>2
  <2> QED
    BY <1>10, <2>1, <2>2 DEF Enough
<1>16. Selected(Index - 1)' = Where(PublishedUpTo(Index), OfSign(mTableSign))
  <2>1. PublishedUpTo(Index - 1)' = PublishedUpTo(Index)
    BY <1>7, <1>13, Zenon DEF PublishedUpTo
  <2> QED
    BY <1>13, <2>1, Zenon DEF Selected, OfSign
<1>17. /\ Where(PublishedUpTo(Index), OfSign(mTableSign)) =
            Selected(Index - 1) \o Where(PublishedBy(p), OfSign(mTableSign))
       /\ Selected(Index - 1) \in Seq(Lines)
       /\ Where(PublishedBy(p), OfSign(mTableSign)) \in Seq(Lines)
  <2> DEFINE one == PublishedUpTo(Index - 1)
             two == PublishedBy(p)
             Keep == OfSign(mTableSign)
  <2>1. one \in Seq(Lines) /\ two \in Seq(Lines)
    BY <1>3, <1>4
  <2>2. Selected(Index - 1) = Where(one, Keep)
    BY DEF Selected
  <2>3. PublishedUpTo(Index) = one \o two
    BY <1>3
  <2> HIDE DEF one, two, Keep
  <2>4. Where(one \o two, Keep) = Where(one, Keep) \o Where(two, Keep)
    BY ONLY <2>1, WhereConcat
  <2>5. Where(one, Keep) \in Seq(Lines) /\ Where(two, Keep) \in Seq(Lines)
    BY ONLY <2>1, WhereElements
  <2> QED
    BY <2>2, <2>3, <2>4, <2>5 DEF two, Keep
<1> DEFINE later == Later
           laterNow == LaterOf(mTableSign, Facs', Dsdt')
           before == Selected(Index - 1)
           its == Where(PublishedBy(p), OfSign(mTableSign))
           old == PrintedTables
<1>18. later \in Seq(Lines) /\ laterNow \in Seq(Lines) /\ Later' = laterNow
  BY <1>8, <1>12, <1>13, LaterIs DEF Later
<1>19. ASSUME NEW line \in Lines
       PROVE  Times((old \o own) \o laterNow, line) = Times(before \o its, line)
  <2>1. Times(old \o later, line) = Times(before, line)
    BY <1>5 DEF SameTimes
  <2>2. /\ p \notin Fadts => its = own /\ laterNow = later
        /\ p \in Fadts => its = own \o laterNow /\ later = <<>>
    <3>1. ASSUME p \notin Fadts
          PROVE  its = own /\ laterNow = later
      BY <1>9, <1>11, <3>1 DEF Later
    <3>2. ASSUME p \in Fadts
          PROVE  its = own \o laterNow /\ later = <<>>
      <4>1. its = own \o laterNow
        BY <1>9, <1>11, <3>2
      <4>2. \A i \in 1 .. Index - 1 : list[i] \notin Fadts
        <5>1. ASSUME NEW i \in 1 .. Index - 1, list[i] \in Fadts
              PROVE  FALSE
          <6>1. i \in 1 .. Len(InForce) /\ i # Index
            BY <1>3, <1>4
          <6>2. i = Index
            BY <1>3, <1>4, <3>2, <5>1, <6>1, EntriesInForce
          <6> QED
            BY <6>1, <6>2
        <5> QED
          BY <5>1
      <4>3. Facs = NULL /\ Dsdt = NULL
        BY <1>5, <4>2
      <4>4. later = <<>>
        BY <4>3 DEF Later, LaterOf, Pending
      <4> QED
        BY <4>1, <4>4
    <3> QED
      BY <3>1, <3>2
  <2>3. own \in Seq(Lines) /\ old \in Seq(Lines) /\ before \in Seq(Lines) /\ its \in Seq(Lines)
        /\ later \in Seq(Lines) /\ laterNow \in Seq(Lines)
    BY <1>4, <1>9, <1>17, <1>18
  <2> HIDE DEF own, later, laterNow, before, its, old
  <2>4. /\ Times(old \o later, line) = Times(old, line) + Times(later, line)
        /\ Times(before \o its, line) = Times(before, line) + Times(its, line)
        /\ Times(own \o laterNow, line) = Times(own, line) + Times(laterNow, line)
        /\ Times(old \o own, line) = Times(old, line) + Times(own, line)
    BY <2>3, TimesConcat
  <2>5. Times((old \o own) \o laterNow, line) = Times(old \o own, line) + Times(laterNow, line)
    <3>1. old \o own \in Seq(Lines)
      BY <2>3, ConcatProperties
    <3> QED
      BY <2>3, <3>1, TimesConcat, ZenonT(60)
  <2>6. /\ Times(old, line) \in Nat /\ Times(own, line) \in Nat /\ Times(later, line) \in Nat
        /\ Times(laterNow, line) \in Nat /\ Times(before, line) \in Nat /\ Times(its, line) \in Nat
    BY <2>3, TimesNat
  <2> DEFINE T(seq) == Times(seq, line)
  <2>7. /\ T(old) + T(later) = T(before) /\ T(before \o its) = T(before) + T(its)
        /\ T((old \o own) \o laterNow) = (T(old) + T(own)) + T(laterNow)
        /\ T(own \o laterNow) = T(own) + T(laterNow)
        /\ T(old) \in Nat /\ T(own) \in Nat /\ T(later) \in Nat /\ T(laterNow) \in Nat
        /\ T(before) \in Nat /\ T(its) \in Nat
    BY <2>1, <2>4, <2>5, <2>6, Zenon
  <2>8. CASE p \notin Fadts
    <3>1. T(its) = T(own) /\ T(laterNow) = T(later)
      BY <2>2, <2>8
    <3> HIDE DEF T
    <3>2. T((old \o own) \o laterNow) = T(before \o its)
      BY ONLY <2>7, <3>1
    <3> QED
      BY <3>2 DEF T
  <2>9. CASE p \in Fadts
    <3>1. T(later) = 0
      BY <2>2, <2>9, TimesOfNone
    <3>2. T(its) = T(own \o laterNow)
      BY <2>2, <2>9
    <3> HIDE DEF T
    <3>3. T((old \o own) \o laterNow) = T(before \o its)
      BY ONLY <2>7, <3>1, <3>2
    <3> QED
      BY <3>3 DEF T
  <2> QED
    BY <2>8, <2>9
<1>20. SameTimes(PrintedTables \o Later, Selected(Index - 1))'
  <2>1. (PrintedTables \o Later)' = (old \o own) \o laterNow
    BY <1>10, <1>18
  <2>2. Selected(Index - 1)' = before \o its
    BY <1>16, <1>17
  <2> HIDE DEF old, own, laterNow, before, its
  <2> QED
    BY <1>19, <2>1, <2>2 DEF SameTimes
<1>21. (\A i \in 1 .. Index' - 1 : list[i] \notin Fadts) => Facs' = NULL /\ Dsdt' = NULL
  <2>1. Index' - 1 = Index /\ Index \in 1 .. Index
    BY <1>2, <1>3, <1>4
  <2>2. 1 .. Index - 1 \subseteq 1 .. Index
    BY <1>4
  <2> QED
    BY <1>3, <1>5, <1>11, <2>1, <2>2
<1>22. (Facs' # NULL => Table[Facs'].Signature = "FACS")
       /\ (Dsdt' # NULL => Table[Dsdt'].Signature = "DSDT")
  BY <1>5, <1>11, PointersOfFadt
<1>23. Filtered'
  BY <1>10, <1>13, <1>20, <1>21, <1>22 DEF Filtered
<1> QED
  BY <1>10, <1>13, <1>14, <1>15, <1>23, Zenon DEF IInv

(* Behind the loops.                                                        *)
LEMMA NextEndOfEntries ==
  ASSUME IInv, EndOfEntries
  PROVE  IInv'
<1>1. /\ pc = "Entries" /\ Index > Len(list) /\ UNCHANGED <<firmware, options, list>>
      /\ Index' = Index /\ Facs' = Facs /\ Dsdt' = Dsdt
  BY DEF EndOfEntries, walk
<1>2. /\ mTableSign = "FACS" => DumpOrNothing("FACS", Facs, "Done")
      /\ mTableSign = "DSDT" => DumpOrNothing("DSDT", Dsdt, "Done")
      /\ mTableSign \notin {"FACS", "DSDT"} => pc' = "Done" /\ UNCHANGED output
  BY DEF EndOfEntries
<1>3. /\ firmware \in Firmwares /\ list = InForce /\ Index \in Nat /\ Index = Len(InForce) + 1
      /\ PrintedTables \in Seq(Lines) /\ Len(InForce) \in Nat /\ Index - 1 = Len(InForce)
  BY <1>1, WalkIsAt
<1>4. Facs \in Pointers /\ Dsdt \in Pointers /\ "FACS" \in Libraries /\ "DSDT" \in Libraries
  BY LinesOfLibraries DEF IInv, Typed
<1>5. Later \in Seq(Lines)
  BY <1>4, LaterIs DEF Later
<1>6. /\ files' \in Files /\ FileIndex' \in [AmlSigns -> Nat] /\ printed' \in Seq(Lines)
      /\ pc' = "Done" \/ pc' = "Assert"
      /\ PrintedTables' = PrintedTables \o Later
      /\ Filed'
  <2>1. ASSUME NEW function \in Libraries, NEW p \in Pointers,
               DumpOrNothing(function, p, "Done"), Later = Pending(function, p)
        PROVE  /\ files' \in Files /\ FileIndex' \in [AmlSigns -> Nat] /\ printed' \in Seq(Lines)
               /\ pc' = "Done" \/ pc' = "Assert"
               /\ PrintedTables' = PrintedTables \o Later
               /\ Filed'
    <3>1. CASE p = NULL
      <4>1. pc' = "Done" /\ UNCHANGED output
        BY <2>1, <3>1 DEF DumpOrNothing
      <4>2. PrintedTables \o <<>> = PrintedTables /\ Later = <<>>
        BY <1>3, <2>1, <3>1, ConcatEmptySeq DEF Pending
      <4> QED
        BY <1>1, <4>1, <4>2, NoneInLoop
    <3>2. CASE p # NULL
      <4>1. Dump(function, p, "Done") /\ p \in DOMAIN Table
        BY <2>1, <3>2 DEF DumpOrNothing, Pointers
      <4> QED
        BY <1>1, <2>1, <4>1, DumpInLoop
    <3> QED
      BY <3>1, <3>2
  <2>2. CASE mTableSign = "FACS"
    BY <1>2, <1>4, <2>1, <2>2 DEF Later, LaterOf
  <2>3. CASE mTableSign = "DSDT"
    BY <1>2, <1>4, <2>1, <2>3 DEF Later, LaterOf
  <2>4. CASE mTableSign \notin {"FACS", "DSDT"}
    <3>1. Later = <<>> /\ PrintedTables \o <<>> = PrintedTables
      BY <1>3, <2>4, ConcatEmptySeq DEF Later, LaterOf
    <3> QED
      BY <1>1, <1>2, <2>4, <3>1, NoneInLoop
  <2> QED
    BY <2>2, <2>3, <2>4
<1>7. /\ mTableSign' = mTableSign
      /\ Published' = Published /\ InForce' = InForce
      /\ \A n : PublishedUpTo(n)' = PublishedUpTo(n)
      /\ Typed' /\ Ready' /\ Walking'
  BY <1>1, <1>3, <1>4, <1>6, Stays
<1>8. Enough'
  BY <1>6 DEF Enough
<1>9. Complete'
  <2>1. ASSUME mTableSign = NoSign
        PROVE  /\ PrintedTables' = Published
               /\ \E rest \in Seq(Lines) : Published = PrintedTables' \o rest
    <3>1. mTableSign \notin {"FACS", "DSDT"}
      <4>1. "FACS" \in ToSet(EntryPointSigns) /\ "DSDT" \in ToSet(EntryPointSigns)
        BY EntryPointSignsAre
      <4> QED
        BY <2>1, <4>1, AcpiAssumption
    <3>2. Later = <<>> /\ PrintedTables \o <<>> = PrintedTables
      BY <1>3, <3>1, ConcatEmptySeq DEF Later, LaterOf
    <3>3. PrintedTables = PublishedUpTo(Index - 1)
      BY <1>1, <2>1 DEF IInv, Complete
    <3>4. PrintedTables' = Published
      BY <1>3, <1>6, <3>2, <3>3 DEF Published
    <3>5. Published \o <<>> = Published /\ <<>> \in Seq(Lines)
      BY <1>3, <1>6, <3>2, <3>4, ConcatEmptySeq
    <3> QED
      BY <3>4, <3>5
  <2> QED
    BY <1>6, <1>7, <2>1 DEF Complete
<1>10. Filtered'
  <2>1. ASSUME mTableSign # NoSign
        PROVE  SameTimes(PrintedTables', Selected(Len(InForce)))
    <3>1. SameTimes(PrintedTables \o Later, Selected(Index - 1))
      BY <1>1, <2>1 DEF IInv, Filtered
    <3> QED
      BY <1>3, <1>6, <3>1
  <2>2. Selected(Len(InForce))' = Selected(Len(InForce))
    <3>1. PublishedUpTo(Len(InForce))' = PublishedUpTo(Len(InForce))
      BY <1>7, Zenon DEF PublishedUpTo
    <3> QED
      BY <1>7, <3>1, Zenon DEF Selected, OfSign
  <2> QED
    BY <1>6, <1>7, <2>1, <2>2 DEF Filtered, SameTimes
<1> QED
  BY <1>6, <1>7, <1>8, <1>9, <1>10, Zenon DEF IInv
-----------------------------------------------------------------------------
(* The initial states satisfy the invariant.                                *)
LEMMA InitIInv == Init => IInv
<1> SUFFICES ASSUME Init
             PROVE  IInv
  OBVIOUS
<1>1. /\ firmware \in Firmwares /\ registry = <<>> /\ mIsDumpData = FALSE /\ mTableSign = NoSign
      /\ pc = "Shell" /\ list = <<>> /\ Index = 1 /\ Facs = NULL /\ Dsdt = NULL
      /\ FileIndex = [sign \in AmlSigns |-> 0] /\ printed = <<>>
  BY DEF Init
<1>2. files \in Files
  <2>1. PICK n \in OldLengths :
          files = [name \in Names |-> IF name[2] = 1 THEN [i \in 1 .. n |-> Old] ELSE <<>>]
    BY DEF Init
  <2>2. [i \in 1 .. n |-> Old] \in Seq(Bytes)
    <3>1. n \in Nat /\ Old \in Bytes
      BY AcpiAssumption DEF Bytes
    <3> QED
      BY <3>1
  <2>3. <<>> \in Seq(Bytes)
    OBVIOUS
  <2>4. \A name \in Names :
          (IF name[2] = 1 THEN [i \in 1 .. n |-> Old] ELSE <<>>) \in Seq(Bytes)
    BY <2>2, <2>3
  <2> QED
    BY <2>1, <2>4 DEF Files
<1>3. Typed
  <2>1. <<>> \in Seq(Pointers) /\ <<>> \in Seq(Lines) /\ <<>> \in Seq(Signatures) /\ Len(<<>>) = 0
    OBVIOUS
  <2>2. FileIndex \in [AmlSigns -> Nat]
    BY <1>1
  <2>3. list \in Seq(Pointers) /\ printed \in Seq(Lines) /\ registry \in Seq(Signatures)
    BY <1>1, <2>1, Zenon
  <2>4. Index \in Nat /\ 1 <= Index /\ Index <= Len(list) + 1
    BY <1>1, <2>1
  <2>5. Facs \in Pointers /\ Dsdt \in Pointers /\ pc \in Modes
        /\ mIsDumpData \in BOOLEAN /\ mTableSign \in Signs \cup {NoSign}
    BY <1>1, Zenon DEF Pointers, Modes
  <2> QED
    BY <1>1, <1>2, <2>2, <2>3, <2>4, <2>5, Zenon DEF Typed
<1>4. Ready /\ Walking /\ Filed /\ Enough /\ Filtered
  BY <1>1 DEF Ready, Walking, Walked, Filed, Enough, Filtered
<1>5. Complete
  <2>1. Published \in Seq(Lines)
    <3>1. Len(InForce) \in Nat
      BY <1>1, EntriesInForce
    <3> QED
      BY <1>1, <3>1, PublishedSteps DEF Published
  <2>2. PrintedTables = <<>>
    BY <1>1, WhereEmpty DEF PrintedTables
  <2>3. Published = PrintedTables \o Published
    BY <2>1, <2>2, ConcatEmptySeq
  <2>4. \E rest \in Seq(Lines) : Published = PrintedTables \o rest
    BY <2>1, <2>3
  <2> QED
    BY <1>1, <2>4 DEF Complete
<1> QED
  BY <1>3, <1>4, <1>5, Zenon DEF IInv

(* Nothing happens.                                                         *)
LEMMA Stutters ==
  ASSUME IInv, UNCHANGED vars
  PROVE  IInv'
<1>1. /\ firmware' = firmware /\ list' = list /\ registry' = registry
      /\ mIsDumpData' = mIsDumpData /\ mTableSign' = mTableSign /\ pc' = pc
      /\ Index' = Index /\ Facs' = Facs /\ Dsdt' = Dsdt
      /\ FileIndex' = FileIndex /\ files' = files /\ printed' = printed
  BY DEF vars, options, walk, output
<1>2. Typed' /\ Ready'
  BY <1>1 DEF IInv, Typed, Ready
<1>3. /\ Published' = Published /\ InForce' = InForce
      /\ \A n : PublishedUpTo(n)' = PublishedUpTo(n)
  BY <1>1, SameFirmware
<1>4. PrintedTables' = PrintedTables
  BY <1>1 DEF PrintedTables
<1>5. Walking' /\ Enough'
  BY <1>1, <1>3 DEF IInv, Walking, Enough
<1>6. Filed'
  <2>1. Written' <=> Written
    BY <1>1 DEF Written
  <2> QED
    BY <1>1, <2>1 DEF IInv, Filed
<1>7. PublishedUpTo(Index - 1)' = PublishedUpTo(Index - 1)
      /\ PublishedUpTo(Len(InForce))' = PublishedUpTo(Len(InForce))
  BY <1>1, <1>3, Zenon DEF PublishedUpTo
<1>8. Complete'
  BY <1>1, <1>3, <1>4, <1>7 DEF IInv, Complete
<1>9. Filtered'
  <2>1. Later' = Later
    BY <1>1, Zenon DEF Later
  <2>2. Selected(Index - 1)' = Selected(Index - 1)
        /\ Selected(Len(InForce))' = Selected(Len(InForce))
    BY <1>1, <1>7, Zenon DEF Selected, OfSign
  <2> QED
    BY <1>1, <1>4, <2>1, <2>2 DEF IInv, Filtered, SameTimes
<1> QED
  BY <1>2, <1>5, <1>6, <1>8, <1>9, Zenon DEF IInv

(* Every step preserves the invariant.                                      *)
LEMMA NextIInv == IInv /\ [Next]_vars => IInv'
<1> SUFFICES ASSUME IInv, [Next]_vars
             PROVE  IInv'
  OBVIOUS
<1>1. CASE DumpACPIEntryPoint
  BY <1>1, NextEntryPoint
<1>2. CASE NoRoots
  BY <1>2, NextNoRoots
<1>3. CASE DumpRoots
  BY <1>3, NextDumpRoots
<1>4. CASE SelectRoot
  BY <1>4, NextSelectRoot
<1>5. CASE SkipNull
  BY <1>5, NextSkipNull
<1>6. CASE DumpEntry
  BY <1>6, NextDumpEntry
<1>7. CASE DumpFacs
  BY <1>7, NextDumpFacs
<1>8. CASE DumpDsdt
  BY <1>8, NextDumpDsdt
<1>9. CASE ReadNull
  BY <1>9, NextReadNull
<1>10. CASE SelectEntry
  BY <1>10, NextSelectEntry
<1>11. CASE EndOfEntries
  BY <1>11, NextEndOfEntries
<1>12. CASE Reset
  BY <1>12, NextReset
<1>13. CASE UNCHANGED vars
  BY <1>13, Stutters
<1> QED
  BY <1>1, <1>2, <1>3, <1>4, <1>5, <1>6, <1>7, <1>8, <1>9, <1>10, <1>11, <1>12, <1>13, Zenon
  DEF Next

(* A file that holds a table begins with it.                                *)
LEMMA HoldsIsPrefix ==
  ASSUME NEW file \in Seq(Bytes), NEW p \in DOMAIN Table, Holds(file, p)
  PROVE  IsPrefix([i \in 1 .. Table[p].Length |-> p], file)
<1> DEFINE L == Table[p].Length
           copy == [i \in 1 .. L |-> p]
<1>1. L \in Nat /\ p \in Bytes /\ Len(file) \in Nat
  BY TableAssumption DEF Bytes
<1>2. L <= Len(file) /\ \A i \in 1 .. L : file[i] = p
  BY DEF Holds
<1> HIDE DEF L
<1>3. /\ copy \in Seq(Bytes) /\ Len(copy) = L
      /\ \A i \in 1 .. L : copy[i] = p
  BY <1>1
<1>4. \A i \in 1 .. L : file[i] \in Bytes
  BY <1>1, <1>2
<1>5. /\ SubSeq(file, 1, L) \in Seq(Bytes) /\ Len(SubSeq(file, 1, L)) = L
      /\ \A i \in 1 .. L : SubSeq(file, 1, L)[i] = file[i]
  <2>1. /\ SubSeq(file, 1, L) \in Seq(Bytes)
        /\ Len(SubSeq(file, 1, L)) = IF 1 <= L THEN L - 1 + 1 ELSE 0
        /\ \A i \in 1 .. L - 1 + 1 : SubSeq(file, 1, L)[i] = file[1 + i - 1]
    BY <1>1, <1>4, SubSeqProperties
  <2> QED
    BY <1>1, <2>1
<1> HIDE DEF copy
<1>6. SubSeq(copy, 1, L) = copy
  BY <1>3, SubSeqFull
<1>7. SubSeq(file, 1, L) = copy
  BY <1>2, <1>3, <1>5, SeqEqual
<1>8. IsPrefix(copy, file)
  BY <1>2, <1>3, <1>6, <1>7 DEF IsPrefix
<1> QED
  BY <1>8 DEF copy, L

(* What has been printed is the beginning of what is published.             *)
LEMMA ConcatIsPrefix ==
  ASSUME NEW S, NEW s \in Seq(S), NEW t \in Seq(S)
  PROVE  IsPrefix(s, s \o t)
<1> DEFINE u == s \o t
           L == Len(s)
<1>1. /\ u \in Seq(S) /\ Len(u) = L + Len(t) /\ L \in Nat /\ Len(t) \in Nat
      /\ \A i \in 1 .. L : u[i] = s[i]
  BY ConcatProperties
<1>2. L <= Len(u) /\ \A i \in 1 .. L : u[i] \in S
  BY <1>1
<1> HIDE DEF u
<1>3. /\ SubSeq(u, 1, L) \in Seq(S) /\ Len(SubSeq(u, 1, L)) = L
      /\ \A i \in 1 .. L : SubSeq(u, 1, L)[i] = u[i]
  <2>1. /\ SubSeq(u, 1, L) \in Seq(S)
        /\ Len(SubSeq(u, 1, L)) = IF 1 <= L THEN L - 1 + 1 ELSE 0
        /\ \A i \in 1 .. L - 1 + 1 : SubSeq(u, 1, L)[i] = u[1 + i - 1]
    BY <1>1, <1>2, SubSeqProperties
  <2> QED
    BY <1>1, <2>1
<1>4. SubSeq(s, 1, L) = s
  BY SubSeqFull
<1>5. SubSeq(u, 1, L) = s
  BY <1>1, <1>3, SeqEqual
<1>6. IsPrefix(s, u)
  BY <1>2, <1>4, <1>5 DEF IsPrefix
<1> QED
  BY <1>6 DEF u

(* A dump walks the list in force, with all libraries registered; without   *)
(* -s what it has printed, and owes of a FADT, is what the entries up to    *)
(* here publish, with -s it is as often among what they publish of the      *)
(* signature, and the files written hold the tables printed                 *)
(* (DumpAcpiAllTable, DumpAcpiTableWithSign).                               *)
THEOREM Invariance == Spec => []IInv
BY InitIInv, NextIInv, PTL DEF Spec

(* DumpAcpiDSDT, DumpAcpiSSDT, DumpAcpiPSDT: after a dump with -d the n-th  *)
(* file of a kind begins with the n-th table of that kind in the output,    *)
(* whatever the files of earlier runs were.                                 *)
THEOREM FilesAreTables == Spec => []FilesHoldTables
<1>1. IInv => FilesHoldTables
  <2> SUFFICES ASSUME IInv, pc = "Done", mIsDumpData, NEW sign \in AmlSigns,
                      NEW n \in DOMAIN Where(printed, LinesBy({sign}))
               PROVE  IsPrefix([i \in 1 .. Table[Where(printed, LinesBy({sign}))[n].table].Length |->
                                  Where(printed, LinesBy({sign}))[n].table], files[<<sign, n>>])
    BY DEF FilesHoldTables
  <2> DEFINE tables == Where(printed, LinesBy({sign}))
             p == tables[n].table
  <2>1. /\ tables \in Seq(Lines) /\ Len(tables) \in Nat /\ n \in 1 .. Len(tables)
        /\ tables[n] \in LinesBy({sign})
    <3>1. printed \in Seq(Lines)
      BY DEF IInv, Typed
    <3>2. tables \in Seq(Lines) /\ Range(tables) = Range(printed) \cap LinesBy({sign})
      BY <3>1, WhereElements
    <3>3. DOMAIN tables = 1 .. Len(tables) /\ Len(tables) \in Nat
      BY <3>2
    <3>4. tables[n] \in Range(tables)
      BY DEF Range
    <3> QED
      BY <3>2, <3>3, <3>4
  <2>2. p \in DOMAIN Table
    BY <2>1 DEF LinesBy
  <2>3. Len(tables) <= MaxFiles /\ Holds(files[<<sign, n>>], p)
    BY <2>1 DEF IInv, Filed, Written
  <2>4. files[<<sign, n>>] \in Seq(Bytes)
    <3>1. MaxFiles \in Nat
      BY AcpiAssumption
    <3>2. <<sign, n>> \in Names
      BY <2>1, <2>3, <3>1 DEF Names
    <3> QED
      BY <3>2 DEF IInv, Typed, Files
  <2> HIDE DEF p
  <2>5. IsPrefix([i \in 1 .. Table[p].Length |-> p], files[<<sign, n>>])
    BY <2>2, <2>3, <2>4, HoldsIsPrefix
  <2> QED
    BY <2>5 DEF p
<1> QED
  BY <1>1, Invariance, PTL

(* DumpAcpiAllTable: without -s every table that is published is printed    *)
(* once for each time it is, in order and by the library for its signature; *)
(* a dump that an error stops has printed the first of them.                *)
THEOREM FullDumps == Spec => []FullDumpIsComplete
<1>1. IInv => FullDumpIsComplete
  <2> SUFFICES ASSUME IInv, mTableSign = NoSign
               PROVE  /\ IsPrefix(PrintedTables, Published)
                      /\ pc = "Done" => PrintedTables = Published
    BY DEF FullDumpIsComplete
  <2>1. PrintedTables \in Seq(Lines)
    BY WhereElements DEF IInv, Typed, PrintedTables
  <2>2. PICK rest \in Seq(Lines) : Published = PrintedTables \o rest
    BY DEF IInv, Complete
  <2>3. IsPrefix(PrintedTables, Published)
    BY <2>1, <2>2, ConcatIsPrefix
  <2>4. pc = "Done" => PrintedTables = Published
    BY DEF IInv, Complete
  <2> QED
    BY <2>3, <2>4
<1> QED
  BY <1>1, Invariance, PTL

(* DumpAcpiTableWithSign: a dump with -s prints the tables of its signature *)
(* as often as a dump without it does, and nothing else.                    *)
THEOREM SelectiveDumps == Spec => []SignFiltersDump
<1>1. IInv => SignFiltersDump
  <2> SUFFICES ASSUME IInv, pc = "Done", mTableSign # NoSign
               PROVE  SignPrintsItsTables
    BY DEF SignFiltersDump
  <2> DEFINE selected == Where(Published, OfSign(mTableSign))
  <2>1. firmware \in Firmwares /\ printed \in Seq(Lines)
    BY DEF IInv, Typed
  <2>2. Published \in Seq(Lines)
    <3>1. Len(InForce) \in Nat
      BY <2>1, EntriesInForce
    <3> QED
      BY <2>1, <3>1, PublishedSteps DEF Published
  <2>3. PrintedTables \in Seq(Lines) /\ selected \in Seq(Lines)
    BY <2>1, <2>2, WhereElements DEF PrintedTables
  <2>4. SameTimes(PrintedTables, selected)
    BY DEF IInv, Filtered, Selected, Published
  <2> HIDE DEF selected
  <2>5. ToSet(selected) \cup ToSet(PrintedTables) \subseteq Lines
    BY <2>3, MembersOfSeq
  <2>6. \A line \in ToSet(selected) \cup ToSet(PrintedTables) :
          Times(PrintedTables, line) = Times(selected, line)
    BY <2>4, <2>5 DEF SameTimes
  <2> QED
    BY <2>6 DEF SignPrintsItsTables, selected
<1> QED
  BY <1>1, Invariance, PTL

-----------------------------------------------------------------------------
(***************************************************************************)
(* The walks over the structures of a table (AcpiWalks)                    *)
(***************************************************************************)

LoopNames ==
  {"APIC", "SRAT", "HEST", "Banks", "DMAR", "Scopes", "NFIT", "ASF!", "FPDT", "BootTable", "S3Table",
   "BootRecords", "S3Records", "IBFT", "NicTarget", "Initiator", "Nic", "Target", "Extensions",
   "PMTT", "Controllers", "Domains", "Dimms", "LPIT", "DBG2", "MPST", "Characteristics", "WDAT",
   "ERST", "EINJ", "MSCT", "CPEP", "MCFG", "TCPA"}
Loops == [loop : LoopNames, at : Int, rest : Int, TableLen : Int]

(* The loops whose cursor and rest are moved by the same number of bytes;   *)
(* and those that may be at a structure of another list, or at none.        *)
Even == {"DMAR", "NFIT", "FPDT", "CPEP", "MCFG", "TCPA"}
Counted == {"DMAR", "NFIT", "FPDT", "CPEP", "MCFG", "TCPA",
            "Scopes", "Controllers", "Dimms", "BootRecords", "S3Records"}
Special == {"Domains", "MPST", "Controllers", "Dimms", "APIC", "SRAT", "PMTT", "LPIT"}

(* Behind a table of PMTT that the library was not written for.             *)
Astray(at) == ~Expected /\ table.sign = "PMTT" /\ at >= table.Length

(* A loop of this name that stands here, with this much left, is at a       *)
(* structure of a list that is as long.  That over the nodes of MPST is at  *)
(* the second part of the table when it ends.  Of MADT, SRAT, PMTT and LPIT *)
(* the list goes on to the end of the table, whatever is left.              *)
OnList(name, at, rest) ==
  /\ name = "Domains" =>
       (rest > 0 => (at \in DOMAIN table.mem /\ table.mem[at].extent >= 4) \/ Astray(at))
  /\ name = "MPST" =>
       at \in DOMAIN table.mem /\ table.mem[at].list = name /\ table.mem[at].left = rest
  /\ name \in {"Controllers", "Dimms"} => Begins(table, name, at, rest) \/ Astray(at)
  /\ name \in {"APIC", "SRAT", "PMTT", "LPIT"} =>
       table.sign = name /\ Begins(table, name, at, table.Length - at)
  /\ name \notin Special => Begins(table, name, at, rest)
  /\ EndsWithTable(name, at, rest)

WalkTyped ==
  /\ table \in Tables
  /\ stack \in Seq(Loops)
  /\ Expected => dumped \in Seq(Range(dumped))
AllOnLists == \A i \in 1 .. Len(stack) : OnList(stack[i].loop, stack[i].at, stack[i].rest)
InnerInside == \A i \in 1 .. Len(stack) : stack[i].loop \in Inner => i < Len(stack)
InnerInStep ==
  \A i \in 1 .. Len(stack) :
    stack[i].loop \in Inner => stack[i].at + stack[i].rest = stack[i + 1].at

WalkInv == WalkTyped /\ AllOnLists /\ InnerInside /\ InnerInStep /\ ReadsItsStructure

(* What an iteration prints, and the loops that it starts, one of which may *)
(* go up to where the cursor is moved.                                      *)
Fits(lines) ==
  Expected =>
    lines = <<>> \/ \E f : \E n \in Int : lines = Prints(f, n) /\ n <= Here.extent

Free(inner) ==
  /\ inner \in Seq(Loops)
  /\ \A i \in 1 .. Len(inner) :
       OnList(inner[i].loop, inner[i].at, inner[i].rest) /\ inner[i].loop \notin Counted

Nested(inner, end) ==
  /\ inner \in Seq(Loops)
  /\ \A i \in 1 .. Len(inner) :
       /\ OnList(inner[i].loop, inner[i].at, inner[i].rest)
       /\ inner[i].loop \in Counted =>
            inner[i].loop \in Inner /\ i = Len(inner) /\ inner[i].at + inner[i].rest = end

Sound(lines, step, less, inner, TableLen) ==
  /\ step \in Int /\ less \in Int /\ TableLen \in Int
  /\ Fits(lines)
  /\ OnList(Head(stack).loop, Cursor + step, Head(stack).rest - less)
  /\ Head(stack).loop \in Counted => step = less
  /\ Nested(inner, Cursor + step)

-----------------------------------------------------------------------------
LEMMA FreeIsNested == ASSUME NEW inner, Free(inner), NEW end PROVE Nested(inner, end)
  BY DEF Free, Nested

LEMMA NoLoops == Free(<<>>)
  BY EmptySeq DEF Free

LEMMA OneLoop ==
  ASSUME NEW name \in LoopNames, NEW at \in Int, NEW rest \in Int, OnList(name, at, rest)
  PROVE  /\ name \notin Counted => Free(Loop(name, at, rest))
         /\ name \in Inner => Nested(Loop(name, at, rest), at + rest)
<1> DEFINE loop == [loop |-> name, at |-> at, rest |-> rest, TableLen |-> 0]
<1>1. Loop(name, at, rest) = <<loop>>
  BY DEF Loop
<1>2. loop \in Loops
  BY DEF Loops
<1>3. /\ <<loop>> \in Seq(Loops) /\ Len(<<loop>>) = 1 /\ <<loop>>[1] = loop
  BY <1>2
<1>4. \A i \in 1 .. 1 : i = 1
  OBVIOUS
<1> QED
  BY <1>1, <1>3, <1>4 DEF Free, Nested

LEMMA FreeThenNested ==
  ASSUME NEW a, Free(a), NEW b, NEW end, Nested(b, end), b # <<>>
  PROVE  Nested(a \o b, end)
<1>1. a \in Seq(Loops) /\ b \in Seq(Loops) /\ Len(a) \in Nat /\ Len(b) \in Nat \ {0}
  BY EmptySeq, LenProperties DEF Free, Nested
<1>2. /\ a \o b \in Seq(Loops) /\ Len(a \o b) = Len(a) + Len(b)
      /\ \A i \in 1 .. Len(a) + Len(b) : (a \o b)[i] = IF i <= Len(a) THEN a[i] ELSE b[i - Len(a)]
  BY ONLY <1>1, ConcatProperties
<1>3. \A i \in 1 .. Len(a) + Len(b) :
        \/ i \in 1 .. Len(a) /\ (a \o b)[i] = a[i]
        \/ i - Len(a) \in 1 .. Len(b) /\ (a \o b)[i] = b[i - Len(a)]
  BY <1>1, <1>2
<1>4. ASSUME NEW i \in 1 .. Len(a) + Len(b)
      PROVE  LET loop == (a \o b)[i] IN
               /\ OnList(loop.loop, loop.at, loop.rest)
               /\ loop.loop \in Counted =>
                    loop.loop \in Inner /\ i = Len(a) + Len(b) /\ loop.at + loop.rest = end
  <2>1. CASE i \in 1 .. Len(a) /\ (a \o b)[i] = a[i]
    BY <2>1 DEF Free
  <2>2. CASE i - Len(a) \in 1 .. Len(b) /\ (a \o b)[i] = b[i - Len(a)]
    <3>1. i - Len(a) = Len(b) => i = Len(a) + Len(b)
      BY <1>1
    <3> QED
      BY <2>2, <3>1 DEF Nested
  <2> QED
    BY <1>3, <2>1, <2>2
<1> QED
  BY <1>2, <1>4 DEF Nested

LEMMA FreeThenFree ==
  ASSUME NEW a, Free(a), NEW b, Free(b) PROVE Free(a \o b)
<1>1. a \in Seq(Loops) /\ b \in Seq(Loops) /\ Len(a) \in Nat /\ Len(b) \in Nat
  BY LenProperties DEF Free
<1>2. /\ a \o b \in Seq(Loops) /\ Len(a \o b) = Len(a) + Len(b)
      /\ \A i \in 1 .. Len(a) + Len(b) : (a \o b)[i] = IF i <= Len(a) THEN a[i] ELSE b[i - Len(a)]
  BY ONLY <1>1, ConcatProperties
<1>3. \A i \in 1 .. Len(a) + Len(b) :
        \/ i \in 1 .. Len(a) /\ (a \o b)[i] = a[i]
        \/ i - Len(a) \in 1 .. Len(b) /\ (a \o b)[i] = b[i - Len(a)]
  BY <1>1, <1>2
<1> QED
  BY <1>2, <1>3 DEF Free

LEMMA AnyEnd ==
  ASSUME NEW name, name \notin Even, name \notin {"APIC", "SRAT", "PMTT", "LPIT"}
  PROVE  \A at, rest : EndsWithTable(name, at, rest)
  BY DEF EndsWithTable, ByLength, ByType, Late, Even

(* Behind a table that is walked by types or late is nothing.               *)
LEMMA BehindTheTable ==
  ASSUME table \in Tables, table.sign \in {"APIC", "SRAT", "PMTT", "LPIT"},
         NEW at \in Int, at >= table.Length
  PROVE  at \notin DOMAIN table.mem /\ StructureAt(at) = Behind
<1>1. /\ TableLaid(table) /\ table.Length \in Nat
      /\ table.sign \in ByType \cup Late => DOMAIN table.mem \subseteq 0 .. table.Length - 1
  BY LayoutAssumption DEF TableLaid
<1>2. DOMAIN table.mem \subseteq 0 .. table.Length - 1
  BY <1>1 DEF ByType, Late
<1>3. at \notin 0 .. table.Length - 1
  BY <1>1
<1> QED
  BY <1>2, <1>3 DEF StructureAt

Settled(name, left) ==
  /\ Cursor \in DOMAIN table.mem /\ Cursor \in Nat /\ Here = table.mem[Cursor]
  /\ Here.list = name /\ Here.left = left /\ Laid(table, Cursor)

(* The cursor is at a structure that is as it has to be.                    *)
LEMMA LaidWhereItBegins ==
  ASSUME WalkInv, NEW name, NEW left, left > 0, Begins(table, name, Cursor, left)
  PROVE  Settled(name, left)
<1>1. TableLaid(table)
  BY LayoutAssumption DEF WalkInv, WalkTyped
<1> QED
  BY <1>1 DEF TableLaid, Settled, Begins, Here, StructureAt

LEMMA HereIsLaid ==
  ASSUME WalkInv, NEW name, In(name)
  PROVE  /\ Head(stack) \in Loops /\ Head(stack).loop = name /\ Head(stack) = stack[1]
         /\ Cursor \in Int /\ Head(stack).rest \in Int /\ Head(stack).rest > 0
         /\ OnList(name, Cursor, Head(stack).rest)
         /\ name \notin Special \/ name = "MPST" =>
              /\ Cursor \in DOMAIN table.mem /\ Cursor \in Nat
              /\ Here = table.mem[Cursor]
              /\ Here.list = name /\ Here.left = Head(stack).rest
              /\ Laid(table, Cursor)
<1>1. stack \in Seq(Loops) /\ stack # <<>> /\ 1 \in 1 .. Len(stack)
  BY EmptySeq DEF WalkInv, WalkTyped, In
<1>2. /\ Head(stack) \in Loops /\ Head(stack).loop = name /\ Head(stack) = stack[1]
      /\ Head(stack).rest > 0
  BY <1>1, HeadTailProperties DEF In
<1>3. Cursor \in Int /\ Head(stack).rest \in Int
  BY <1>2 DEF Cursor, Loops
<1>4. OnList(name, Cursor, Head(stack).rest)
  BY <1>1, <1>2 DEF WalkInv, AllOnLists, Cursor
<1>5. name \notin Special \/ name = "MPST" =>
        /\ Cursor \in DOMAIN table.mem
        /\ table.mem[Cursor].list = name /\ table.mem[Cursor].left = Head(stack).rest
  BY <1>2, <1>4 DEF OnList, Begins, Special
<1>6. TableLaid(table)
  BY LayoutAssumption DEF WalkInv, WalkTyped
<1> QED
  BY <1>2, <1>3, <1>4, <1>5, <1>6 DEF TableLaid, Here, StructureAt

LEMMA LineIsOne ==
  ASSUME NEW f, NEW n \in Int
  PROVE  LET lines == Prints(f, n) IN
           /\ DOMAIN lines = {1} /\ lines[1].by = f /\ lines[1].reach = n /\ lines # <<>>
           /\ n <= Here.extent => Fits(lines)
<1>1. /\ DOMAIN Prints(f, n) = {1} /\ Prints(f, n)[1].by = f
      /\ Prints(f, n)[1].reach = n /\ Prints(f, n) # <<>>
  BY DEF Prints
<1>2. n <= Here.extent => Fits(Prints(f, n))
  BY DEF Fits
<1> QED
  BY <1>1, <1>2

(* Behind what has been printed come the lines of this structure.           *)
LEMMA LinesFit ==
  ASSUME WalkInv, NEW lines, Fits(lines),
         dumped' = dumped \o [i \in DOMAIN lines |->
                                [by |-> lines[i].by, at |-> Cursor, reach |-> lines[i].reach]],
         UNCHANGED call
  PROVE  (Expected' => dumped' \in Seq(Range(dumped'))) /\ ReadsItsStructure'
<1>0. Expected' = Expected
  BY DEF Expected, call
<1> SUFFICES ASSUME Expected PROVE dumped' \in Seq(Range(dumped')) /\ ReadsItsStructure'
  BY <1>0 DEF ReadsItsStructure
<1> DEFINE new == [i \in DOMAIN lines |->
                     [by |-> lines[i].by, at |-> Cursor, reach |-> lines[i].reach]]
<1>1. dumped \in Seq(Range(dumped)) /\ Len(dumped) \in Nat
  BY LenProperties DEF WalkInv, WalkTyped
<1> DEFINE Right(S) ==
             /\ new \in Seq(S) /\ Len(new) \in Nat
             /\ \A i \in 1 .. Len(new) : new[i].at = Cursor /\ new[i].reach <= Here.extent
<1>2. \E S : Right(S)
  <2>1. CASE lines = <<>>
    <3>1. new = <<>>
      BY <2>1
    <3> HIDE DEF new
    <3> QED
      BY <3>1, EmptySeq
  <2>2. ASSUME NEW f, NEW n \in Int, lines = Prints(f, n), n <= Here.extent
        PROVE  \E S : Right(S)
    <3> DEFINE line == [by |-> f, at |-> Cursor, reach |-> n]
    <3>1. new = [i \in 1 .. 1 |-> line]
      BY <2>2, LineIsOne
    <3>2. \E S : new \in Seq(S) /\ Len(new) = 1 /\ new[1] = line
      <4>1. new = <<line>>
        BY <3>1
      <4> HIDE DEF new, line
      <4>2. <<line>> \in Seq({line}) /\ Len(<<line>>) = 1 /\ <<line>>[1] = line
        OBVIOUS
      <4> QED
        BY <4>1, <4>2
    <3>3. line.at = Cursor /\ line.reach <= Here.extent
      BY <2>2
    <3> HIDE DEF new, line
    <3> QED
      BY <3>2, <3>3
  <2> QED
    BY <2>1, <2>2 DEF Fits
<1>3. PICK S : Right(S)
  BY <1>2
<1>4. dumped' = dumped \o new
  OBVIOUS
<1> HIDE DEF new
<1> DEFINE both == Range(dumped) \cup S
<1>5. dumped \in Seq(both) /\ new \in Seq(both)
  BY <1>1, <1>3
<1>6. /\ dumped' \in Seq(both) /\ Len(dumped') = Len(dumped) + Len(new)
      /\ \A i \in 1 .. Len(dumped) + Len(new) :
            dumped'[i] = IF i <= Len(dumped) THEN dumped[i] ELSE new[i - Len(dumped)]
  BY ONLY <1>4, <1>5, ConcatProperties
<1>7. dumped' \in Seq(Range(dumped'))
  <2>1. dumped' \in [1 .. Len(dumped') -> both] /\ Len(dumped') \in Nat
    BY <1>6, LenProperties
  <2>2. dumped' \in [1 .. Len(dumped') -> Range(dumped')]
    BY <2>1 DEF Range
  <2>3. ASSUME NEW R, NEW s, NEW n \in Nat, s \in [1 .. n -> R] PROVE s \in Seq(R)
    BY <2>3
  <2> QED
    BY ONLY <2>1, <2>2, <2>3
<1>8. DOMAIN dumped = 1 .. Len(dumped) /\ DOMAIN dumped' = 1 .. Len(dumped')
  BY <1>1, <1>6, LenProperties
<1>9. table' = table /\ Here = StructureAt(Cursor)
  BY DEF call, Here
<1>10. \A a : StructureAt(a)' = StructureAt(a)
  BY <1>9 DEF StructureAt
<1>11. ASSUME NEW i \in 1 .. Len(dumped) + Len(new)
       PROVE  dumped'[i].reach <= StructureAt(dumped'[i].at).extent
  <2>1. CASE i <= Len(dumped)
    <3>1. i \in DOMAIN dumped /\ dumped'[i] = dumped[i]
      BY <1>6, <1>8, <2>1
    <3> QED
      BY <3>1 DEF WalkInv, ReadsItsStructure
  <2>2. CASE ~(i <= Len(dumped))
    <3>1. i - Len(dumped) \in 1 .. Len(new) /\ dumped'[i] = new[i - Len(dumped)]
      BY <1>1, <1>3, <1>6, <2>2, SMTT(40)
    <3> QED
      BY <1>3, <1>9, <3>1
  <2> QED
    BY <2>1, <2>2
<1> QED
  BY <1>6, <1>7, <1>8, <1>10, <1>11 DEF ReadsItsStructure

(* Where the lists are depends on the table alone.                          *)
LEMMA TableStays ==
  ASSUME table' = table
  PROVE  /\ Expected' = Expected
         /\ \A name, at, rest : OnList(name, at, rest)' = OnList(name, at, rest)
<1>1. Expected' = Expected
  BY DEF Expected
<1>2. \A at : StructureAt(at)' = StructureAt(at)
  BY DEF StructureAt
<1>3. \A name, at, rest : EndsWithTable(name, at, rest)' = EndsWithTable(name, at, rest)
  BY <1>2 DEF EndsWithTable, Late, ByType, ByLength, Known, MadtKnown, SratKnown, MadtSize
<1> QED
  BY <1>1, <1>3 DEF OnList, Begins, Astray, Special

(* A loop that is left, or all of them.                                     *)
LEMMA LoopsEnd ==
  ASSUME WalkInv, stack # <<>>, stack' = Tail(stack) \/ stack' = <<>>, UNCHANGED <<call, dumped>>
  PROVE  WalkInv'
<1>1. stack \in Seq(Loops) /\ Len(stack) \in Nat /\ table' = table /\ dumped' = dumped
  BY LenProperties DEF WalkInv, WalkTyped, call
<1>2. ReadsItsStructure' /\ WalkTyped'
  <2>1. stack' \in Seq(Loops)
    BY <1>1, HeadTailProperties, EmptySeq
  <2>2. ReadsItsStructure'
    BY <1>1, TableStays DEF WalkInv, ReadsItsStructure, StructureAt
  <2> QED
    BY <1>1, <2>1, <2>2, TableStays DEF WalkInv, WalkTyped
<1>3. CASE stack' = <<>>
  <2>1. Len(stack') = 0 /\ DOMAIN stack' = {} /\ 1 .. 0 = {}
    BY <1>3
  <2> QED
    BY <1>2, <2>1 DEF WalkInv, AllOnLists, InnerInside, InnerInStep
<1>4. CASE stack' = Tail(stack)
  <2>1. /\ stack' \in Seq(Loops) /\ Len(stack') = Len(stack) - 1
        /\ \A i \in 1 .. Len(stack') : stack'[i] = stack[i + 1]
    BY <1>1, <1>4, HeadTailProperties
  <2>2. DOMAIN stack = 1 .. Len(stack) /\ DOMAIN stack' = 1 .. Len(stack')
    BY <1>1, <2>1, LenProperties
  <2>3. ASSUME NEW i \in 1 .. Len(stack')
        PROVE  i + 1 \in 1 .. Len(stack) /\ stack'[i] = stack[i + 1]
    BY <1>1, <2>1
  <2>4. AllOnLists'
    BY <1>1, <2>3, TableStays DEF WalkInv, AllOnLists
  <2>5. InnerInside'
    <3> SUFFICES ASSUME NEW i \in 1 .. Len(stack'), stack'[i].loop \in Inner PROVE i < Len(stack')
      BY DEF InnerInside, Inner
    <3>1. i + 1 < Len(stack)
      BY <2>3 DEF WalkInv, InnerInside
    <3> QED
      BY <1>1, <2>1, <3>1
  <2>6. InnerInStep'
    <3> SUFFICES ASSUME NEW i \in 1 .. Len(stack'), stack'[i].loop \in Inner
                 PROVE  stack'[i].at + stack'[i].rest = stack'[i + 1].at
      BY DEF InnerInStep, Inner
    <3>1. stack[i + 1].loop \in Inner =>
            /\ stack[i + 1].at + stack[i + 1].rest = stack[i + 1 + 1].at
            /\ i + 1 < Len(stack)
      <4>1. i + 1 \in 1 .. Len(stack)
        BY <2>3
      <4> QED
        BY <4>1 DEF WalkInv, InnerInStep, InnerInside
    <3>2. i + 1 < Len(stack) => i + 1 \in 1 .. Len(stack')
      BY <1>1, <2>1
    <3>3. /\ stack'[i] = stack[i + 1]
          /\ i + 1 < Len(stack) => stack'[i + 1] = stack[i + 1 + 1]
      BY <2>3, <3>2
    <3>4. stack[i + 1].loop \in Inner
      BY <3>3
    <3> QED
      BY ONLY <3>1, <3>3, <3>4
  <2> QED
    BY <1>2, <2>4, <2>5, <2>6 DEF WalkInv
<1> QED
  BY <1>3, <1>4

(* An iteration.                                                            *)
LEMMA IterateStep ==
  ASSUME WalkInv, stack # <<>>,
         NEW lines, NEW step, NEW less, NEW inner, NEW TableLen,
         Sound(lines, step, less, inner, TableLen),
         Iterate(lines, step, less, inner, TableLen)
  PROVE  WalkInv'
<1> DEFINE head == Head(stack)
           n == Len(inner)
           end == Cursor + step
           moved == [loop |-> head.loop, at |-> end, rest |-> head.rest - less, TableLen |-> TableLen]
<1>1. stack \in Seq(Loops) /\ Len(stack) \in Nat \ {0} /\ table' = table
  BY EmptySeq, LenProperties DEF WalkInv, WalkTyped, Iterate, call
<1>2. /\ head \in Loops /\ head = stack[1] /\ Tail(stack) \in Seq(Loops)
      /\ Len(Tail(stack)) = Len(stack) - 1
      /\ \A i \in 1 .. Len(stack) - 1 : Tail(stack)[i] = stack[i + 1]
  BY <1>1, HeadTailProperties
<1>3. /\ step \in Int /\ less \in Int /\ TableLen \in Int /\ end \in Int
      /\ OnList(head.loop, end, head.rest - less)
      /\ head.loop \in Counted => step = less
      /\ Nested(inner, end) /\ Fits(lines)
  BY <1>2, SMTT(40) DEF Sound, Cursor, Loops
<1>4. /\ moved \in Loops /\ moved.loop = head.loop /\ moved.at = end /\ moved.rest = head.rest - less
      /\ end = head.at + step
  BY <1>2, <1>3, SMTT(40) DEF Loops, Cursor
<1>5. stack' = inner \o <<moved>> \o Tail(stack)
  BY DEF Iterate
<1> HIDE DEF moved, end, head
<1>6. inner \in Seq(Loops) /\ n \in Nat
  BY <1>3, LenProperties DEF Nested
<1>7. /\ inner \o <<moved>> \in Seq(Loops) /\ Len(inner \o <<moved>>) = n + 1
      /\ \A i \in 1 .. n + 1 : (inner \o <<moved>>)[i] = IF i <= n THEN inner[i] ELSE moved
  <2>1. <<moved>> \in Seq(Loops) /\ Len(<<moved>>) = 1 /\ <<moved>>[1] = moved
    BY <1>4
  <2>2. /\ inner \o <<moved>> \in Seq(Loops) /\ Len(inner \o <<moved>>) = Len(inner) + 1
        /\ \A i \in 1 .. Len(inner) + 1 :
              (inner \o <<moved>>)[i] = IF i <= Len(inner) THEN inner[i] ELSE <<moved>>[i - Len(inner)]
    BY ONLY <1>6, <2>1, ConcatProperties
  <2>3. \A i \in 1 .. n + 1 : i <= n \/ i - n = 1
    BY <1>6
  <2> QED
    BY <2>1, <2>2, <2>3
<1>8. /\ stack' \in Seq(Loops) /\ Len(stack') = n + Len(stack)
      /\ \A i \in 1 .. n + Len(stack) :
            stack'[i] = IF i <= n + 1 THEN (inner \o <<moved>>)[i] ELSE Tail(stack)[i - (n + 1)]
  <2> DEFINE first == inner \o <<moved>>
             last == Tail(stack)
  <2>1. first \in Seq(Loops) /\ last \in Seq(Loops) /\ stack' = first \o last
    BY <1>2, <1>5, <1>7
  <2>2. Len(first) = n + 1 /\ Len(last) = Len(stack) - 1
    BY <1>2, <1>7
  <2> HIDE DEF first, last
  <2>3. /\ stack' \in Seq(Loops) /\ Len(stack') = Len(first) + Len(last)
        /\ \A i \in 1 .. Len(first) + Len(last) :
              stack'[i] = IF i <= Len(first) THEN first[i] ELSE last[i - Len(first)]
    BY ONLY <2>1, ConcatProperties
  <2>4. Len(first) + Len(last) = n + Len(stack)
    BY <1>1, <1>6, <2>2
  <2> QED
    BY <2>2, <2>3, <2>4 DEF first, last
<1>9. /\ \A i \in 1 .. n : i \in 1 .. Len(stack') /\ stack'[i] = inner[i]
      /\ n + 1 \in 1 .. Len(stack') /\ stack'[n + 1] = moved
      /\ \A i \in 2 .. Len(stack) : n + i \in 1 .. Len(stack') /\ stack'[n + i] = stack[i]
  <2>1. ASSUME NEW i \in 2 .. Len(stack) PROVE n + i \in 1 .. Len(stack') /\ stack'[n + i] = stack[i]
    <3>1. /\ n + i \in 1 .. n + Len(stack) /\ ~(n + i <= n + 1) /\ n + i - (n + 1) = i - 1
          /\ i - 1 \in 1 .. Len(stack) - 1 /\ i - 1 + 1 = i
      BY <1>1, <1>6
    <3> QED
      BY <1>2, <1>8, <3>1
  <2>2. ASSUME NEW i \in 1 .. n PROVE i \in 1 .. Len(stack') /\ stack'[i] = inner[i]
    <3>1. i \in 1 .. n + Len(stack) /\ i \in 1 .. n + 1 /\ i <= n /\ i <= n + 1
      BY <1>1, <1>6
    <3> QED
      BY <1>7, <1>8, <3>1
  <2>3. n + 1 \in 1 .. Len(stack') /\ stack'[n + 1] = moved
    <3>1. n + 1 \in 1 .. n + Len(stack) /\ n + 1 \in 1 .. n + 1 /\ ~(n + 1 <= n) /\ n + 1 <= n + 1
      BY <1>1, <1>6
    <3> QED
      BY <1>7, <1>8, <3>1
  <2> QED
    BY <2>1, <2>2, <2>3
<1>10. \A j \in 1 .. Len(stack') :
         \/ j \in 1 .. n
         \/ j = n + 1
         \/ \E i \in 2 .. Len(stack) : j = n + i
  <2> SUFFICES ASSUME NEW j \in 1 .. Len(stack'), j \notin 1 .. n, j # n + 1
               PROVE  \E i \in 2 .. Len(stack) : j = n + i
    OBVIOUS
  <2>1. j - n \in 2 .. Len(stack) /\ j = n + (j - n)
    BY <1>1, <1>6, <1>8, SMTT(40)
  <2> QED
    BY <2>1
<1>11. (Expected' => dumped' \in Seq(Range(dumped'))) /\ ReadsItsStructure'
  BY <1>3, LinesFit DEF Iterate
<1>12. WalkTyped'
  BY <1>1, <1>8, <1>11 DEF WalkInv, WalkTyped
<1>13. \A name, at, rest : OnList(name, at, rest)' = OnList(name, at, rest)
  BY <1>1, TableStays
<1>14. AllOnLists'
  <2> SUFFICES ASSUME NEW j \in 1 .. Len(stack')
               PROVE  OnList(stack'[j].loop, stack'[j].at, stack'[j].rest)
    BY <1>13 DEF AllOnLists
  <2>1. CASE j \in 1 .. n
    BY <1>3, <1>9, <2>1 DEF Nested
  <2>2. CASE j = n + 1
    BY <1>3, <1>4, <1>9, <2>2
  <2>3. ASSUME NEW i \in 2 .. Len(stack), j = n + i
        PROVE  OnList(stack'[j].loop, stack'[j].at, stack'[j].rest)
    <3>1. i \in 1 .. Len(stack) /\ stack'[j] = stack[i]
      BY <1>9, <2>3
    <3> QED
      BY <3>1 DEF WalkInv, AllOnLists
  <2> QED
    BY <1>10, <2>1, <2>2, <2>3
<1>15. 1 \in 1 .. Len(stack)
  BY <1>1
<1>16. InnerInside'
  <2> SUFFICES ASSUME NEW j \in 1 .. Len(stack'), stack'[j].loop \in Inner
               PROVE  j < Len(stack')
    BY DEF InnerInside, Inner
  <2>1. CASE j \in 1 .. n
    BY <1>1, <1>6, <1>8, <2>1
  <2>2. CASE j = n + 1
    <3>1. stack[1].loop \in Inner
      BY <1>2, <1>4, <1>9, <2>2
    <3>2. 1 < Len(stack)
      BY <1>15, <3>1 DEF WalkInv, InnerInside
    <3> QED
      BY <1>1, <1>6, <1>8, <2>2, <3>2
  <2>3. ASSUME NEW i \in 2 .. Len(stack), j = n + i
        PROVE  j < Len(stack')
    <3>1. i \in 1 .. Len(stack) /\ stack'[j] = stack[i]
      BY <1>9, <2>3
    <3>2. i < Len(stack)
      BY <3>1 DEF WalkInv, InnerInside
    <3> QED
      BY <1>1, <1>6, <1>8, <2>3, <3>2
  <2> QED
    BY <1>10, <2>1, <2>2, <2>3
<1>17. DOMAIN stack = 1 .. Len(stack) /\ DOMAIN stack' = 1 .. Len(stack')
  BY <1>1, <1>8, LenProperties
<1> DEFINE Agree(s, i) == s[i].loop \in Inner => s[i].at + s[i].rest = s[i + 1].at
<1>18. \A i \in 1 .. Len(stack) : Agree(stack, i)
  BY DEF WalkInv, InnerInStep
<1>19. InnerInStep'
  <2> SUFFICES ASSUME NEW j \in 1 .. Len(stack') PROVE Agree(stack', j)
    BY DEF InnerInStep, Inner
  <2>1. CASE j \in 1 .. n
    <3>1. stack'[j] = inner[j]
      BY <1>9, <2>1
    <3>2. inner[j].loop \in Counted =>
            inner[j].loop \in Inner /\ j = n /\ inner[j].at + inner[j].rest = end
      BY <1>3, <2>1 DEF Nested
    <3>3. Inner \subseteq Counted
      BY DEF Counted, Inner
    <3>4. j = n => stack'[j + 1].at = end
      BY <1>4, <1>9
    <3> QED
      BY <3>1, <3>2, <3>3, <3>4
  <2>2. CASE j = n + 1
    <3>1. stack'[j] = moved /\ moved.loop = stack[1].loop /\ Agree(stack, 1)
      BY <1>2, <1>4, <1>9, <1>15, <1>18, <2>2
    <3>2. stack[1].loop \in Inner => moved.at + moved.rest = stack[1].at + stack[1].rest
      <4>1. head.at \in Int /\ head.rest \in Int
        BY <1>2 DEF Loops
      <4>2. Inner \subseteq Counted
        BY DEF Counted, Inner
      <4> QED
        BY <1>2, <1>3, <1>4, <4>1, <4>2, SMTT(40)
    <3>3. stack[1].loop \in Inner => stack'[j + 1] = stack[1 + 1]
      <4> SUFFICES ASSUME stack[1].loop \in Inner PROVE stack'[j + 1] = stack[1 + 1]
        OBVIOUS
      <4>1. 1 < Len(stack)
        BY <1>15 DEF WalkInv, InnerInside
      <4>2. 2 \in 2 .. Len(stack) /\ n + 2 = j + 1 /\ 1 + 1 = 2
        BY <1>1, <1>6, <2>2, <4>1
      <4> QED
        BY <1>9, <4>2, SMTT(40)
    <3> QED
      BY <3>1, <3>2, <3>3
  <2>3. ASSUME NEW i \in 2 .. Len(stack), j = n + i PROVE Agree(stack', j)
    <3>1. i \in 1 .. Len(stack) /\ stack'[j] = stack[i] /\ Agree(stack, i)
      BY <1>9, <1>18, <2>3
    <3>2. stack[i].loop \in Inner => stack'[j + 1] = stack[i + 1]
      <4> SUFFICES ASSUME stack[i].loop \in Inner PROVE stack'[j + 1] = stack[i + 1]
        OBVIOUS
      <4>1. i < Len(stack)
        BY <3>1 DEF WalkInv, InnerInside
      <4>2. i + 1 \in 2 .. Len(stack) /\ n + (i + 1) = j + 1
        BY <1>1, <1>6, <2>3, <4>1
      <4> QED
        BY <1>9, <4>2, SMTT(40)
    <3> QED
      BY <3>1, <3>2
  <2> QED
    BY <1>10, <2>1, <2>2, <2>3
<1> QED
  BY <1>11, <1>12, <1>14, <1>16, <1>19 DEF WalkInv

LEMMA MovesOn ==
  ASSUME NEW name, name \notin Special, NEW at \in Int, NEW rest \in Int, NEW step \in Int, NEW less \in Int,
         name \in Even => step = less, EndsWithTable(name, at, rest)
  PROVE  EndsWithTable(name, at + step, rest - less)
<1>1. CASE name \in Even
  <2>1. at + step + (rest - less) = at + rest
    BY <1>1
  <2>2. name \notin ByType \cup Late
    BY DEF ByType, Late, Special
  <2> QED
    BY <2>1, <2>2 DEF EndsWithTable
<1>2. CASE name \notin Even
  BY <1>2, AnyEnd DEF Special
<1> QED
  BY <1>1, <1>2

(* An iteration over a structure behind which the list goes on.             *)
LEMMA PlainStep ==
  ASSUME WalkInv, NEW name, In(name), name \notin Special,
         NEW lines, Fits(lines), NEW step \in Int, NEW less \in Int, NEW TableLen \in Int,
         NEW inner, Nested(inner, Cursor + step), name \in Counted => step = less,
         Goes(table, Cursor, step, less),
         Iterate(lines, step, less, inner, TableLen)
  PROVE  WalkInv'
<1>1. /\ Head(stack).loop = name /\ Here = table.mem[Cursor]
      /\ Here.list = name /\ Here.left = Head(stack).rest /\ stack # <<>>
  BY HereIsLaid DEF In
<1>2. OnList(Head(stack).loop, Cursor + step, Head(stack).rest - less)
  <2>1. Begins(table, name, Cursor + step, Head(stack).rest - less)
    BY <1>1 DEF Goes
  <2>2. EndsWithTable(name, Cursor, Head(stack).rest)
    BY HereIsLaid DEF OnList
  <2>3. EndsWithTable(name, Cursor + step, Head(stack).rest - less)
    BY <2>2, MovesOn, HereIsLaid DEF Counted, Even
  <2> QED
    BY <1>1, <2>1, <2>3 DEF OnList, Special
<1>3. Sound(lines, step, less, inner, TableLen)
  BY <1>1, <1>2 DEF Sound
<1> QED
  BY <1>1, <1>3, IterateStep

(* The same without loops inside.                                           *)
LEMMA FlatStep ==
  ASSUME WalkInv, NEW name, In(name), name \notin Special,
         NEW lines, Fits(lines), NEW step \in Int, NEW less \in Int, NEW TableLen \in Int,
         name \in Counted => step = less,
         Goes(table, Cursor, step, less),
         Iterate(lines, step, less, <<>>, TableLen)
  PROVE  WalkInv'
<1>1. Nested(<<>>, Cursor + step)
  BY NoLoops, FreeIsNested
<1> QED
  BY <1>1, PlainStep

LEMMA ArrayStep ==
  ASSUME WalkInv, NEW name, In(name), name \notin Special, name \notin Counted,
         NEW f, NEW n \in Int, n <= Here.extent, Goes(table, Cursor, n, 1),
         Element(Prints(f, n))
  PROVE  WalkInv'
<1>1. Prints(f, n)[1].reach = n /\ Fits(Prints(f, n))
  BY LineIsOne
<1>2. Iterate(Prints(f, n), n, 1, <<>>, 0)
  BY <1>1 DEF Element
<1> QED
  BY <1>1, <1>2, FlatStep

LEMMA NullOrOne ==
  ASSUME NEW name \in LoopNames, name \notin Counted, name \notin Special,
         NEW at, PointsAt(table, name, at)
  PROVE  Free(NonNull(name, at))
<1>1. CASE at = 0
  BY <1>1, NoLoops DEF NonNull
<1>2. CASE at # 0
  <2>1. at \in Int /\ OnList(name, at, 1)
    BY <1>2, AnyEnd DEF PointsAt, OnList, Special, Counted, Even
  <2> QED
    BY <1>2, <2>1, OneLoop DEF NonNull
<1> QED
  BY <1>1, <1>2

-----------------------------------------------------------------------------
LEMMA NothingFits == Fits(<<>>)
  BY DEF Fits

LEMMA NothingNested == ASSUME NEW end PROVE Nested(<<>>, end)
  BY NoLoops, FreeIsNested

LEMMA LineFits == ASSUME NEW f, NEW n \in Int, n <= Here.extent PROVE Fits(Prints(f, n))
  BY DEF Fits

(* What is subtracted in a table of PMTT or LPIT is a Length.               *)
LEMMA HasLength ==
  ASSUME table \in Tables, NEW name \in {"PMTT", "LPIT"}, table.sign = name,
         NEW at \in Int, Begins(table, name, at, table.Length - at)
  PROVE  StructureAt(at).Length \in Nat
<1>1. TableLaid(table) /\ table.Length \in Nat /\ ReadsAsOne(Behind)
  BY LayoutAssumption DEF TableLaid
<1>2. CASE at < table.Length
  <2>1. table.Length - at > 0
    BY <1>1, <1>2
  <2>2. at \in DOMAIN table.mem /\ table.mem[at].list = name /\ Laid(table, at)
    BY <1>1, <2>1 DEF Begins, TableLaid
  <2> QED
    BY <2>2 DEF Laid, PmttLaid, LpitLaid, GoesByBytes, StructureAt
<1>3. CASE ~(at < table.Length)
  <2>1. at >= table.Length
    BY <1>1, <1>3
  <2> QED
    BY <1>1, <2>1, BehindTheTable DEF ReadsAsOne
<1> QED
  BY <1>2, <1>3

LEMMA FirstHasLength ==
  ASSUME table \in Tables, NEW name \in {"PMTT", "LPIT"}, table.sign = name
  PROVE  StructureAt(ByLength[name]).Length \in Nat
<1> DEFINE first == ByLength[name]
<1>1. first \in Int /\ first = HeaderSize[name]
  BY DEF ByLength, HeaderSize
<1>2. Begins(table, name, first, table.Length - first)
  BY <1>1, LayoutAssumption DEF TableLaid, ListBegins, ByteLists
<1> HIDE DEF first
<1>3. StructureAt(first).Length \in Nat
  BY <1>1, <1>2, HasLength
<1> QED
  BY <1>3 DEF first

(* A walk that goes by types or late is at a structure of its list, or       *)
(* behind the table, of which it is written that this does not happen.      *)
LEMMA HereOrBehind ==
  ASSUME WalkInv, NEW name \in {"APIC", "SRAT", "PMTT", "LPIT"}, In(name)
  PROVE  /\ table.sign = name /\ Cursor \in Int /\ table.Length \in Nat
         /\ \/ Cursor < table.Length /\ Settled(name, table.Length - Cursor)
            \/ ~Expected /\ Cursor >= table.Length /\ Here = Behind
<1> DEFINE rest == Head(stack).rest
<1>1. /\ OnList(name, Cursor, rest) /\ Cursor \in Int /\ rest \in Int /\ rest > 0
      /\ table \in Tables
  BY HereIsLaid DEF WalkInv, WalkTyped
<1>2. /\ table.sign = name /\ Begins(table, name, Cursor, table.Length - Cursor)
      /\ EndsWithTable(name, Cursor, rest)
  BY <1>1 DEF OnList
<1>3. table.Length \in Nat
  BY <1>1, LayoutAssumption DEF TableLaid
<1>4. CASE Cursor < table.Length
  <2>1. table.Length - Cursor > 0
    BY <1>1, <1>3, <1>4
  <2> QED
    BY <1>1, <1>2, <1>3, <1>4, <2>1, LaidWhereItBegins
<1>5. CASE ~(Cursor < table.Length)
  <2>1. Cursor >= table.Length
    BY <1>1, <1>3, <1>5
  <2>2. Here = Behind
    BY <1>1, <1>2, <2>1, BehindTheTable DEF Here
  <2>3. ASSUME Expected PROVE FALSE
    <3>1. CASE name \in ByType
      <4>1. \A a \in DOMAIN table.mem : Known(name, table.mem[a])
        BY <1>2, <2>3, <3>1 DEF Expected, WrittenFor
      <4>2. Cursor + rest = table.Length
        BY <1>2, <3>1, <4>1 DEF EndsWithTable
      <4> QED
        BY <1>1, <1>3, <2>1, <4>2
    <3>2. CASE name \in Late
      <4> DEFINE first == ByLength[name]
      <4>1. first \in Nat /\ first = HeaderSize[name] /\ name \in DOMAIN ByLength
        BY <3>2 DEF Late, ByLength, HeaderSize
      <4>2. StructureAt(first).Length <= Behind.Length
        <5>1. first \in DOMAIN table.mem => table.mem[first].Length <= Behind.Length
          BY <1>2, <2>3, <3>2, <4>1 DEF Expected, WrittenFor
        <5>2. Behind.Length \in Nat
          BY LayoutAssumption DEF ReadsAsOne
        <5> QED
          BY <5>1, <5>2 DEF StructureAt
      <4>3. StructureAt(Cursor) = Behind
        BY <2>2 DEF Here
      <4>4. Cursor + rest + Behind.Length = table.Length + StructureAt(first).Length
        BY <1>2, <3>2, <4>3 DEF EndsWithTable
      <4>5. StructureAt(first).Length \in Nat
        BY <1>1, <1>2, <3>2, FirstHasLength DEF Late
      <4>6. Behind.Length \in Nat
        BY LayoutAssumption DEF ReadsAsOne
      <4> HIDE DEF first
      <4> QED
        BY <1>1, <1>3, <2>1, <4>2, <4>4, <4>5, <4>6
    <3> QED
      BY <3>1, <3>2 DEF ByType, Late
  <2> QED
    BY <1>1, <1>2, <1>3, <2>1, <2>2, <2>3
<1> QED
  BY <1>4, <1>5

-----------------------------------------------------------------------------
(* MADT and SRAT: what is left goes down by the Length of the structure,    *)
(* when the library knows it.                                               *)
LEMMA TypedStep ==
  ASSUME WalkInv, NEW name \in {"APIC", "SRAT"}, In(name),
         NEW lines, Fits(lines), NEW TableLen \in Int,
         Here.Length \in Nat /\ Known(name, Here) => TableLen = Here.Length,
         Iterate(lines, Here.Length, TableLen, <<>>, TableLen)
  PROVE  WalkInv'
<1> DEFINE rest == Head(stack).rest
           next == Cursor + Here.Length
           GoesOn ==
             /\ Here.Length \in Nat /\ Begins(table, name, next, table.Length - next)
             /\ (\A a \in DOMAIN table.mem : a < next => Known(name, table.mem[a])) =>
                  next + (rest - TableLen) = table.Length
<1>1. /\ Head(stack).loop = name /\ stack # <<>> /\ rest \in Int /\ rest > 0
      /\ EndsWithTable(name, Cursor, rest)
  BY HereIsLaid DEF In, OnList
<1>2. /\ table.sign = name /\ Cursor \in Int /\ table.Length \in Nat
      /\ \/ Cursor < table.Length /\ Settled(name, table.Length - Cursor)
         \/ ~Expected /\ Cursor >= table.Length /\ Here = Behind
  BY HereOrBehind
<1>3. ASSUME Cursor < table.Length, Settled(name, table.Length - Cursor)
      PROVE  GoesOn
  <2>1. /\ Cursor \in DOMAIN table.mem /\ Here = table.mem[Cursor]
        /\ Here.list = name /\ Here.left = table.Length - Cursor
        /\ TypedLaid(table, Cursor, Here)
    BY <1>3 DEF Settled, Laid, ByType
  <2>2. /\ Here.Length \in Nat /\ Here.Length >= 2
        /\ Begins(table, name, next, Here.left - Here.Length)
    BY <2>1 DEF TypedLaid, GoesByBytes, Goes
  <2>3. Here.left - Here.Length = table.Length - next /\ Cursor < next /\ next \in Int
    BY <1>2, <2>1, <2>2
  <2>4. Begins(table, name, next, table.Length - next)
    BY <2>2, <2>3
  <2>5. ASSUME \A a \in DOMAIN table.mem : a < next => Known(name, table.mem[a])
        PROVE  next + (rest - TableLen) = table.Length
    <3>1. Known(name, Here)
      BY <2>1, <2>3, <2>5
    <3>2. DOMAIN table.mem \subseteq Nat
      BY LayoutAssumption DEF WalkInv, WalkTyped, TableLaid
    <3>3. \A a \in DOMAIN table.mem : a < Cursor => a < next
      BY <1>2, <2>3, <3>2
    <3>4. Cursor + rest = table.Length
      BY <1>1, <2>5, <3>3 DEF EndsWithTable, ByType
    <3>5. TableLen = Here.Length
      BY <2>2, <3>1
    <3> QED
      BY <1>1, <1>2, <2>2, <3>4, <3>5
  <2> QED
    BY <2>2, <2>4, <2>5
<1>4. ASSUME ~Expected, Cursor >= table.Length, Here = Behind
      PROVE  GoesOn
  <2>1. Here.Length \in Nat
    BY <1>4, LayoutAssumption DEF ReadsAsOne
  <2>2. ~(table.Length - next > 0) /\ next \in Int
    BY <1>2, <1>4, <2>1
  <2>3. Begins(table, name, next, table.Length - next)
    BY <2>2 DEF Begins
  <2>4. ASSUME \A a \in DOMAIN table.mem : a < next => Known(name, table.mem[a])
        PROVE  FALSE
    <3>1. DOMAIN table.mem \subseteq Nat
      BY LayoutAssumption DEF WalkInv, WalkTyped, TableLaid
    <3>2. \A a \in DOMAIN table.mem : a < Cursor => a < next
      BY <1>2, <2>1, <3>1
    <3>3. Cursor + rest = table.Length
      BY <1>1, <2>4, <3>2 DEF EndsWithTable, ByType
    <3> QED
      BY <1>1, <1>2, <1>4, <3>3
  <2> QED
    BY <2>1, <2>3, <2>4
<1>5. GoesOn
  BY <1>2, <1>3, <1>4
<1>6. EndsWithTable(name, next, rest - TableLen)
  BY <1>5 DEF EndsWithTable, ByType, Late
<1>7. OnList(name, next, rest - TableLen)
  BY <1>2, <1>5, <1>6 DEF OnList, Special
<1>8. name \notin Counted
  BY DEF Counted
<1>9. Sound(lines, Here.Length, TableLen, <<>>, TableLen)
  BY <1>1, <1>5, <1>7, <1>8, NothingNested DEF Sound
<1> QED
  BY <1>1, <1>9, IterateStep

(* MADT: what a function prints is as long as the structure says.           *)
LEMMA MadtStep == ASSUME WalkInv, DumpAcpiMADT PROVE WalkInv'
<1> DEFINE Right(f, n) ==
      /\ MadtLine(Here) = Prints(f, n)
      /\ Here.Type \notin GicTypes => n \in Int
      /\ Known("APIC", Here) /\ Here.Length \in Nat =>
           n \in Int /\ n <= Here.Length /\ (Here.Type \in GicTypes \/ n = Here.Length)
      TableLen == CASE Here.Type \in GicTypes -> Here.Length
                    [] MadtLine(Here) = <<>> -> Head(stack).TableLen
                    [] OTHER -> MadtLine(Here)[1].reach
<1>1. In("APIC") /\ Iterate(MadtLine(Here), Here.Length, TableLen, <<>>, TableLen)
  BY DEF DumpAcpiMADT
<1> HIDE DEF TableLen
<1>2. /\ Here.Length \in Nat
      /\ Expected => Known("APIC", Here) /\ Here.extent = Here.Length
  <2>1. \/ Settled("APIC", table.Length - Cursor)
        \/ ~Expected /\ Here = Behind
    BY <1>1, HereOrBehind
  <2>2. CASE Settled("APIC", table.Length - Cursor)
    <3>1. Here = table.mem[Cursor] /\ Cursor \in DOMAIN table.mem /\ TypedLaid(table, Cursor, Here)
      BY <2>2 DEF Settled, Laid, ByType
    <3>2. table.sign = "APIC"
      BY <1>1, HereOrBehind
    <3>3. Expected => Known("APIC", Here)
      BY <3>1, <3>2 DEF Expected, WrittenFor, ByType
    <3> QED
      BY <3>1, <3>3 DEF TypedLaid, GoesByBytes
  <2>3. CASE ~Expected /\ Here = Behind
    BY <2>3, LayoutAssumption DEF ReadsAsOne
  <2> QED
    BY <2>1, <2>2, <2>3
<1>3. CASE Here.Type \in 0 .. 14
  <2>1. \E f, n : Right(f, n)
    <3>1. CASE Here.Type = 0
      <4>1. MadtLine(Here) = DumpApicProcessorLocalApic
        BY <3>1 DEF MadtLine
      <4> QED
        BY <3>1, <4>1 DEF Known, MadtKnown, MadtSize, DumpApicProcessorLocalApic
    <3>2. CASE Here.Type = 1
      <4>1. MadtLine(Here) = DumpApicIOApic
        BY <3>2 DEF MadtLine
      <4> QED
        BY <3>2, <4>1 DEF Known, MadtKnown, MadtSize, DumpApicIOApic
    <3>3. CASE Here.Type = 2
      <4>1. MadtLine(Here) = DumpApicInterruptSourceOverride
        BY <3>3 DEF MadtLine
      <4> QED
        BY <3>3, <4>1 DEF Known, MadtKnown, MadtSize, DumpApicInterruptSourceOverride
    <3>4. CASE Here.Type = 3
      <4>1. MadtLine(Here) = DumpApicNonMaskableInterruptSource
        BY <3>4 DEF MadtLine
      <4> QED
        BY <3>4, <4>1 DEF Known, MadtKnown, MadtSize, DumpApicNonMaskableInterruptSource
    <3>5. CASE Here.Type = 4
      <4>1. MadtLine(Here) = DumpApicLocalApicNMI
        BY <3>5 DEF MadtLine
      <4> QED
        BY <3>5, <4>1 DEF Known, MadtKnown, MadtSize, DumpApicLocalApicNMI
    <3>6. CASE Here.Type = 5
      <4>1. MadtLine(Here) = DumpApicLocalApicAddressOverride
        BY <3>6 DEF MadtLine
      <4> QED
        BY <3>6, <4>1 DEF Known, MadtKnown, MadtSize, DumpApicLocalApicAddressOverride
    <3>7. CASE Here.Type = 6
      <4>1. MadtLine(Here) = DumpApicIOSapic
        BY <3>7 DEF MadtLine
      <4> QED
        BY <3>7, <4>1 DEF Known, MadtKnown, MadtSize, DumpApicIOSapic
    <3>8. CASE Here.Type = 7
      <4>1. MadtLine(Here) = DumpApicProcessorLocalSapic
        BY <3>8 DEF MadtLine
      <4> QED
        BY <3>8, <4>1 DEF Known, MadtKnown, MadtSize, DumpApicProcessorLocalSapic
    <3>9. CASE Here.Type = 8
      <4>1. MadtLine(Here) = DumpApicPlatformInterruptSource
        BY <3>9 DEF MadtLine
      <4> QED
        BY <3>9, <4>1 DEF Known, MadtKnown, MadtSize, DumpApicPlatformInterruptSource
    <3>10. CASE Here.Type = 9
      <4>1. MadtLine(Here) = DumpApicProcessorLocalX2Apic
        BY <3>10 DEF MadtLine
      <4> QED
        BY <3>10, <4>1 DEF Known, MadtKnown, MadtSize, DumpApicProcessorLocalX2Apic
    <3>11. CASE Here.Type = 10
      <4>1. MadtLine(Here) = DumpApicLocalX2ApicNmi
        BY <3>11 DEF MadtLine
      <4> QED
        BY <3>11, <4>1 DEF Known, MadtKnown, MadtSize, DumpApicLocalX2ApicNmi
    <3>12. CASE Here.Type = 11
      <4>1. MadtLine(Here) = DumpApicGic(Here)
        BY <3>12 DEF MadtLine
      <4> QED
        BY <3>12, <4>1 DEF Known, MadtKnown, GicTypes, DumpApicGic
    <3>13. CASE Here.Type = 12
      <4>1. MadtLine(Here) = DumpApicGicDistributor
        BY <3>13 DEF MadtLine
      <4> QED
        BY <3>13, <4>1 DEF Known, MadtKnown, GicTypes, DumpApicGicDistributor
    <3>14. CASE Here.Type = 13
      <4>1. MadtLine(Here) = DumpApicGicMsiFrame
        BY <3>14 DEF MadtLine
      <4> QED
        BY <3>14, <4>1 DEF Known, MadtKnown, GicTypes, DumpApicGicMsiFrame
    <3>15. CASE Here.Type = 14
      <4>1. MadtLine(Here) = DumpApicGicRedistributor
        BY <3>15 DEF MadtLine
      <4> QED
        BY <3>15, <4>1 DEF Known, MadtKnown, GicTypes, DumpApicGicRedistributor
    <3> QED
      BY <1>3, <3>1, <3>2, <3>3, <3>4, <3>5, <3>6, <3>7, <3>8, <3>9, <3>10, <3>11, <3>12, <3>13, <3>14, <3>15
  <2>2. PICK f, n : Right(f, n)
    BY <2>1
  <2>3. MadtLine(Here) # <<>> /\ MadtLine(Here)[1].reach = n
    BY <2>2 DEF Prints
  <2>4. Fits(MadtLine(Here))
    BY <1>2, <2>2 DEF Fits
  <2>5. TableLen = IF Here.Type \in GicTypes THEN Here.Length ELSE n
    BY <2>3 DEF TableLen
  <2>6. /\ TableLen \in Int
        /\ Known("APIC", Here) => TableLen = Here.Length
    BY <1>2, <2>2, <2>5
  <2> QED
    BY <1>1, <2>4, <2>6, TypedStep
<1>4. CASE Here.Type \notin 0 .. 14
  <2>1. MadtLine(Here) = <<>> /\ Here.Type \notin GicTypes
    BY <1>4 DEF MadtLine, GicTypes
  <2>2. TableLen = Head(stack).TableLen /\ TableLen \in Int
    BY <1>1, <2>1, HereIsLaid DEF TableLen, Loops
  <2>3. ~Known("APIC", Here)
    BY <1>4 DEF Known, MadtKnown
  <2>4. Fits(<<>>)
    BY DEF Fits
  <2> QED
    BY <1>1, <2>1, <2>2, <2>3, <2>4, TypedStep
<1> QED
  BY <1>3, <1>4

LEMMA SratStep == ASSUME WalkInv, DumpAcpiSRAT PROVE WalkInv'
<1> DEFINE TableLen == IF SratLine(Here) = <<>> THEN Head(stack).TableLen ELSE SratLine(Here)[1].reach
<1>1. In("SRAT") /\ Iterate(SratLine(Here), Here.Length, TableLen, <<>>, TableLen)
  BY DEF DumpAcpiSRAT
<1>2. Expected => Known("SRAT", Here) /\ Here.extent = Here.Length
  <2>1. /\ table.sign = "SRAT"
        /\ Settled("SRAT", table.Length - Cursor) \/ ~Expected
    BY <1>1, HereOrBehind
  <2> QED
    BY <2>1 DEF Settled, Laid, ByType, TypedLaid, Expected, WrittenFor
<1>3. CASE Here.Type \in {0, 1}
  <2>1. \E f : \E n \in {16, 40} : SratLine(Here) = Prints(f, n) /\ (Known("SRAT", Here) => n = Here.Length)
    <3>1. CASE Here.Type = 0
      <4>1. SratLine(Here) = Prints("ProcessorLocalApicSapicAffinity", 16)
        BY <3>1 DEF SratLine, DumpAcpiProcessorLocalApicSapicAffinity
      <4>2. Known("SRAT", Here) => Here.Length = 16
        BY <3>1 DEF Known, SratKnown
      <4> QED
        BY <4>1, <4>2
    <3>2. CASE Here.Type = 1
      <4>1. SratLine(Here) = Prints("MemoryAffinity", 40)
        BY <3>2 DEF SratLine, DumpAcpiMemoryAffinity
      <4>2. Known("SRAT", Here) => Here.Length = 40
        BY <3>2 DEF Known, SratKnown
      <4> QED
        BY <4>1, <4>2
    <3> QED
      BY <1>3, <3>1, <3>2
  <2>2. PICK f : \E n \in {16, 40} : SratLine(Here) = Prints(f, n) /\ (Known("SRAT", Here) => n = Here.Length)
    BY <2>1
  <2> PICK n \in {16, 40} : SratLine(Here) = Prints(f, n) /\ (Known("SRAT", Here) => n = Here.Length)
    BY <2>2
  <2>3. SratLine(Here) # <<>> /\ SratLine(Here)[1].reach = n /\ n \in Int
    BY DEF Prints
  <2>4. Fits(SratLine(Here))
    BY <1>2, <2>3 DEF Fits
  <2>5. TableLen = n
    BY <2>3
  <2> HIDE DEF TableLen
  <2> QED
    BY <1>1, <2>3, <2>4, <2>5, TypedStep
<1>4. CASE Here.Type \notin {0, 1}
  <2>1. SratLine(Here) = <<>>
    BY <1>4 DEF SratLine
  <2>2. TableLen = Head(stack).TableLen /\ TableLen \in Int
    BY <1>1, <2>1, HereIsLaid DEF Loops
  <2>3. ~Known("SRAT", Here)
    BY <1>4 DEF Known, SratKnown
  <2>4. Fits(<<>>)
    BY DEF Fits
  <2> HIDE DEF TableLen
  <2> QED
    BY <1>1, <2>1, <2>2, <2>3, <2>4, TypedStep
<1> QED
  BY <1>3, <1>4

(* HEST: the walk counts the banks that the function prints.                *)
LEMMA HestStep == ASSUME WalkInv, DumpAcpiHEST PROVE WalkInv'
<1>1. In("HEST") /\ stack # <<>>
  BY DEF DumpAcpiHEST, In
<1>2. Here = table.mem[Cursor] /\ HestLaid(table, Cursor, Here) /\ Cursor \in Int
  BY <1>1, HereIsLaid DEF Laid, Special
<1>3. CASE HestLine(Here) = <<>>
  <2>1. stack' = <<>> /\ UNCHANGED <<call, dumped>>
    BY <1>3 DEF DumpAcpiHEST
  <2> QED
    BY <1>1, <2>1, LoopsEnd
<1>4. CASE HestLine(Here) # <<>>
  <2>1. Here.Type \in {0, 1, 2, 6, 7, 8, 9}
    BY <1>4 DEF HestLine
  <2>2. /\ <<Here.Type, Here.extent>> \in HestSize
        /\ Here.Type \in {0, 1} =>
             /\ Here.n \in Nat /\ Begins(table, "Banks", Cursor + Here.extent, Here.n)
             /\ Goes(table, Cursor, Here.extent + 28 * Here.n, 1)
        /\ Here.Type \notin {0, 1} => Goes(table, Cursor, Here.extent, 1)
    BY <1>2, <2>1 DEF HestLaid
  <2>3. PICK f : HestLine(Here) = Prints(f, Here.extent)
    <3>1. \/ Here.Type = 0 /\ Here.extent = 40
          \/ Here.Type = 1 /\ Here.extent = 48
          \/ Here.Type = 2 /\ Here.extent = 20
          \/ Here.Type = 6 /\ Here.extent = 48
          \/ Here.Type = 7 /\ Here.extent = 44
          \/ Here.Type = 8 /\ Here.extent = 56
          \/ Here.Type = 9 /\ Here.extent = 64
      BY <2>2 DEF HestSize
    <3> QED
      BY <3>1 DEF HestLine, DumpHestIa32MachineCheckException, DumpHestIa32CorrectedMachineCheck,
         DumpHestIa32NmiError, DumpHestPcieRootPortAer, DumpHestPcieDeviceAer, DumpHestPcieBridgeAer,
         DumpHestGenericHardwareError, DumpHestHardwareNotificationStructure
  <2>4. Here.extent \in Int
    BY <2>2 DEF HestSize
  <2>5. HestLine(Here)[1].reach = Here.extent /\ Fits(HestLine(Here))
    BY <2>3, <2>4, LineIsOne
  <2> DEFINE banks == IF Here.Type \in {0, 1} THEN Here.n ELSE 0
  <2>6. banks \in Nat /\ Begins(table, "Banks", Cursor + Here.extent, banks)
    BY <2>2 DEF Begins
  <2>7. Goes(table, Cursor, Here.extent + banks * 28, 1)
    <3>1. Here.Type \in {0, 1} => Here.extent + banks * 28 = Here.extent + 28 * Here.n
      BY <2>2, <2>4
    <3>2. Here.Type \notin {0, 1} => Here.extent + banks * 28 = Here.extent
      BY <2>4
    <3> HIDE DEF banks
    <3> QED
      BY <2>2, <3>1, <3>2
  <2>8. Iterate(HestLine(Here), Here.extent + banks * 28, 1, Loop("Banks", Cursor + Here.extent, banks), 0)
    BY <1>4, <2>5 DEF DumpAcpiHEST
  <2> HIDE DEF banks
  <2>9. Free(Loop("Banks", Cursor + Here.extent, banks))
    <3>1. OnList("Banks", Cursor + Here.extent, banks) /\ "Banks" \in LoopNames /\ "Banks" \notin Counted
      BY <2>6, AnyEnd DEF OnList, LoopNames, Counted, Special, Even
    <3>2. Cursor + Here.extent \in Int /\ banks \in Int
      BY <1>2, <2>4, <2>6
    <3> QED
      BY <3>1, <3>2, OneLoop
  <2>10. Nested(Loop("Banks", Cursor + Here.extent, banks), Cursor + (Here.extent + banks * 28))
    BY <2>9, FreeIsNested
  <2>11. Here.extent + banks * 28 \in Int /\ "HEST" \notin Counted /\ "HEST" \notin Special
    BY <2>4, <2>6 DEF Counted, Special
  <2> QED
    BY <1>1, <2>5, <2>7, <2>8, <2>10, <2>11, PlainStep
<1> QED
  BY <1>3, <1>4

(* An array: the structures of one size, without a Length.                  *)
LEMMA ArraySteps ==
  ASSUME WalkInv, \/ HestBank \/ MpstCharacteristic \/ DumpAcpiWDAT \/ DumpAcpiERST \/ DumpAcpiEINJ
                  \/ IbftPointed
  PROVE  WalkInv'
<1> DEFINE Laying(name, size) == In(name) => Here.extent >= size /\ Goes(table, Cursor, size, 1)
<1>1. ASSUME NEW name \in LoopNames, NEW size \in Int, NEW f,
             Here.extent >= size, Goes(table, Cursor, size, 1),
             name \notin Special, name \notin Counted, In(name), Element(Prints(f, size))
      PROVE  WalkInv'
  BY <1>1, ArrayStep
<1>2. /\ Laying("Banks", 28) /\ Laying("Characteristics", 28) /\ Laying("WDAT", 24)
      /\ Laying("ERST", 32) /\ Laying("EINJ", 32)
  <2>1. ASSUME NEW name \in {"Banks", "Characteristics", "WDAT", "ERST", "EINJ"}, In(name)
        PROVE  Here.list = name /\ Here = table.mem[Cursor] /\ Laid(table, Cursor)
    BY <2>1, HereIsLaid DEF Special
  <2> QED
    BY <2>1 DEF Laid, IsArray
<1>3. /\ Laying("Initiator", 74) /\ Laying("Nic", 102) /\ Laying("Target", 54) /\ Laying("Extensions", 6)
  <2>1. ASSUME NEW name \in {"Initiator", "Nic", "Target", "Extensions"}, In(name)
        PROVE  /\ Here = table.mem[Cursor] /\ Here.extent >= IbftSize[name]
               /\ \A size : Goes(table, Cursor, size, 1)
    <3>1. Here.list = name /\ Here = table.mem[Cursor] /\ Laid(table, Cursor)
      BY <2>1, HereIsLaid DEF Special
    <3>2. Here.extent >= IbftSize[name] /\ Here.left = 1
      BY <3>1 DEF Laid, IbftSize
    <3>3. ~(1 - 1 > 0)
      OBVIOUS
    <3> QED
      BY <3>1, <3>2, <3>3 DEF Goes, Begins
  <2> QED
    BY <2>1 DEF IbftSize
<1> DEFINE Others == {"Banks", "Characteristics", "WDAT", "ERST", "EINJ",
                       "Initiator", "Nic", "Target", "Extensions"}
<1>4. \A name \in Others : name \in LoopNames /\ name \notin Special /\ name \notin Counted
  BY DEF LoopNames, Counted, Special
<1>5. CASE HestBank
  BY <1>1, <1>2, <1>4, <1>5 DEF HestBank, DumpHestMachineCheckErrorBank
<1>6. CASE MpstCharacteristic
  BY <1>1, <1>2, <1>4, <1>6 DEF MpstCharacteristic, DumpMemoryPowerStateCharacteristic
<1>7. CASE DumpAcpiWDAT
  BY <1>1, <1>2, <1>4, <1>7 DEF DumpAcpiWDAT, DumpAcpiWdatActionTable
<1>8. CASE DumpAcpiERST
  BY <1>1, <1>2, <1>4, <1>8 DEF DumpAcpiERST, DumpErstInstructionEntry
<1>9. CASE DumpAcpiEINJ
  BY <1>1, <1>2, <1>4, <1>9 DEF DumpAcpiEINJ, DumpEinjInstructionEntry
<1>10. CASE IbftPointed
  <2>1. CASE In("Initiator") /\ Element(DumpIbftInitiatorStruct)
    BY <1>1, <1>3, <1>4, <2>1 DEF DumpIbftInitiatorStruct
  <2>2. CASE In("Nic") /\ Element(DumpIbftNicStruct)
    BY <1>1, <1>3, <1>4, <2>2 DEF DumpIbftNicStruct
  <2>3. CASE In("Target") /\ Element(DumpIbftTargetStruct)
    BY <1>1, <1>3, <1>4, <2>3 DEF DumpIbftTargetStruct
  <2>4. CASE In("Extensions") /\ Element(DumpIbftExtensionsStruct)
    BY <1>1, <1>3, <1>4, <2>4 DEF DumpIbftExtensionsStruct
  <2> QED
    BY <1>10, <2>1, <2>2, <2>3, <2>4 DEF IbftPointed
<1> QED
  BY <1>5, <1>6, <1>7, <1>8, <1>9, <1>10

(* The iterations that go on by the Length of the structure.                *)
LEMMA ByBytesStep ==
  ASSUME WalkInv, NEW name, In(name), name \notin Special,
         NEW lines, Fits(lines), NEW inner, Nested(inner, Cursor + Here.Length),
         GoesByBytes(table, Cursor), ByOwnLength(lines, inner)
  PROVE  WalkInv'
<1>1. Here.Length \in Int /\ Goes(table, Cursor, Here.Length, Here.Length)
  BY HereIsLaid DEF GoesByBytes
<1>2. Iterate(lines, Here.Length, Here.Length, inner, 0)
  BY DEF ByOwnLength
<1> QED
  BY <1>1, <1>2, PlainStep

LEMMA ByCountStep ==
  ASSUME WalkInv, NEW name, In(name), name \notin Special, name \notin Counted,
         NEW lines, Fits(lines), NEW inner, Nested(inner, Cursor + Here.Length),
         GoesByCount(table, Cursor), CountOwnLength(lines, inner)
  PROVE  WalkInv'
<1>1. Here.Length \in Int /\ Goes(table, Cursor, Here.Length, 1)
  BY HereIsLaid DEF GoesByCount
<1>2. Iterate(lines, Here.Length, 1, inner, 0)
  BY DEF CountOwnLength
<1> QED
  BY <1>1, <1>2, PlainStep

LEMMA DmarStep == ASSUME WalkInv, DumpAcpiDMAR PROVE WalkInv'
<1>1. In("DMAR") /\ "DMAR" \notin Special
  BY DEF DumpAcpiDMAR, Special
<1>2. Here = table.mem[Cursor] /\ DmarLaid(table, Cursor, Here) /\ Cursor \in Int
  BY <1>1, HereIsLaid DEF Laid
<1>3. GoesByBytes(table, Cursor) /\ Here.Length \in Nat
  BY <1>2 DEF DmarLaid, GoesByBytes
<1> DEFINE size == DmarLine(Here)[1].reach
           scopes == Loop("Scopes", Cursor + size, Here.Length - size)
<1>4. CASE Here.Type \in {0, 1, 2}
  <2>1. /\ \/ Here.Type = 0 /\ Here.extent = 16
           \/ Here.Type = 1 /\ Here.extent = 24
           \/ Here.Type = 2 /\ Here.extent = 8
        /\ Begins(table, "Scopes", Cursor + Here.extent, Here.Length - Here.extent)
    BY <1>2, <1>4 DEF DmarLaid
  <2>2. PICK f : DmarLine(Here) = Prints(f, Here.extent)
    <3> HIDE DEF size, scopes
    <3>1. CASE Here.Type = 0
      <4>1. DmarLine(Here) = Prints("Drhd", 16)
        BY <3>1 DEF DmarLine, DumpDmarDrhd
      <4> QED
        BY <2>1, <3>1, <4>1
    <3>2. CASE Here.Type = 1
      <4>1. DmarLine(Here) = Prints("Rmrr", 24)
        BY <3>2 DEF DmarLine, DumpDmarRmrr
      <4> QED
        BY <2>1, <3>2, <4>1
    <3>3. CASE Here.Type = 2
      <4>1. DmarLine(Here) = Prints("Atsr", 8)
        BY <3>3 DEF DmarLine, DumpDmarAtsr
      <4> QED
        BY <2>1, <3>3, <4>1
    <3> QED
      BY <2>1, <3>1, <3>2, <3>3
  <2>3. Here.extent \in Int
    BY <2>1
  <2>4. size = Here.extent /\ Fits(DmarLine(Here))
    BY <2>2, <2>3, LineIsOne
  <2>5. ByOwnLength(DmarLine(Here), scopes)
    BY <1>4 DEF DumpAcpiDMAR
  <2> HIDE DEF size
  <2>6. Nested(scopes, Cursor + Here.Length)
    <3>1. OnList("Scopes", Cursor + size, Here.Length - size) /\ "Scopes" \in LoopNames /\ "Scopes" \in Inner
      BY <2>1, <2>4, AnyEnd DEF OnList, LoopNames, Inner, Special, Even
    <3>2. /\ Cursor + size \in Int /\ Here.Length - size \in Int
          /\ Cursor + size + (Here.Length - size) = Cursor + Here.Length
      BY <1>2, <1>3, <2>3, <2>4
    <3>3. Nested(scopes, Cursor + size + (Here.Length - size))
      BY <3>1, <3>2, OneLoop
    <3> QED
      BY <3>2, <3>3
  <2> HIDE DEF scopes
  <2> QED
    BY <1>1, <1>3, <2>4, <2>5, <2>6, ByBytesStep
<1>5. CASE Here.Type \notin {0, 1, 2}
  <2>1. ByOwnLength(DmarLine(Here), <<>>)
    BY <1>5 DEF DumpAcpiDMAR
  <2>2. Fits(DmarLine(Here))
    <3>1. CASE Here.Type = 3
      <4>1. DmarLine(Here) = Prints("Rhsa", 20) /\ 20 <= Here.extent
        BY <1>2, <3>1 DEF DmarLine, DumpDmarRhsa, DmarLaid
      <4> QED
        BY <4>1, LineFits
    <3>2. CASE Here.Type = 4
      <4>1. DmarLine(Here) = Prints("Andd", Here.Length) /\ Here.Length <= Here.extent
        BY <1>2, <1>3, <3>2 DEF DmarLine, DumpDmarAndd, DmarLaid
      <4> QED
        BY <1>3, <4>1, LineFits
    <3>3. CASE Here.Type \notin {3, 4}
      <4>1. DmarLine(Here) = <<>>
        BY <1>5, <3>3 DEF DmarLine
      <4> QED
        BY <4>1, NothingFits
    <3> QED
      BY <3>1, <3>2, <3>3
  <2> QED
    BY <1>1, <1>3, <2>1, <2>2, NothingNested, ByBytesStep
<1> QED
  BY <1>4, <1>5

(* As many pairs as fit into the scope.                                     *)
LEMMA DmarScopeStep == ASSUME WalkInv, DmarScope PROVE WalkInv'
<1>1. In("Scopes") /\ "Scopes" \notin Special
  BY DEF DmarScope, Special
<1>2. Here = table.mem[Cursor] /\ ScopeLaid(table, Cursor, Here)
  BY <1>1, HereIsLaid DEF Laid
<1>3. /\ GoesByBytes(table, Cursor) /\ Here.Length \in Nat
      /\ Here.extent = Here.Length /\ Here.Length >= 6
  BY <1>2 DEF ScopeLaid, GoesByBytes
<1> DEFINE n == 6 + 2 * ((Here.Length - 6) \div 2)
<1>4. n \in Int /\ n <= Here.extent
  BY <1>3
<1>5. DumpDmarDeviceScopeEntry(Here) = Prints("DeviceScopeEntry", n)
  BY DEF DumpDmarDeviceScopeEntry
<1>6. ByOwnLength(DumpDmarDeviceScopeEntry(Here), <<>>)
  BY DEF DmarScope, Special
<1> HIDE DEF n
<1>7. Fits(DumpDmarDeviceScopeEntry(Here))
  BY <1>4, <1>5, LineFits
<1> QED
  BY <1>1, <1>3, <1>6, <1>7, NothingNested, ByBytesStep

LEMMA NfitStep == ASSUME WalkInv, DumpAcpiNFIT PROVE WalkInv'
<1>1. In("NFIT") /\ "NFIT" \notin Special /\ ByOwnLength(NfitLine(Here), <<>>)
  BY DEF DumpAcpiNFIT, Special
<1>2. Here = table.mem[Cursor] /\ NfitLaid(table, Cursor, Here)
  BY <1>1, HereIsLaid DEF Laid
<1>3. GoesByBytes(table, Cursor) /\ Here.Length \in Nat
  BY <1>2 DEF NfitLaid, GoesByBytes
<1>4. Fits(NfitLine(Here))
  <2>1. CASE Here.Type = 0
    <3>1. NfitLine(Here) = Prints("SystemPhysicalAddressRange", 56)
      BY <2>1 DEF NfitLine, DumpNfitSystemPhysicalAddressRangeStruct
    <3>2. 56 \in Int /\ 56 <= Here.extent
      BY <1>2, <1>3, <2>1 DEF NfitLaid
    <3> QED
      BY <3>1, <3>2, LineFits
  <2>2. CASE Here.Type = 1
    <3>1. NfitLine(Here) = Prints("MemoryDeviceToSystemPhysicalAddress", 48)
      BY <2>2 DEF NfitLine, DumpNfitMemoryDeviceToSystemPhysicalAddressRangeMappingStruct
    <3>2. 48 \in Int /\ 48 <= Here.extent
      BY <1>2, <1>3, <2>2 DEF NfitLaid
    <3> QED
      BY <3>1, <3>2, LineFits
  <2>3. CASE Here.Type = 2
    <3>1. NfitLine(Here) = Prints("Interleave", 16 + 4 * Here.n)
      BY <2>3 DEF NfitLine, DumpNfitInterleaveStruct
    <3>2. 16 + 4 * Here.n \in Int /\ 16 + 4 * Here.n <= Here.extent
      BY <1>2, <1>3, <2>3 DEF NfitLaid
    <3> QED
      BY <3>1, <3>2, LineFits
  <2>4. CASE Here.Type = 3
    <3>1. NfitLine(Here) = Prints("SMBIOSManagementInformation", Here.Length)
      BY <2>4 DEF NfitLine, DumpNfitSMBIOSManagementInformationStruct
    <3>2. Here.Length \in Int /\ Here.Length <= Here.extent
      BY <1>2, <1>3, <2>4 DEF NfitLaid
    <3> QED
      BY <3>1, <3>2, LineFits
  <2>5. CASE Here.Type = 4
    <3>1. NfitLine(Here) = Prints("ControlRegion", 80)
      BY <2>5 DEF NfitLine, DumpNfitNVDIMMControlRegionStruct
    <3>2. 80 \in Int /\ 80 <= Here.extent
      BY <1>2, <1>3, <2>5 DEF NfitLaid
    <3> QED
      BY <3>1, <3>2, LineFits
  <2>6. CASE Here.Type = 5
    <3>1. NfitLine(Here) = Prints("BlockDataWindowRegion", 40)
      BY <2>6 DEF NfitLine, DumpNfitNVDIMMBlockDataWindowRegionStruct
    <3>2. 40 \in Int /\ 40 <= Here.extent
      BY <1>2, <1>3, <2>6 DEF NfitLaid
    <3> QED
      BY <3>1, <3>2, LineFits
  <2>7. CASE Here.Type = 6
    <3>1. NfitLine(Here) = Prints("FlushHintAddress", 16 + 8 * Here.n)
      BY <2>7 DEF NfitLine, DumpNfitFlushHintAddressStruct
    <3>2. 16 + 8 * Here.n \in Int /\ 16 + 8 * Here.n <= Here.extent
      BY <1>2, <1>3, <2>7 DEF NfitLaid
    <3> QED
      BY <3>1, <3>2, LineFits
  <2>8. CASE Here.Type \notin 0 .. 6
    <3>1. NfitLine(Here) = <<>>
      BY <2>8 DEF NfitLine
    <3> QED
      BY <3>1, NothingFits
  <2>9. Here.Type \in 0 .. 6 =>
          \/ Here.Type = 0 \/ Here.Type = 1 \/ Here.Type = 2 \/ Here.Type = 3
          \/ Here.Type = 4 \/ Here.Type = 5 \/ Here.Type = 6
    OBVIOUS
  <2> QED
    BY <2>1, <2>2, <2>3, <2>4, <2>5, <2>6, <2>7, <2>8, <2>9
<1> QED
  BY <1>1, <1>3, <1>4, NothingNested, ByBytesStep

(* ASF!: the walk goes on until it has seen the last record.                *)
LEMMA AsfStep == ASSUME WalkInv, DumpAcpiASFT PROVE WalkInv'
<1>1. In("ASF!") /\ "ASF!" \notin Special /\ "ASF!" \notin Counted
  BY DEF DumpAcpiASFT, Counted, Special
<1>2. Here = table.mem[Cursor] /\ AsfLaid(table, Cursor, Here)
  BY <1>1, HereIsLaid DEF Laid
<1>3. Here.Length \in Nat
  BY <1>2 DEF AsfLaid
<1>4. Fits(AsfLine(Here))
  <2>1. CASE Here.Type = 0
    <3>1. AsfLine(Here) = Prints("AsfInfo", 16)
      BY <2>1 DEF AsfLine, DumpAsfInfo
    <3>2. 16 \in Int /\ 16 <= Here.extent
      BY <1>2, <1>3, <2>1 DEF AsfLaid
    <3> QED
      BY <3>1, <3>2, LineFits
  <2>2. CASE Here.Type = 1
    <3>1. AsfLine(Here) = Prints("AsfAlert", 8 + 12 * Here.n)
      BY <2>2 DEF AsfLine, DumpAsfAlert
    <3>2. 8 + 12 * Here.n \in Int /\ 8 + 12 * Here.n <= Here.extent
      BY <1>2, <1>3, <2>2 DEF AsfLaid
    <3> QED
      BY <3>1, <3>2, LineFits
  <2>3. CASE Here.Type = 2
    <3>1. AsfLine(Here) = Prints("AsfRctl", 8 + 4 * Here.n)
      BY <2>3 DEF AsfLine, DumpAsfRctl
    <3>2. 8 + 4 * Here.n \in Int /\ 8 + 4 * Here.n <= Here.extent
      BY <1>2, <1>3, <2>3 DEF AsfLaid
    <3> QED
      BY <3>1, <3>2, LineFits
  <2>4. CASE Here.Type = 3
    <3>1. AsfLine(Here) = Prints("AsfRmcp", 23)
      BY <2>4 DEF AsfLine, DumpAsfRmcp
    <3>2. 23 \in Int /\ 23 <= Here.extent
      BY <1>2, <1>3, <2>4 DEF AsfLaid
    <3> QED
      BY <3>1, <3>2, LineFits
  <2>5. CASE Here.Type = 4
    <3>1. AsfLine(Here) = Prints("AsfAddr", 6 + Here.n)
      BY <2>5 DEF AsfLine, DumpAsfAddr
    <3>2. 6 + Here.n \in Int /\ 6 + Here.n <= Here.extent
      BY <1>2, <1>3, <2>5 DEF AsfLaid
    <3> QED
      BY <3>1, <3>2, LineFits
  <2>6. CASE Here.Type \notin 0 .. 4
    <3>1. AsfLine(Here) = <<>>
      BY <2>6 DEF AsfLine
    <3> QED
      BY <3>1, NothingFits
  <2>7. Here.Type \in 0 .. 4 =>
          \/ Here.Type = 0 \/ Here.Type = 1 \/ Here.Type = 2 \/ Here.Type = 3 \/ Here.Type = 4
    OBVIOUS
  <2> QED
    BY <2>1, <2>2, <2>3, <2>4, <2>5, <2>6, <2>7
<1> DEFINE less == IF Here.IsLastRecord THEN 1 ELSE 0
<1>5. Goes(table, Cursor, Here.Length, less)
  <2>1. CASE Here.IsLastRecord
    <3>1. ~(Here.left - less > 0)
      BY <1>2, <2>1 DEF AsfLaid
    <3> QED
      BY <1>2, <3>1 DEF Goes, Begins
  <2>2. CASE ~Here.IsLastRecord
    BY <1>2, <2>2 DEF AsfLaid
  <2> QED
    BY <2>1, <2>2
<1>6. less \in Int /\ Iterate(AsfLine(Here), Here.Length, less, <<>>, 0)
  BY DEF DumpAcpiASFT
<1> HIDE DEF less
<1> QED
  BY <1>1, <1>3, <1>4, <1>5, <1>6, FlatStep

-----------------------------------------------------------------------------
(* FPDT: records, and the tables behind its pointers with theirs.           *)
LEMMA FpdtStep == ASSUME WalkInv, DumpAcpiFPDT PROVE WalkInv'
<1>1. In("FPDT") /\ "FPDT" \notin Special
  BY DEF DumpAcpiFPDT, Special
<1>2. Here = table.mem[Cursor] /\ FpdtLaid(table, Cursor, Here)
  BY <1>1, HereIsLaid DEF Laid
<1>3. GoesByBytes(table, Cursor)
  BY <1>2 DEF FpdtLaid
<1>4. \A name \in {"BootTable", "S3Table"} :
        name \in LoopNames /\ name \notin Counted /\ name \notin Special
  BY DEF LoopNames, Counted, Special
<1>5. CASE Here.Type = 0
  <2>1. /\ ByOwnLength(DumpFpdtBootPerformanceTablePointer, NonNull("BootTable", Here.Pointer))
        /\ 16 <= Here.extent /\ PointsAt(table, "BootTable", Here.Pointer)
    BY <1>2, <1>5 DEF DumpAcpiFPDT, FpdtLaid
  <2>2. Fits(DumpFpdtBootPerformanceTablePointer)
    BY <2>1, LineFits DEF DumpFpdtBootPerformanceTablePointer
  <2>3. Nested(NonNull("BootTable", Here.Pointer), Cursor + Here.Length)
    BY <1>4, <2>1, NullOrOne, FreeIsNested
  <2> QED
    BY <1>1, <1>3, <2>1, <2>2, <2>3, ByBytesStep
<1>6. CASE Here.Type = 1
  <2>1. /\ ByOwnLength(DumpFpdtS3PerformanceTablePointer, NonNull("S3Table", Here.Pointer))
        /\ 16 <= Here.extent /\ PointsAt(table, "S3Table", Here.Pointer)
    BY <1>2, <1>6 DEF DumpAcpiFPDT, FpdtLaid
  <2>2. Fits(DumpFpdtS3PerformanceTablePointer)
    BY <2>1, LineFits DEF DumpFpdtS3PerformanceTablePointer
  <2>3. Nested(NonNull("S3Table", Here.Pointer), Cursor + Here.Length)
    BY <1>4, <2>1, NullOrOne, FreeIsNested
  <2> QED
    BY <1>1, <1>3, <2>1, <2>2, <2>3, ByBytesStep
<1>7. CASE Here.Type \notin {0, 1}
  <2>1. ByOwnLength(DumpFpdtRecordHeader, <<>>) /\ 4 <= Here.extent
    BY <1>2, <1>7 DEF DumpAcpiFPDT, FpdtLaid
  <2>2. Fits(DumpFpdtRecordHeader)
    BY <2>1, LineFits DEF DumpFpdtRecordHeader
  <2> QED
    BY <1>1, <1>3, <2>1, <2>2, NothingNested, ByBytesStep
<1> QED
  BY <1>5, <1>6, <1>7

LEMMA PerformanceTableStep ==
  ASSUME WalkInv, NEW name \in {"BootTable", "S3Table"}, In(name),
         NEW records \in {"BootRecords", "S3Records"}, NEW f,
         PerformanceTableLaid(table, Cursor, Here, records),
         CountOwnLength(Prints(f, 8), Loop(records, Cursor + 8, Here.Length - 8))
  PROVE  WalkInv'
<1>1. name \notin Special /\ name \notin Counted
  BY DEF Counted, Special
<1>2. /\ GoesByCount(table, Cursor) /\ 8 <= Here.extent
      /\ Begins(table, records, Cursor + 8, Here.Length - 8)
  BY DEF PerformanceTableLaid
<1>3. Here = table.mem[Cursor] /\ Cursor \in Int
  BY <1>1, HereIsLaid
<1>4. Cursor + 8 \in Int /\ Here.Length - 8 \in Int
  BY <1>2, <1>3 DEF GoesByCount
<1>5. Nested(Loop(records, Cursor + 8, Here.Length - 8), Cursor + 8 + (Here.Length - 8))
  <2>1. /\ records \in LoopNames /\ records \in Inner
        /\ OnList(records, Cursor + 8, Here.Length - 8)
    BY <1>2, AnyEnd DEF LoopNames, Inner, OnList, Special, Even
  <2> QED
    BY <1>4, <2>1, OneLoop
<1>6. Cursor + 8 + (Here.Length - 8) = Cursor + Here.Length
  BY <1>2, <1>3 DEF GoesByCount
<1>7. Fits(Prints(f, 8)) /\ Nested(Loop(records, Cursor + 8, Here.Length - 8), Cursor + Here.Length)
  BY <1>2, <1>5, <1>6, LineFits
<1> QED
  BY <1>1, <1>2, <1>7, ByCountStep

LEMMA PerformanceTableSteps == ASSUME WalkInv, FpdtBootTable \/ FpdtS3Table PROVE WalkInv'
<1>1. CASE FpdtBootTable
  <2>1. In("BootTable")
    BY <1>1 DEF FpdtBootTable
  <2>2. PerformanceTableLaid(table, Cursor, Here, "BootRecords")
    BY <2>1, HereIsLaid DEF Laid, Special
  <2>3. CountOwnLength(Prints("BasicBootTable", 8), Loop("BootRecords", Cursor + 8, Here.Length - 8))
    BY <1>1 DEF FpdtBootTable, DumpFpdtBasicBootTable
  <2> QED
    BY <2>1, <2>2, <2>3, PerformanceTableStep
<1>2. CASE FpdtS3Table
  <2>1. In("S3Table")
    BY <1>2 DEF FpdtS3Table
  <2>2. PerformanceTableLaid(table, Cursor, Here, "S3Records")
    BY <2>1, HereIsLaid DEF Laid, Special
  <2>3. CountOwnLength(Prints("S3BootTable", 8), Loop("S3Records", Cursor + 8, Here.Length - 8))
    BY <1>2 DEF FpdtS3Table, DumpFpdtS3BootTable
  <2> QED
    BY <2>1, <2>2, <2>3, PerformanceTableStep
<1> QED
  BY <1>1, <1>2

LEMMA RecordSteps == ASSUME WalkInv, FpdtBootRecord \/ FpdtS3Record PROVE WalkInv'
<1>1. CASE FpdtBootRecord
  <2> DEFINE line == IF Here.Type = 2 THEN DumpFpdtBasicBootData ELSE DumpFpdtRecordHeader
  <2>1. In("BootRecords") /\ ByOwnLength(line, <<>>) /\ "BootRecords" \notin Special
    BY <1>1 DEF FpdtBootRecord, Special
  <2>2. Here = table.mem[Cursor] /\ BootRecordLaid(table, Cursor, Here)
    BY <2>1, HereIsLaid DEF Laid
  <2>3. GoesByBytes(table, Cursor)
    BY <2>2 DEF BootRecordLaid
  <2>4. Fits(line)
    <3>1. CASE Here.Type = 2
      <4>1. line = Prints("BasicBootData", 48) /\ 48 <= Here.extent
        BY <2>2, <3>1 DEF BootRecordLaid, DumpFpdtBasicBootData
      <4> QED
        BY <4>1, LineFits
    <3>2. CASE Here.Type # 2
      <4>1. line = Prints("RecordHeader", 4) /\ 4 <= Here.extent
        BY <2>2, <3>2 DEF BootRecordLaid, DumpFpdtRecordHeader
      <4> QED
        BY <4>1, LineFits
    <3> QED
      BY <3>1, <3>2
  <2> HIDE DEF line
  <2> QED
    BY <2>1, <2>3, <2>4, NothingNested, ByBytesStep
<1>2. CASE FpdtS3Record
  <2> DEFINE line == CASE Here.Type = 0 -> DumpFpdtS3PerformanceTableS3Resume
                       [] Here.Type = 1 -> DumpFpdtS3PerformanceTableS3Suspend
                       [] OTHER -> DumpFpdtRecordHeader
  <2>1. In("S3Records") /\ ByOwnLength(line, <<>>) /\ "S3Records" \notin Special
    BY <1>2 DEF FpdtS3Record, Special
  <2>2. Here = table.mem[Cursor] /\ S3RecordLaid(table, Cursor, Here)
    BY <2>1, HereIsLaid DEF Laid
  <2>3. GoesByBytes(table, Cursor)
    BY <2>2 DEF S3RecordLaid
  <2>4. Fits(line)
    <3>1. CASE Here.Type = 0
      <4>1. line = Prints("S3Resume", 24) /\ 24 <= Here.extent
        BY <2>2, <3>1 DEF S3RecordLaid, DumpFpdtS3PerformanceTableS3Resume
      <4> QED
        BY <4>1, LineFits
    <3>2. CASE Here.Type = 1
      <4>1. line = Prints("S3Suspend", 20) /\ 20 <= Here.extent
        BY <2>2, <3>2 DEF S3RecordLaid, DumpFpdtS3PerformanceTableS3Suspend
      <4> QED
        BY <4>1, LineFits
    <3>3. CASE Here.Type \notin {0, 1}
      <4>1. line = Prints("RecordHeader", 4) /\ 4 <= Here.extent
        BY <2>2, <3>3 DEF S3RecordLaid, DumpFpdtRecordHeader
      <4> QED
        BY <4>1, LineFits
    <3> QED
      BY <3>1, <3>2, <3>3
  <2> HIDE DEF line
  <2> QED
    BY <2>1, <2>3, <2>4, NothingNested, ByBytesStep
<1> QED
  BY <1>1, <1>2

(* iBFT: what the control structure points at.                              *)
LEMMA IbftStep == ASSUME WalkInv, DumpAcpiIBFT PROVE WalkInv'
<1> DEFINE first == NonNull("Initiator", Here.InitiatorOffset)
           targets == Loop("NicTarget", Cursor + 10, NicTargetCount(Here))
           last == NonNull("Extensions", Here.Extensions)
<1>1. In("IBFT") /\ "IBFT" \notin Special /\ "IBFT" \notin Counted
  BY DEF DumpAcpiIBFT, Counted, Special
<1>2. Here = table.mem[Cursor] /\ IbftLaid(table, Cursor, Here) /\ Cursor \in Int
  BY <1>1, HereIsLaid DEF Laid
<1>3. /\ GoesByCount(table, Cursor) /\ Here.Length \in Nat /\ Here.extent = Here.Length /\ Here.Length >= 18
      /\ PointsAt(table, "Initiator", Here.InitiatorOffset)
      /\ Begins(table, "NicTarget", Cursor + 10, (Here.Length - 10) \div 4)
      /\ PointsAt(table, "Extensions", Here.Extensions)
  BY <1>2 DEF IbftLaid, GoesByCount
<1>4. CountOwnLength(DumpIbftControlStruct(Here), first \o targets \o last)
  BY DEF DumpAcpiIBFT
<1>5. \A name \in {"Initiator", "NicTarget", "Extensions"} :
        name \in LoopNames /\ name \notin Counted /\ name \notin Special
  BY DEF LoopNames, Counted, Special
<1>6. /\ NicTargetCount(Here) = (Here.Length - 10) \div 4 /\ NicTargetCount(Here) \in Int
      /\ 10 + 4 * NicTargetCount(Here) <= Here.extent /\ 10 + 4 * NicTargetCount(Here) \in Int
  BY <1>3 DEF NicTargetCount
<1>7. Fits(DumpIbftControlStruct(Here))
  BY <1>6, LineFits DEF DumpIbftControlStruct
<1>8. Free(first) /\ Free(last)
  BY <1>3, <1>5, NullOrOne
<1>9. Free(targets)
  <2>1. OnList("NicTarget", Cursor + 10, NicTargetCount(Here)) /\ Cursor + 10 \in Int
    BY <1>2, <1>3, <1>6, AnyEnd DEF OnList, Special, Even
  <2> QED
    BY <1>5, <1>6, <2>1, OneLoop
<1> HIDE DEF first, targets, last
<1>10. Free(first \o targets)
  BY <1>8, <1>9, FreeThenFree
<1>11. Nested(first \o targets \o last, Cursor + Here.Length)
  BY <1>8, <1>10, FreeThenFree, FreeIsNested
<1> QED
  BY <1>1, <1>3, <1>4, <1>7, <1>11, ByCountStep

LEMMA IbftNicTargetStep == ASSUME WalkInv, IbftNicTarget PROVE WalkInv'
<1> DEFINE nic == NonNull("Nic", Here.NICOffset)
           target == NonNull("Target", Here.TargetOffset)
<1>1. In("NicTarget") /\ "NicTarget" \notin Special /\ "NicTarget" \notin Counted
  BY DEF IbftNicTarget, Counted, Special
<1>2. Here = table.mem[Cursor] /\ NicTargetLaid(table, Cursor, Here)
  BY <1>1, HereIsLaid DEF Laid
<1>3. /\ PointsAt(table, "Nic", Here.NICOffset) /\ PointsAt(table, "Target", Here.TargetOffset)
      /\ Goes(table, Cursor, 4, 1)
  BY <1>2 DEF NicTargetLaid
<1>4. \A name \in {"Nic", "Target"} :
        name \in LoopNames /\ name \notin Counted /\ name \notin Special
  BY DEF LoopNames, Counted, Special
<1>5. Free(nic) /\ Free(target)
  BY <1>3, <1>4, NullOrOne
<1>6. Iterate(<<>>, 4, 1, nic \o target, 0)
  BY DEF IbftNicTarget
<1> HIDE DEF nic, target
<1>7. Nested(nic \o target, Cursor + 4)
  BY <1>5, FreeThenFree, FreeIsNested
<1>8. ASSUME NEW inner, Nested(inner, Cursor + 4), Iterate(<<>>, 4, 1, inner, 0)
      PROVE  WalkInv'
  BY <1>1, <1>3, <1>8, NothingFits, PlainStep, SMTT(40)
<1> QED
  BY <1>6, <1>7, <1>8, Zenon

-----------------------------------------------------------------------------
(* PMTT: the loops over controllers and DIMMs end where the structure       *)
(* around them does.                                                        *)
LEMMA DimmsNested ==
  ASSUME Cursor \in Int, Here.Length \in Nat, Here.n \in Nat,
         ControllerLaid(table, Cursor, Here) \/ Astray(Cursor), table.Length \in Nat
  PROVE  Nested(Dimms(Cursor, Here), Cursor + Here.Length)
<1> DEFINE n == Here.n
           domains == Loop("Domains", Cursor + 32, n)
           at == Cursor + 32 + 4 * n
           rest == Here.Length - 32 - 4 * n
           dimms == Loop("Dimms", at, rest)
<1>1. /\ at \in Int /\ rest \in Int /\ at + rest = Cursor + Here.Length /\ Cursor + 32 \in Int
      /\ at >= Cursor /\ Cursor + 32 >= Cursor
  <2>1. \A c, l \in Int, k \in Nat :
          /\ c + 32 + 4 * k \in Int /\ l - 32 - 4 * k \in Int /\ c + 32 \in Int
          /\ c + 32 + 4 * k + (l - 32 - 4 * k) = c + l
          /\ c + 32 + 4 * k >= c /\ c + 32 >= c
    OBVIOUS
  <2>2. Here.Length \in Int
    OBVIOUS
  <2> HIDE DEF n, domains, dimms
  <2> QED
    BY <2>1, <2>2 DEF n
<1>2. /\ n \in Nat
      /\ Begins(table, "Dimms", at, rest) \/ Astray(at)
      /\ n > 0 => \/ Cursor + 32 \in DOMAIN table.mem /\ table.mem[Cursor + 32].extent >= 4
                  \/ Astray(Cursor + 32)
  <2>1. CASE ControllerLaid(table, Cursor, Here)
    BY <2>1 DEF ControllerLaid
  <2>2. CASE Astray(Cursor)
    <3>1. Cursor >= table.Length
      BY <2>2 DEF Astray
    <3> HIDE DEF at, rest
    <3>2. at >= table.Length /\ Cursor + 32 >= table.Length
      BY <1>1, <3>1
    <3> QED
      BY <2>2, <3>2 DEF Astray
  <2> QED
    BY <2>1, <2>2
<1>3. Dimms(Cursor, Here) = domains \o dimms
  BY DEF Dimms
<1>4. dimms # <<>>
  BY DEF Loop
<1> HIDE DEF at, rest, n
<1>5. Free(domains)
  <2>1. OnList("Domains", Cursor + 32, n) /\ "Domains" \in LoopNames /\ "Domains" \notin Counted
    BY <1>2, AnyEnd DEF OnList, LoopNames, Counted, Special, Even
  <2> QED
    BY <1>1, <1>2, <2>1, OneLoop
<1>6. Nested(dimms, at + rest)
  <2>1. OnList("Dimms", at, rest) /\ "Dimms" \in LoopNames /\ "Dimms" \in Inner
    BY <1>2, AnyEnd DEF OnList, LoopNames, Inner, Special, Even
  <2> QED
    BY <1>1, <2>1, OneLoop
<1> HIDE DEF domains, dimms
<1> QED
  BY <1>1, <1>3, <1>4, <1>5, <1>6, FreeThenNested

(* The cursor goes by the Length of this structure, what is left by that of *)
(* the next one.                                                            *)
LEMMA LateStep ==
  ASSUME WalkInv, NEW name \in {"PMTT", "LPIT"}, In(name),
         NEW lines, Fits(lines), NEW inner, Nested(inner, Cursor + Here.Length),
         Iterate(lines, Here.Length, StructureAt(Cursor + Here.Length).Length, inner, 0)
  PROVE  WalkInv'
<1> DEFINE rest == Head(stack).rest
           next == Cursor + Here.Length
           less == StructureAt(next).Length
<1>1. /\ Head(stack).loop = name /\ stack # <<>> /\ rest \in Int /\ Cursor \in Int
      /\ OnList(name, Cursor, rest) /\ table \in Tables
  BY HereIsLaid DEF In, WalkInv, WalkTyped
<1>2. /\ table.sign = name /\ EndsWithTable(name, Cursor, rest)
      /\ Begins(table, name, Cursor, table.Length - Cursor)
  BY <1>1 DEF OnList
<1>3. Here.Length \in Nat
  BY <1>1, <1>2, HasLength DEF Here
<1>4. Begins(table, name, next, table.Length - next)
  <2>1. /\ table.Length \in Nat
        /\ \/ Settled(name, table.Length - Cursor)
           \/ Cursor >= table.Length
    BY HereOrBehind
  <2>2. CASE Settled(name, table.Length - Cursor)
    <3>1. /\ Here = table.mem[Cursor] /\ Here.list = name /\ Here.left = table.Length - Cursor
          /\ GoesByBytes(table, Cursor)
      BY <2>2 DEF Settled, Laid, PmttLaid, LpitLaid
    <3>2. Begins(table, name, next, Here.left - Here.Length)
      BY <3>1 DEF GoesByBytes, Goes
    <3>3. Here.left - Here.Length = table.Length - next
      BY <1>1, <1>3, <2>1, <3>1
    <3> QED
      BY <3>2, <3>3
  <2>3. CASE Cursor >= table.Length
    <3>1. ~(table.Length - next > 0)
      BY <1>1, <1>3, <2>1, <2>3
    <3> QED
      BY <3>1 DEF Begins
  <2> QED
    BY <2>1, <2>2, <2>3
<1>5. next \in Int
  BY <1>1, <1>3
<1>6. less \in Nat
  BY <1>1, <1>2, <1>4, <1>5, HasLength
<1>7. EndsWithTable(name, next, rest - less)
  <2>1. Cursor + rest + Here.Length = table.Length + StructureAt(ByLength[name]).Length
    BY <1>2 DEF EndsWithTable, Late, Here
  <2> HIDE DEF less
  <2>2. next + (rest - less) + less = table.Length + StructureAt(ByLength[name]).Length
    BY <1>1, <1>3, <1>6, <2>1
  <2> QED
    BY <2>2 DEF EndsWithTable, ByType, Late, less
<1>8. OnList(name, next, rest - less)
  BY <1>2, <1>4, <1>7 DEF OnList, Special
<1>9. name \notin Counted
  BY DEF Counted
<1> HIDE DEF less
<1>10. Sound(lines, Here.Length, less, inner, 0)
  BY <1>1, <1>3, <1>6, <1>8, <1>9 DEF Sound
<1>11. Iterate(lines, Here.Length, less, inner, 0)
  BY DEF less
<1> QED
  BY <1>1, <1>10, <1>11, IterateStep

LEMMA PmttStep == ASSUME WalkInv, DumpAcpiPMTT PROVE WalkInv'
<1> DEFINE s == PmttSocketOrPart(Here)
<1>1. In("PMTT")
  BY DEF DumpAcpiPMTT
<1>2. /\ table.sign = "PMTT" /\ Cursor \in Int /\ table.Length \in Nat
      /\ \/ Settled("PMTT", table.Length - Cursor)
         \/ ~Expected /\ Cursor >= table.Length /\ Here = Behind
  BY <1>1, HereOrBehind
<1>3. Here.Length \in Nat /\ (PmttLaid(table, Cursor, Here) \/ (Astray(Cursor) /\ Here = Behind))
  BY <1>2, LayoutAssumption DEF Settled, Laid, PmttLaid, GoesByBytes, Astray, ReadsAsOne
<1>4. Fits(s.line) /\ Nested(s.inner, Cursor + Here.Length)
  <2>1. CASE Here.Type = 0
    <3>1. s.line = Prints("Socket", 12) /\ s.inner = Controllers(Cursor, Here)
      BY <2>1 DEF PmttSocketOrPart, DumpPmttSocket, DumpPmttDevice
    <3>2. Fits(Prints("Socket", 12))
      BY <1>3, <2>1, LineFits DEF PmttLaid, Astray, Fits
    <3>3. /\ Cursor + 12 \in Int /\ Here.Length - 12 \in Int /\ Cursor + 12 >= Cursor
          /\ Cursor + 12 + (Here.Length - 12) = Cursor + Here.Length
      BY <1>2, <1>3
    <3>4. Begins(table, "Controllers", Cursor + 12, Here.Length - 12) \/ Astray(Cursor + 12)
      <4>1. CASE PmttLaid(table, Cursor, Here)
        BY <2>1, <4>1 DEF PmttLaid
      <4>2. CASE Astray(Cursor)
        BY <1>2, <4>2 DEF Astray
      <4> QED
        BY <1>3, <4>1, <4>2
    <3>5. OnList("Controllers", Cursor + 12, Here.Length - 12)
      BY <3>4, AnyEnd DEF OnList, Special, Even
    <3>6. "Controllers" \in LoopNames /\ "Controllers" \in Inner
      BY DEF LoopNames, Inner
    <3>7. Nested(Controllers(Cursor, Here), Cursor + 12 + (Here.Length - 12))
      BY <3>3, <3>5, <3>6, OneLoop DEF Controllers
    <3> QED
      BY <3>1, <3>2, <3>3, <3>7
  <2>2. CASE Here.Type = 1
    <3>1. s.line = Prints("MemoryController", 32) /\ s.inner = Dimms(Cursor, Here)
      BY <2>2 DEF PmttSocketOrPart, DumpPmttMemoryController, DumpPmttDevice
    <3>2. /\ ControllerLaid(table, Cursor, Here) \/ Astray(Cursor)
          /\ Here.n \in Nat /\ Fits(Prints("MemoryController", 32))
      <4>1. CASE PmttLaid(table, Cursor, Here)
        BY <2>2, <4>1, LineFits DEF PmttLaid, ControllerLaid
      <4>2. CASE Astray(Cursor) /\ Here = Behind
        BY <4>2, LayoutAssumption DEF Astray, ReadsAsOne, Fits
      <4> QED
        BY <1>3, <4>1, <4>2
    <3> QED
      BY <1>2, <1>3, <3>1, <3>2, DimmsNested
  <2>3. CASE Here.Type = 2
    <3>1. s.line = Prints("Dimm", 16) /\ s.inner = <<>>
      BY <2>3 DEF PmttSocketOrPart, DumpPmttDimm, DumpPmttDevice
    <3>2. Fits(Prints("Dimm", 16))
      BY <1>3, <2>3, LineFits DEF PmttLaid, Astray, Fits
    <3> QED
      BY <3>1, <3>2, NothingNested
  <2>4. CASE Here.Type \notin {0, 1, 2}
    <3>1. s.line = <<>> /\ s.inner = <<>>
      BY <2>4 DEF PmttSocketOrPart
    <3> QED
      BY <3>1, NothingNested, NothingFits
  <2> QED
    BY <2>1, <2>2, <2>3, <2>4
<1>5. Iterate(s.line, Here.Length, StructureAt(Cursor + Here.Length).Length, s.inner, 0)
  BY DEF DumpAcpiPMTT
<1> HIDE DEF s
<1> QED
  BY <1>1, <1>4, <1>5, LateStep

LEMMA LpitStep == ASSUME WalkInv, DumpAcpiLPIT PROVE WalkInv'
<1> DEFINE line == IF Here.Type = 0 THEN DumpNativeCStateLpiStateStructure ELSE <<>>
<1>1. /\ In("LPIT")
      /\ Iterate(line, Here.Length, StructureAt(Cursor + Here.Length).Length, <<>>, 0)
  BY DEF DumpAcpiLPIT
<1>2. Settled("LPIT", table.Length - Cursor) \/ ~Expected
  BY <1>1, HereOrBehind
<1>3. Fits(line)
  <2>1. CASE Here.Type = 0 /\ Settled("LPIT", table.Length - Cursor)
    <3>1. line = Prints("NativeCStateLpiState", 56) /\ 56 <= Here.extent
      BY <2>1 DEF Settled, Laid, LpitLaid, DumpNativeCStateLpiStateStructure
    <3> QED
      BY <3>1, LineFits
  <2>2. CASE Here.Type # 0
    BY <2>2, NothingFits
  <2> QED
    BY <1>2, <2>1, <2>2 DEF Fits
<1> HIDE DEF line
<1> QED
  BY <1>1, <1>3, NothingNested, LateStep

(* A controller or a DIMM inside of another structure, or behind a table.   *)
LEMMA PartStep ==
  ASSUME WalkInv, NEW name \in {"Controllers", "Dimms"}, In(name),
         NEW lines, Fits(lines), NEW inner, Nested(inner, Cursor + Here.Length),
         Here.Length \in Nat,
         (GoesByBytes(table, Cursor) /\ Settled(name, Head(stack).rest)) \/ Astray(Cursor),
         ByOwnLength(lines, inner)
  PROVE  WalkInv'
<1> DEFINE rest == Head(stack).rest
           next == Cursor + Here.Length
<1>1. /\ Head(stack).loop = name /\ stack # <<>> /\ rest \in Int /\ Cursor \in Int
      /\ table.Length \in Nat
  BY HereIsLaid, LayoutAssumption DEF In, WalkInv, WalkTyped, TableLaid
<1>2. Begins(table, name, next, rest - Here.Length) \/ Astray(next)
  <2>1. CASE GoesByBytes(table, Cursor) /\ Settled(name, rest)
    BY <2>1 DEF GoesByBytes, Goes, Settled
  <2>2. CASE Astray(Cursor)
    BY <1>1, <2>2 DEF Astray
  <2> QED
    BY <2>1, <2>2
<1>3. OnList(name, next, rest - Here.Length)
  BY <1>2, AnyEnd DEF OnList, Special, Even
<1>4. Sound(lines, Here.Length, Here.Length, inner, 0)
  BY <1>1, <1>3 DEF Sound
<1>5. Iterate(lines, Here.Length, Here.Length, inner, 0)
  BY DEF ByOwnLength
<1> QED
  BY <1>1, <1>4, <1>5, IterateStep

LEMMA PartIsLaid ==
  ASSUME WalkInv, NEW name \in {"Controllers", "Dimms"}, In(name)
  PROVE  /\ Cursor \in Int /\ table.Length \in Nat
         /\ Settled(name, Head(stack).rest) \/ (Astray(Cursor) /\ Here = Behind)
<1>1. /\ OnList(name, Cursor, Head(stack).rest) /\ Head(stack).rest > 0 /\ Cursor \in Int
      /\ table \in Tables /\ table.Length \in Nat
  BY HereIsLaid, LayoutAssumption DEF WalkInv, WalkTyped, TableLaid
<1>2. Begins(table, name, Cursor, Head(stack).rest) \/ Astray(Cursor)
  BY <1>1 DEF OnList
<1>3. Astray(Cursor) => Here = Behind
  BY <1>1, BehindTheTable DEF Astray, Here
<1> QED
  BY <1>1, <1>2, <1>3, LaidWhereItBegins

LEMMA PmttPartSteps ==
  ASSUME WalkInv, PmttController \/ PmttDimm PROVE WalkInv'
<1>1. CASE PmttController
  <2>1. In("Controllers") /\ ByOwnLength(Prints("MemoryController", 32), Dimms(Cursor, Here))
    BY <1>1 DEF PmttController, DumpPmttMemoryController, DumpPmttDevice
  <2>2. /\ Cursor \in Int /\ table.Length \in Nat
        /\ Settled("Controllers", Head(stack).rest) \/ (Astray(Cursor) /\ Here = Behind)
    BY <2>1, PartIsLaid
  <2>3. /\ Here.Length \in Nat /\ Here.n \in Nat /\ Fits(Prints("MemoryController", 32))
        /\ \/ ControllerLaid(table, Cursor, Here) /\ GoesByBytes(table, Cursor)
           \/ Astray(Cursor)
    <3>1. CASE Settled("Controllers", Head(stack).rest)
      <4>1. /\ Here = table.mem[Cursor] /\ ControllerLaid(table, Cursor, Here)
            /\ GoesByBytes(table, Cursor)
        BY <3>1 DEF Settled, Laid
      <4> QED
        BY <4>1, LineFits DEF ControllerLaid, GoesByBytes
    <3>2. CASE Astray(Cursor) /\ Here = Behind
      BY <3>2, LayoutAssumption DEF Astray, ReadsAsOne, Fits
    <3> QED
      BY <2>2, <3>1, <3>2
  <2>4. Nested(Dimms(Cursor, Here), Cursor + Here.Length)
    BY <2>2, <2>3, DimmsNested
  <2> QED
    BY <2>1, <2>2, <2>3, <2>4, PartStep
<1>2. CASE PmttDimm
  <2>1. In("Dimms") /\ ByOwnLength(Prints("Dimm", 16), <<>>)
    BY <1>2 DEF PmttDimm, DumpPmttDimm, DumpPmttDevice
  <2>2. Settled("Dimms", Head(stack).rest) \/ (Astray(Cursor) /\ Here = Behind)
    BY <2>1, PartIsLaid
  <2>3. /\ Here.Length \in Nat /\ Fits(Prints("Dimm", 16))
        /\ GoesByBytes(table, Cursor) \/ Astray(Cursor)
    <3>1. CASE Settled("Dimms", Head(stack).rest)
      <4>1. Here = table.mem[Cursor] /\ 16 <= Here.extent /\ GoesByBytes(table, Cursor)
        BY <3>1 DEF Settled, Laid
      <4> QED
        BY <4>1, LineFits DEF GoesByBytes
    <3>2. CASE Astray(Cursor) /\ Here = Behind
      BY <3>2, LayoutAssumption DEF Astray, ReadsAsOne, Fits
    <3> QED
      BY <2>2, <3>1, <3>2
  <2> QED
    BY <2>1, <2>2, <2>3, NothingNested, PartStep
<1> QED
  BY <1>1, <1>2

(* The pointer stays at the first proximity domain.                         *)
LEMMA PmttProximityDomainStep == ASSUME WalkInv, PmttProximityDomain PROVE WalkInv'
<1>1. In("Domains") /\ stack # <<>> /\ Iterate(Prints("ProximityDomain", 4), 0, 1, <<>>, 0)
  BY DEF PmttProximityDomain, ProximityDomain, In
<1>2. /\ Head(stack) \in Loops /\ Head(stack).loop = "Domains"
      /\ Cursor \in Int /\ Head(stack).rest \in Int /\ Head(stack).rest > 0
      /\ OnList("Domains", Cursor, Head(stack).rest)
  BY <1>1, HereIsLaid
<1>3. (Cursor \in DOMAIN table.mem /\ table.mem[Cursor].extent >= 4) \/ Astray(Cursor)
  BY <1>2 DEF OnList
<1>4. Cursor + 0 = Cursor
  BY <1>2
<1>5. OnList("Domains", Cursor + 0, Head(stack).rest - 1)
  BY <1>3, <1>4, AnyEnd DEF OnList, Special, Even
<1>6. Fits(Prints("ProximityDomain", 4))
  <2>1. CASE Cursor \in DOMAIN table.mem /\ table.mem[Cursor].extent >= 4
    BY <2>1, LineFits DEF Here, StructureAt
  <2> QED
    BY <1>3, <2>1 DEF Astray, Fits
<1>7. "Domains" \notin Counted
  BY DEF Counted
<1>8. Sound(Prints("ProximityDomain", 4), 0, 1, <<>>, 0)
  BY <1>2, <1>5, <1>6, <1>7, NothingNested DEF Sound
<1> QED
  BY <1>1, <1>8, IterateStep

-----------------------------------------------------------------------------
(* DBG2: the end of the last thing that is read.                            *)
LEMMA MaxAtMost ==
  ASSUME NEW a \in Int, NEW b \in Int, NEW c \in Int, NEW A, NEW B, NEW end \in Int,
         A = {} \/ \E x \in Int : A = {x}, B = {} \/ \E x \in Int : B = {x},
         \A x \in {a, b, c} \cup A \cup B : x <= end
  PROVE  Max({a, b, c} \cup A \cup B) \in Int /\ Max({a, b, c} \cup A \cup B) <= end
<1> DEFINE HasMax(S) == S \subseteq Int /\ \E m \in S : \A x \in S : m >= x
<1>1. ASSUME NEW S, HasMax(S), NEW T, T = {} \/ \E x \in Int : T = {x} PROVE HasMax(S \cup T)
  <2>1. PICK m \in S : \A x \in S : m >= x
    BY <1>1
  <2>2. CASE T = {}
    <3>1. S \cup T = S
      BY <2>2
    <3> QED
      BY <1>1, <3>1
  <2>3. ASSUME NEW y \in Int, T = {y} PROVE HasMax(S \cup T)
    <3>1. S \subseteq Int /\ m \in Int
      BY <1>1
    <3>2. CASE m >= y
      BY <2>1, <2>3, <3>1, <3>2
    <3>3. CASE ~(m >= y)
      <4>1. \A x \in S : y >= x
        BY <2>1, <3>1, <3>3
      <4> QED
        BY <2>3, <3>1, <4>1
    <3> QED
      BY <3>2, <3>3
  <2> QED
    BY <1>1, <2>2, <2>3
<1>2. HasMax({a})
  OBVIOUS
<1> HIDE DEF HasMax
<1>3. HasMax(({a} \cup {b}) \cup {c})
  BY <1>1, <1>2
<1>4. HasMax(((({a} \cup {b}) \cup {c}) \cup A) \cup B)
  BY <1>1, <1>3
<1> DEFINE S == {a, b, c} \cup A \cup B
<1>5. HasMax(S)
  <2>1. S = ((({a} \cup {b}) \cup {c}) \cup A) \cup B
    OBVIOUS
  <2> QED
    BY <1>4, <2>1
<1> HIDE DEF S
<1>6. S \subseteq Int /\ Max(S) \in S
  BY <1>5 DEF HasMax, Max
<1> QED
  BY <1>6 DEF S

LEMMA Dbg2Step == ASSUME WalkInv, DumpAcpiDBG2 PROVE WalkInv'
<1> DEFINE a == Here.BaseAddressRegisterOffset + 12 * Here.n
           b == Here.AddressSizeOffset + 4 * Here.n
           A == IF Here.OemDataOffset = 0 THEN {} ELSE {Here.OemDataOffset + Here.OemDataLength}
           B == IF Here.NameSpaceStringOffset = 0 THEN {} ELSE {Here.NameSpaceStringOffset + Here.NameLength}
           size == Max({22, a, b} \cup A \cup B)
<1>1. /\ In("DBG2") /\ "DBG2" \notin Special /\ "DBG2" \notin Counted
      /\ CountOwnLength(DumpDbg2DeviceInfoStruct(Here), <<>>)
  BY DEF DumpAcpiDBG2, Counted, Special
<1>2. Here = table.mem[Cursor] /\ Dbg2Laid(table, Cursor, Here)
  BY <1>1, HereIsLaid DEF Laid
<1>3. GoesByCount(table, Cursor) /\ Here.extent \in Nat /\ 22 <= Here.extent
  BY <1>2 DEF Dbg2Laid
<1>4. a \in Int /\ b \in Int /\ a <= Here.extent /\ b <= Here.extent
  BY <1>2 DEF Dbg2Laid
<1>5. A = {} \/ \E x \in Int : A = {x} /\ x <= Here.extent
  <2>1. CASE Here.OemDataOffset = 0
    BY <2>1
  <2>2. CASE Here.OemDataOffset # 0
    <3>1. /\ Here.OemDataOffset + Here.OemDataLength \in Int
          /\ Here.OemDataOffset + Here.OemDataLength <= Here.extent
      BY <1>2, <2>2 DEF Dbg2Laid
    <3> QED
      BY <2>2, <3>1
  <2> QED
    BY <2>1, <2>2
<1>6. B = {} \/ \E x \in Int : B = {x} /\ x <= Here.extent
  <2>1. CASE Here.NameSpaceStringOffset = 0
    BY <2>1
  <2>2. CASE Here.NameSpaceStringOffset # 0
    <3>1. /\ Here.NameSpaceStringOffset + Here.NameLength \in Int
          /\ Here.NameSpaceStringOffset + Here.NameLength <= Here.extent
      BY <1>2, <2>2 DEF Dbg2Laid
    <3> QED
      BY <2>2, <3>1
  <2> QED
    BY <2>1, <2>2
<1>7. DumpDbg2DeviceInfoStruct(Here) = Prints("DeviceInfo", size)
  BY DEF DumpDbg2DeviceInfoStruct
<1> HIDE DEF a, b, A, B
<1>8. size \in Int /\ size <= Here.extent
  <2>1. \A x \in {22, a, b} \cup A \cup B : x <= Here.extent
    BY <1>3, <1>4, <1>5, <1>6
  <2> QED
    <3>1. 22 \in Int /\ a \in Int /\ b \in Int /\ Here.extent \in Int
      BY <1>3, <1>4
    <3>2. A = {} \/ \E x \in Int : A = {x}
      BY <1>5
    <3>3. B = {} \/ \E x \in Int : B = {x}
      BY <1>6
    <3> QED
      BY ONLY <2>1, <3>1, <3>2, <3>3, MaxAtMost, ZenonT(60) DEF size
<1> HIDE DEF size
<1>9. Fits(DumpDbg2DeviceInfoStruct(Here))
  BY <1>7, <1>8, LineFits
<1> QED
  BY <1>1, <1>3, <1>9, NothingNested, ByCountStep

(* MPST: the loop over the nodes ends at the second part of the table.      *)
LEMMA MpstStep == ASSUME WalkInv, DumpAcpiMPST PROVE WalkInv'
<1> DEFINE size == 32 + 2 * Here.n + 2 * Here.m
<1>1. /\ In("MPST") /\ stack # <<>> /\ "MPST" \notin Counted
      /\ Iterate(Prints("MemoryPowerNode", size), Here.Length, 1, <<>>, 0)
  BY DEF DumpAcpiMPST, CountOwnLength, DumpMemoryPowerNode, In, Counted, Special
<1>2. /\ Head(stack).loop = "MPST" /\ Here = table.mem[Cursor] /\ MpstLaid(table, Cursor, Here)
      /\ Here.left = Head(stack).rest /\ Head(stack).rest > 0 /\ Head(stack).rest \in Int
  BY <1>1, HereIsLaid DEF Laid
<1>3. /\ Here.n \in Nat /\ Here.m \in Nat /\ size <= Here.extent /\ Here.Length \in Nat
      /\ Cursor + Here.Length \in DOMAIN table.mem
      /\ table.mem[Cursor + Here.Length].list = "MPST"
      /\ table.mem[Cursor + Here.Length].left = Here.left - 1
  <2>1. Here.left # 0
    BY <1>2
  <2> QED
    BY <1>2, <2>1 DEF MpstLaid
<1>4. size \in Int
  BY <1>3
<1> HIDE DEF size
<1>5. Fits(Prints("MemoryPowerNode", size))
  BY <1>3, <1>4, LineFits
<1>6. OnList("MPST", Cursor + Here.Length, Head(stack).rest - 1)
  BY <1>2, <1>3, AnyEnd DEF OnList, Special, Even
<1>7. Sound(Prints("MemoryPowerNode", size), Here.Length, 1, <<>>, 0)
  BY <1>1, <1>2, <1>3, <1>5, <1>6, NothingNested DEF Sound
<1> QED
  BY <1>1, <1>7, IterateStep

LEMMA MpstCharacteristicsStep == ASSUME WalkInv, MpstCharacteristics PROVE WalkInv'
<1> DEFINE new == [loop |-> "Characteristics", at |-> Cursor + 4, rest |-> Here.count, TableLen |-> 0]
<1>1. /\ stack # <<>> /\ Head(stack).loop = "MPST" /\ Head(stack).rest = 0
      /\ stack' = Loop("Characteristics", Cursor + 4, Here.count)
      /\ dumped' = dumped /\ table' = table
  BY DEF MpstCharacteristics, call
<1>2. Head(stack) \in Loops /\ Head(stack) = stack[1] /\ 1 \in 1 .. Len(stack) /\ table \in Tables
  BY <1>1, EmptySeq, HeadTailProperties DEF WalkInv, WalkTyped
<1>3. Cursor \in Int
  BY <1>2 DEF Cursor, Loops
<1>4. /\ Cursor \in DOMAIN table.mem /\ table.mem[Cursor].list = "MPST" /\ table.mem[Cursor].left = 0
  BY <1>1, <1>2 DEF WalkInv, AllOnLists, OnList, Cursor
<1>5. MpstLaid(table, Cursor, table.mem[Cursor])
  BY <1>2, <1>4, LayoutAssumption DEF TableLaid, Laid
<1>6. Here.count \in Nat /\ Begins(table, "Characteristics", Cursor + 4, Here.count)
  BY <1>4, <1>5 DEF MpstLaid, Here, StructureAt
<1>7. new \in Loops /\ OnList(new.loop, new.at, new.rest) /\ new.loop \notin Inner
  BY <1>3, <1>6, AnyEnd DEF Loops, LoopNames, OnList, Inner, Special, Even
<1>8. stack' = <<new>>
  BY <1>1 DEF Loop
<1> HIDE DEF new
<1>9. /\ stack' \in Seq(Loops) /\ Len(stack') = 1 /\ DOMAIN stack' = 1 .. 1
      /\ \A i \in 1 .. 1 : stack'[i] = new
  BY <1>7, <1>8
<1>10. WalkTyped'
  BY <1>1, <1>2, <1>9, TableStays DEF WalkInv, WalkTyped
<1>11. AllOnLists'
  BY <1>1, <1>7, <1>9, TableStays DEF AllOnLists
<1>12. InnerInside'
  BY <1>7, <1>9 DEF InnerInside, Inner
<1>13. InnerInStep'
  BY <1>7, <1>9 DEF InnerInStep, Inner
<1>14. ReadsItsStructure'
  BY <1>1, TableStays DEF WalkInv, ReadsItsStructure, StructureAt
<1> QED
  BY <1>10, <1>11, <1>12, <1>13, <1>14 DEF WalkInv

(* MSCT, CPEP and MCFG.                                                     *)
LEMMA ElementSteps == ASSUME WalkInv, DumpAcpiMSCT \/ DumpAcpiCPEP \/ DumpAcpiMCFG PROVE WalkInv'
<1>1. CASE DumpAcpiMSCT
  <2>1. /\ In("MSCT") /\ CountOwnLength(Prints("MaximumProximityDomain", 22), <<>>)
        /\ "MSCT" \notin Special /\ "MSCT" \notin Counted
    BY <1>1 DEF DumpAcpiMSCT, DumpAcpiMaximumProximityDomainInformation, Counted, Special
  <2>2. 22 <= Here.extent /\ GoesByCount(table, Cursor)
    BY <2>1, HereIsLaid DEF Laid
  <2>3. Fits(Prints("MaximumProximityDomain", 22))
    BY <2>2, LineFits
  <2> QED
    BY <2>1, <2>2, <2>3, NothingNested, ByCountStep
<1>2. CASE DumpAcpiCPEP
  <2>1. In("CPEP") /\ Iterate(Prints("CpepStruct", 8), 8, 8, <<>>, 0) /\ "CPEP" \notin Special
    BY <1>2 DEF DumpAcpiCPEP, DumpAcpiCpepStruct, Special
  <2>2. 8 <= Here.extent /\ Goes(table, Cursor, 8, 8)
    BY <2>1, HereIsLaid DEF Laid
  <2>3. Fits(Prints("CpepStruct", 8))
    BY <2>2, LineFits
  <2> QED
    BY <2>1, <2>2, <2>3, FlatStep
<1>3. CASE DumpAcpiMCFG
  <2>1. /\ In("MCFG") /\ Iterate(Prints("BaseAddressAllocation", 16), 16, 16, <<>>, 0)
        /\ "MCFG" \notin Special
    BY <1>3 DEF DumpAcpiMCFG, DumpAcpiMemoryMappedConfigurationBaseAddressAllocation, Special
  <2>2. 16 <= Here.extent /\ Goes(table, Cursor, 16, 16)
    BY <2>1, HereIsLaid DEF Laid
  <2>3. Fits(Prints("BaseAddressAllocation", 16))
    BY <2>2, LineFits
  <2> QED
    BY <2>1, <2>2, <2>3, FlatStep
<1> QED
  BY <1>1, <1>2, <1>3

(* TCPA: the size of an event, which is 0 for the spare space behind them.  *)
LEMMA TcpaStep == ASSUME WalkInv, DumpAcpiTCPA PROVE WalkInv'
<1> DEFINE size == TcpaEventSize(Here)
<1>1. In("TCPA") /\ stack # <<>> /\ "TCPA" \notin Special
  BY DEF DumpAcpiTCPA, In, Special
<1>2. Here = table.mem[Cursor] /\ TcpaLaid(table, Cursor, Here)
  BY <1>1, HereIsLaid DEF Laid
<1>3. CASE size = 0
  <2>1. stack' = Tail(stack) /\ UNCHANGED <<call, dumped>>
    BY <1>3 DEF DumpAcpiTCPA
  <2> QED
    BY <1>1, <2>1, LoopsEnd
<1>4. CASE size # 0
  <2>1. Iterate(Prints("TcpaPcrEvent", size), size, size, <<>>, 0)
    BY <1>4 DEF DumpAcpiTCPA, TcpaEventLine
  <2>2. ~(Here.PCRIndex = "none" \/ (table.Revision < 2 /\ (Here.major # 1 \/ Here.minor = 0)))
    BY <1>4 DEF TcpaEventSize, IsSpare
  <2>3. size = IF table.Revision < 2 THEN 12 + (4 + Here.PCRValueLen) + (4 + Here.EventSize)
               ELSE 28 + (4 + Here.EventSize)
    BY <2>2 DEF TcpaEventSize, IsSpare
  <2>4. /\ Here.extent \in Nat /\ Goes(table, Cursor, Here.extent, Here.extent)
        /\ Here.extent = IF table.Revision < 2 THEN 20 + Here.PCRValueLen + Here.EventSize
                                               ELSE 32 + Here.EventSize
        /\ Here.EventSize \in Nat /\ (table.Revision < 2 => Here.PCRValueLen \in Nat)
    BY <1>2, <2>2 DEF TcpaLaid
  <2>5. size = Here.extent /\ size \in Int
    BY <2>3, <2>4
  <2> HIDE DEF size
  <2>6. Fits(Prints("TcpaPcrEvent", size))
    BY <2>5, LineFits
  <2> QED
    BY <1>1, <2>1, <2>4, <2>5, <2>6, FlatStep
<1> QED
  BY <1>3, <1>4

LEMMA ReturnStep == ASSUME WalkInv, Return PROVE WalkInv'
  BY LoopsEnd DEF Return

-----------------------------------------------------------------------------
(* The call of a library's function: its loop is at the begin of its list.  *)
LEMMA TableBegins ==
  ASSUME table \in Tables
  PROVE  \/ Start(table) = <<>>
         \/ \E name \in LoopNames \ Inner, at \in Int, rest \in Int :
              Start(table) = Loop(name, at, rest) /\ OnList(name, at, rest)
<1> DEFINE t == table
           Begun(name, at, rest) ==
             /\ name \in LoopNames \ Inner /\ at \in Int /\ rest \in Int
             /\ Start(t) = Loop(name, at, rest) /\ OnList(name, at, rest)
<1>1. ListBegins(t) /\ t.Length \in Nat
  BY LayoutAssumption DEF TableLaid
<1>2. t.sign \in ByteLists \cup CountLists \cup {"MPST", "DBG2", "MSCT", "ASF!", "IBFT", "TCPA"}
  BY <1>1 DEF ListBegins
<1>3. CASE t.sign \in ByteLists
  <2> DEFINE size == HeaderSize[t.sign]
  <2>1. t.sign \in DOMAIN ByLength /\ ByLength[t.sign] = size /\ size \in Nat
    BY <1>3 DEF ByteLists, ByLength, HeaderSize
  <2>2. Begins(t, t.sign, size, t.Length - size)
    BY <1>1, <1>3 DEF ListBegins
  <2>3. Start(t) = Loop(t.sign, size, t.Length - size)
    <3>1. t.sign \notin DOMAIN ByCount \cup {"DBG2", "MSCT", "ASF!", "IBFT", "TCPA"}
      BY <1>3 DEF ByteLists, ByCount
    <3> QED
      BY <2>1, <3>1 DEF Start
  <2> HIDE DEF size
  <2>4. /\ t.sign \in LoopNames \ Inner /\ t.sign \notin {"Domains", "MPST", "Controllers", "Dimms", "TCPA"}
    BY <1>3 DEF ByteLists, LoopNames, Inner
  <2>5. size \in Int /\ t.Length - size \in Int /\ size + (t.Length - size) = t.Length
    BY <1>1, <2>1
  <2>6. EndsWithTable(t.sign, size, t.Length - size)
    BY <2>1, <2>4, <2>5 DEF EndsWithTable
  <2>7. OnList(t.sign, size, t.Length - size)
    BY <2>2, <2>4, <2>6 DEF OnList, Special
  <2>8. Begun(t.sign, size, t.Length - size)
    BY <2>3, <2>4, <2>5, <2>7
  <2> QED
    BY <2>8
<1>4. CASE t.sign \in CountLists \cup {"MPST"}
  <2> DEFINE size == HeaderSize[t.sign]
  <2>1. t.sign \in DOMAIN ByCount /\ t.sign \notin DOMAIN ByLength /\ ByCount[t.sign] = size /\ size \in Nat
    BY <1>4 DEF CountLists, ByLength, ByCount, HeaderSize
  <2>2. t.count \in Nat /\ OnList(t.sign, size, t.count)
    BY <1>1, <1>4, AnyEnd DEF ListBegins, OnList, CountLists, Special, Even
  <2>3. Start(t) = Loop(t.sign, size, t.count)
    <3>1. t.sign \notin {"DBG2", "MSCT", "ASF!", "IBFT", "TCPA"}
      BY <1>4 DEF CountLists
    <3> QED
      BY <2>1, <3>1 DEF Start
  <2> HIDE DEF size
  <2>4. t.sign \in LoopNames \ Inner
    BY <1>4 DEF CountLists, LoopNames, Inner
  <2>5. Begun(t.sign, size, t.count)
    BY <2>1, <2>2, <2>3, <2>4
  <2> QED
    BY <2>5
<1>5. ASSUME t.sign \in {"DBG2", "MSCT", "ASF!", "IBFT", "TCPA"}
      PROVE  t.sign \notin DOMAIN ByLength \cup DOMAIN ByCount /\ t.sign \in LoopNames \ Inner
  BY <1>5 DEF ByLength, ByCount, LoopNames, Inner
<1>6. CASE t.sign = "DBG2"
  <2>1. Begun("DBG2", t.OffsetDbgDeviceInfo, t.count)
    BY <1>1, <1>5, <1>6, AnyEnd DEF Start, ListBegins, OnList, Special, Even
  <2> QED
    BY <2>1
<1>7. CASE t.sign = "MSCT"
  <2>1. Begun("MSCT", t.OffsetProxDomInfo, t.Maximum + 1)
    BY <1>1, <1>5, <1>7, AnyEnd DEF Start, ListBegins, OnList, Special, Even
  <2> QED
    BY <2>1
<1>8. CASE t.sign = "ASF!"
  <2>1. Begun("ASF!", 36, 1)
    BY <1>1, <1>5, <1>8, AnyEnd DEF Start, ListBegins, OnList, Special, Even
  <2> QED
    BY <2>1
<1>9. CASE t.sign = "IBFT"
  <2>1. Begun("IBFT", 48, 1)
    BY <1>1, <1>5, <1>9, AnyEnd DEF Start, ListBegins, OnList, Special, Even
  <2> QED
    BY <2>1
<1>10. CASE t.sign = "TCPA"
  <2>1. Start(t) = TcpaLog(t)
    BY <1>5, <1>10 DEF Start
  <2>2. CASE TcpaLog(t) = <<>>
    BY <2>1, <2>2
  <2>3. CASE TcpaLog(t) # <<>>
    <3>1. t.Lasa # 0 /\ TcpaLog(t) = Loop("TCPA", t.Lasa, t.Laml)
      BY <2>3 DEF TcpaLog
    <3>2. EndsWithTable("TCPA", t.Lasa, t.Laml)
      BY DEF EndsWithTable, ByLength, ByType, Late
    <3>3. Begun("TCPA", t.Lasa, t.Laml)
      BY <1>1, <1>5, <1>10, <2>1, <3>1, <3>2 DEF ListBegins, OnList, Special
    <3> QED
      BY <3>3
  <2> QED
    BY <2>2, <2>3
<1> QED
  BY <1>2, <1>3, <1>4, <1>6, <1>7, <1>8, <1>9, <1>10

LEMMA InitWalkInv == WalkInit => WalkInv
<1> SUFFICES ASSUME WalkInit PROVE WalkInv
  OBVIOUS
<1>1. table \in Tables /\ dumped = <<>>
  BY DEF WalkInit
<1>2. dumped \in Seq(Range(dumped)) /\ ReadsItsStructure
  BY <1>1, EmptySeq DEF ReadsItsStructure
<1>3. CASE stack = <<>>
  <2>1. stack \in Seq(Loops) /\ Len(stack) = 0 /\ DOMAIN stack = {} /\ 1 .. 0 = {}
    BY <1>3, EmptySeq
  <2> QED
    BY <1>1, <1>2, <2>1 DEF WalkInv, WalkTyped, AllOnLists, InnerInside, InnerInStep
<1>4. CASE stack # <<>>
  <2>1. stack = Start(table)
    BY <1>4 DEF WalkInit
  <2>2. PICK name \in LoopNames \ Inner, at \in Int, rest \in Int :
          stack = Loop(name, at, rest) /\ OnList(name, at, rest)
    BY <1>1, <1>4, <2>1, TableBegins
  <2> DEFINE loop == [loop |-> name, at |-> at, rest |-> rest, TableLen |-> 0]
  <2>3. loop \in Loops /\ loop.loop = name /\ loop.at = at /\ loop.rest = rest
    BY DEF Loops
  <2>4. stack = <<loop>>
    BY <2>2 DEF Loop
  <2> HIDE DEF loop
  <2>5. /\ stack \in Seq(Loops) /\ Len(stack) = 1 /\ DOMAIN stack = 1 .. 1
        /\ \A i \in 1 .. 1 : stack[i] = loop
    BY <2>3, <2>4
  <2>6. AllOnLists /\ InnerInside /\ InnerInStep
    BY <2>2, <2>3, <2>5 DEF AllOnLists, InnerInside, InnerInStep
  <2> QED
    BY <1>1, <1>2, <2>5, <2>6 DEF WalkInv, WalkTyped
<1> QED
  BY <1>3, <1>4

LEMMA NextWalkInv == WalkInv /\ [WalkNext]_walkVars => WalkInv'
<1> SUFFICES ASSUME WalkInv, [WalkNext]_walkVars PROVE WalkInv'
  OBVIOUS
<1>1. CASE UNCHANGED walkVars
  <2>1. table' = table /\ stack' = stack /\ dumped' = dumped
    BY <1>1 DEF walkVars, call
  <2> QED
    BY <2>1, TableStays DEF WalkInv, WalkTyped, AllOnLists, InnerInside, InnerInStep, ReadsItsStructure,
       StructureAt, Inner
<1>2. CASE DumpAcpiMADT \/ DumpAcpiSRAT \/ DumpAcpiHEST
  BY <1>2, MadtStep, SratStep, HestStep
<1>3. CASE \/ HestBank \/ MpstCharacteristic \/ DumpAcpiWDAT \/ DumpAcpiERST \/ DumpAcpiEINJ \/ IbftPointed
  BY <1>3, ArraySteps
<1>4. CASE DumpAcpiDMAR \/ DmarScope \/ DumpAcpiNFIT \/ DumpAcpiASFT
  BY <1>4, DmarStep, DmarScopeStep, NfitStep, AsfStep
<1>5. CASE DumpAcpiFPDT \/ FpdtBootTable \/ FpdtBootRecord \/ FpdtS3Table \/ FpdtS3Record
  BY <1>5, FpdtStep, PerformanceTableSteps, RecordSteps
<1>6. CASE DumpAcpiIBFT \/ IbftNicTarget
  BY <1>6, IbftStep, IbftNicTargetStep
<1>7. CASE DumpAcpiPMTT \/ PmttController \/ PmttProximityDomain \/ PmttDimm \/ DumpAcpiLPIT
  BY <1>7, PmttStep, PmttPartSteps, PmttProximityDomainStep, LpitStep
<1>8. CASE DumpAcpiDBG2 \/ DumpAcpiMPST \/ MpstCharacteristics
  BY <1>8, Dbg2Step, MpstStep, MpstCharacteristicsStep
<1>9. CASE DumpAcpiMSCT \/ DumpAcpiCPEP \/ DumpAcpiMCFG \/ DumpAcpiTCPA \/ Return
  BY <1>9, ElementSteps, TcpaStep, ReturnStep
<1> QED
  BY <1>1, <1>2, <1>3, <1>4, <1>5, <1>6, <1>7, <1>8, <1>9 DEF WalkNext

(* The inductive invariant of the walks.                                    *)
THEOREM WalkInvariance == WalkSpec => []WalkInv
<1> QED
  BY InitWalkInv, NextWalkInv, PTL DEF WalkSpec

(* DumpAcpi<sign>: cursor and rest of each loop that counts bytes agree     *)
(* about where the table, or the structure around the loop, ends; of MADT   *)
(* and SRAT as far as the library knows the structures, of PMTT and LPIT    *)
(* but for the Lengths of the first structure and of the next.              *)
THEOREM LoopsAreInStep == WalkSpec => []InStep
<1>1. WalkInv => InStep
  <2> SUFFICES ASSUME WalkInv PROVE InStep
    OBVIOUS
  <2>1. DOMAIN stack = 1 .. Len(stack)
    BY LenProperties DEF WalkInv, WalkTyped
  <2>2. \A i \in 1 .. Len(stack) : EndsWithTable(stack[i].loop, stack[i].at, stack[i].rest)
    BY DEF WalkInv, AllOnLists, OnList
  <2> QED
    BY <2>1, <2>2 DEF InStep, WalkInv, InnerInStep
<1> QED
  BY <1>1, WalkInvariance, PTL

(* No function that prints a structure reads behind its end.                *)
THEOREM StructuresAreRead == WalkSpec => []ReadsItsStructure
<1>1. WalkInv => ReadsItsStructure
  BY DEF WalkInv
<1> QED
  BY <1>1, WalkInvariance, PTL
=============================================================================
