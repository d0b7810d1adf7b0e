------------------------- MODULE VariableApps_proofs -------------------------
(***************************************************************************)
(* The safety properties of the two applications that keep their state in  *)
(* variables of the firmware and can lose power at any time: BootOption,   *)
(* for every number of options, every first BootOrder and any sequence of  *)
(* additions, deletions and failures, and ResetCountApp, for a UINTN of    *)
(* every width and every argument of -setcount.  Each has a specification  *)
(* and an inductive invariant of its own.                                  *)
(***************************************************************************)
EXTENDS BootOption, ResetCountApp, Sublists_proofs, FiniteSetTheorems

(* A list of n numbers below n without a repetition has all of them.        *)
LEMMA PermutationHasAll ==
  ASSUME NEW n \in Nat, NEW s \in [1 .. n -> 0 .. n - 1], IsInjective(s)
  PROVE  Range(s) = 0 .. n - 1
<1>1. s \in Injection(1 .. n, 0 .. n - 1)
  <2>1. \A a, b \in 1 .. n : s[a] = s[b] => a = b
    BY DEF IsInjective
  <2> QED
    BY <2>1, Fun_IsInj
<1>2. /\ IsFiniteSet(0 .. n - 1)
      /\ Cardinality(1 .. n) = n /\ Cardinality(0 .. n - 1) = n
  <2>1. \A a, b \in Int : /\ IsFiniteSet(a .. b)
                          /\ Cardinality(a .. b) = IF a > b THEN 0 ELSE b - a + 1
    BY ONLY FS_Interval
  <2>2. n \in Int /\ n - 1 \in Int /\ 0 \in Int /\ 1 \in Int
    OBVIOUS
  <2>3. /\ Cardinality(1 .. n) = IF 1 > n THEN 0 ELSE n - 1 + 1
        /\ Cardinality(0 .. n - 1) = IF 0 > n - 1 THEN 0 ELSE n - 1 - 0 + 1
        /\ IsFiniteSet(0 .. n - 1)
    BY ONLY <2>1, <2>2, Zenon
  <2> QED
    BY <2>3
<1>3. s \in Surjection(1 .. n, 0 .. n - 1)
  BY <1>1, <1>2, FS_Injection
<1> QED
  BY <1>3, Fun_SurjectionProperties

-----------------------------------------------------------------------------
(* ResetCountApp.                                                           *)
USE ResetCountAssumption, ArgumentsAssumption

(* What StrHexToUintn makes of the digits is a UINTN.                       *)
LEMMA StrHexToUintnType ==
  ASSUME NEW digits, digits \in Seq(0 .. 15) PROVE StrHexToUintn(digits) \in UINTN
<1> DEFINE N == Len(digits)
           next(v, n) == Smaller(16 * v + digits[n], Values - 1)
           Is(f) == f = [n \in 0 .. N |-> IF n = 0 THEN 0 ELSE next(f[n - 1], n)]
           step == [n \in 1 .. N |-> [v \in UINTN |-> next(v, n)]]
           value == CHOOSE f : Is(f)
<1>1. N \in Nat /\ 0 \in UINTN /\ \A n \in 1 .. N : digits[n] \in 0 .. 15
  BY SMTT(40) DEF UINTN
<1>2. \A v \in UINTN, n \in 1 .. N : next(v, n) \in UINTN
  BY <1>1, SMTT(40) DEF UINTN, Smaller
<1>3. StrHexToUintn(digits) = value[N]
  BY DEF StrHexToUintn
<1> HIDE DEF next, N
<1>4. PICK g \in [0 .. N -> UINTN] : g[0] = 0 /\ \A n \in 1 .. N : g[n] = step[n][g[n - 1]]
  <2>1. step \in [1 .. N -> [UINTN -> UINTN]]
    <3>1. \A n \in 1 .. N : [v \in UINTN |-> next(v, n)] \in [UINTN -> UINTN]
      BY <1>2
    <3> QED
      BY <3>1
  <2>2. N \in Nat /\ 0 \in UINTN
    BY <1>1
  <2> HIDE DEF step
  <2> QED
    BY ONLY <2>1, <2>2, Iterations, SMTT(40)
<1>5. Is(g)
  <2>1. ASSUME NEW n \in 1 .. N PROVE g[n] = next(g[n - 1], n)
    <3>1. g[n - 1] \in UINTN
      BY <1>1, <1>4
    <3> QED
      BY <1>4, <3>1
  <2>2. \A n \in 0 .. N : n = 0 \/ n \in 1 .. N
    BY <1>1
  <2> QED
    BY <1>4, <2>1, <2>2, Zenon
<1>6. Is(value)
  BY <1>5
<1> HIDE DEF value
<1>7. value[0] = 0 /\ \A n \in 1 .. N : n \in 0 .. N /\ n - 1 \in 0 .. N
                                        /\ value[n] = next(value[n - 1], n)
  BY <1>1, <1>6
<1> DEFINE T == {n \in 0 .. N : value[n] \in UINTN}
<1>8. 0 \in T
  BY <1>1, <1>7
<1>9. ASSUME NEW n \in 1 .. N, n - 1 \in T PROVE n \in T
  BY <1>2, <1>7, <1>9
<1> HIDE DEF T
<1>10. 0 .. N \subseteq T
  BY <1>1, <1>8, <1>9, UpTo
<1>11. N \in T
  BY <1>1, <1>10
<1> QED
  BY <1>3, <1>11 DEF T

(* So is the count asked for.                                               *)
LEMMA SetCountType == ResetCountTypeOK => SetCount \in UINTN
<1>1. ResetCountTypeOK => argument \in Seq(0 .. 15)
  <2>1. <<>> \in Seq(0 .. 15)
    BY EmptySeq
  <2> QED
    BY <2>1 DEF ResetCountTypeOK
<1> QED
  BY <1>1, StrHexToUintnType DEF SetCount

(* The initial states satisfy the inductive invariant.                      *)
LEMMA InitResetCountInv == ResetCountInit => ResetCountInv
  BY DEF ResetCountInit, ResetCountInv, ResetCountTypeOK, UINTN, RunsAreCounted, RunIsCounted,
         BelowSetCount, StopsInTime

(* The count of a run, without an overflow.                                 *)
LEMMA NextCount == ASSUME NEW n \in Nat, n + 1 < Values PROVE (n + 1) % Values = n + 1
  OBVIOUS

(* Either outcome of the write leaves phase and count in their types.       *)
LEMMA WriteOutcomes ==
  ASSUME NEW n, Write(n)
  PROVE  \/ ResetCount' = n /\ phase' = "Counted"
         \/ ResetCount' = ResetCount /\ phase' = "Shell"
  BY DEF Write

LEMMA CountAgainStep == ASSUME ResetCountInv, CountAgain PROVE ResetCountInv'
<1>1. /\ ResetCount \in UINTN /\ Count' = (ResetCount + 1) % Values
      /\ Count' \in UINTN
      /\ start' = start /\ resets' = resets /\ argument' = argument
      /\ runs' = IF phase' = "Counted" THEN Up(runs) ELSE runs
      /\ start \in UINTN \cup {NoCount} /\ runs \in UINTN /\ resets \in UINTN
  BY DEF ResetCountInv, ResetCountTypeOK, UINTN, CountAgain
<1>2. \/ ResetCount' = Count' /\ phase' = "Counted"
      \/ ResetCount' = ResetCount /\ phase' = "Shell"
  BY WriteOutcomes DEF CountAgain
<1>3. ResetCountTypeOK'
  BY <1>1, <1>2 DEF ResetCountInv, ResetCountTypeOK, UINTN, CountAgain, Up
<1>4. RunsAreCounted'
  <2> SUFFICES ASSUME start' # NoCount, start' + runs' < Values - 1
               PROVE  /\ ResetCount' = start' + runs'
                      /\ resets' <= runs'
                      /\ RunIsCounted' => Count' = ResetCount' /\ resets' < runs'
    BY DEF RunsAreCounted
  <2>1. start \in Nat /\ runs \in Nat /\ resets \in Nat
    BY <1>1 DEF UINTN
  <2>2. CASE ResetCount' = Count' /\ phase' = "Counted"
    <3>1. runs' = runs + 1
      BY <1>1, <2>1, <2>2 DEF Up
    <3>2. ResetCount = start + runs /\ resets <= runs
      BY <1>1, <2>1, <3>1 DEF ResetCountInv, RunsAreCounted
    <3>3. ResetCount + 1 < Values
      BY <1>1, <2>1, <3>1, <3>2
    <3>4. Count' = ResetCount + 1
      BY <1>1, <3>3, NextCount DEF UINTN
    <3> QED
      BY <1>1, <2>1, <2>2, <3>1, <3>2, <3>3, <3>4
  <2>3. CASE ResetCount' = ResetCount /\ phase' = "Shell"
    BY <1>1, <2>1, <2>3 DEF ResetCountInv, RunsAreCounted, RunIsCounted
  <2> QED
    BY <1>2, <2>2, <2>3
<1>5. BelowSetCount'
  BY <1>2 DEF BelowSetCount
<1>6. StopsInTime'
  BY <1>1, <1>3 DEF ResetCountInv, ResetCountTypeOK, UINTN, StopsInTime, SetCount, Up
<1> QED
  BY <1>3, <1>4, <1>5, <1>6 DEF ResetCountInv

(* A count that starts anew starts with one run.                            *)
LEMMA CountAnewStep == ASSUME ResetCountInv, CountAnew PROVE ResetCountInv'
<1>1. PICK before \in UINTN :
        /\ Count' = (before + 1) % Values
        /\ Write(Count')
        /\ \/ phase' = "Counted" /\ start' = before /\ runs' = 1 /\ resets' = 0
           \/ phase' = "Shell" /\ UNCHANGED history
  BY DEF CountAnew
<1>2. /\ Count' \in UINTN /\ 1 \in UINTN /\ 0 \in UINTN
      /\ argument' = argument /\ phase = "Boot" /\ SetCount' = SetCount
  BY <1>1 DEF UINTN, CountAnew, SetCount
<1>3. CASE /\ ResetCount' = Count' /\ phase' = "Counted"
           /\ start' = before /\ runs' = 1 /\ resets' = 0
  <2>1. ResetCountTypeOK'
    BY <1>1, <1>2, <1>3 DEF ResetCountInv, ResetCountTypeOK, CountAnew
  <2>2. RunsAreCounted'
    <3> SUFFICES ASSUME before + 1 < Values - 1 PROVE Count' = before + 1
      BY <1>2, <1>3 DEF RunsAreCounted
    <3> QED
      BY <1>1, NextCount DEF UINTN
  <2>3. BelowSetCount'
    BY <1>3 DEF BelowSetCount
  <2>4. StopsInTime'
    BY <1>3 DEF StopsInTime, UINTN
  <2> QED
    BY <2>1, <2>2, <2>3, <2>4 DEF ResetCountInv
<1>4. CASE ResetCount' = ResetCount /\ phase' = "Shell" /\ UNCHANGED history
  <2>1. ResetCountTypeOK'
    BY <1>2, <1>4 DEF ResetCountInv, ResetCountTypeOK, CountAnew, history
  <2>2. RunsAreCounted' /\ BelowSetCount'
    BY <1>4 DEF ResetCountInv, RunsAreCounted, RunIsCounted, BelowSetCount, history
  <2>3. StopsInTime'
    BY <1>2, <1>4 DEF ResetCountInv, StopsInTime, history
  <2> QED
    BY <2>1, <2>2, <2>3 DEF ResetCountInv
<1> QED
  BY <1>1, <1>3, <1>4, WriteOutcomes

(* The prompt is reached with a count that is below the count asked for.    *)
LEMMA PromptStep == ASSUME ResetCountInv, Prompt PROVE ResetCountInv'
<1>1. ResetCountTypeOK'
  BY DEF ResetCountInv, ResetCountTypeOK, Prompt, history
<1>2. BelowSetCount'
  <2> SUFFICES ASSUME phase' = "CheckTimeout", argument' # <<>> PROVE Count' < SetCount'
    BY DEF Prompt, BelowSetCount
  <2>1. ~Reached /\ argument' = argument /\ Count' = Count
    BY DEF Prompt
  <2>2. Count \in Nat /\ SetCount \in Nat /\ SetCount' = SetCount
    BY <2>1, SetCountType DEF ResetCountInv, ResetCountTypeOK, UINTN, SetCount
  <2> QED
    BY <2>1, <2>2 DEF Reached
<1> QED
  BY <1>1, <1>2 DEF ResetCountInv, RunsAreCounted, RunIsCounted, StopsInTime, SetCount, Prompt,
                    history

(* The loop of the prompt, the timer and the keys.                          *)
LEMMA PromptLoopSteps ==
  ASSUME ResetCountInv, CheckTimeout \/ ReadKey \/ Timeout \/ Press PROVE ResetCountInv'
<1> USE DEF CheckTimeout, ReadKey, Timeout, Press, history
<1>1. ResetCountTypeOK'
  BY DEF ResetCountInv, ResetCountTypeOK
<1>2. RunsAreCounted' /\ BelowSetCount'
  BY DEF ResetCountInv, RunsAreCounted, RunIsCounted, BelowSetCount, SetCount
<1> QED
  BY <1>1, <1>2 DEF ResetCountInv, StopsInTime, SetCount

(* The reset: one more, of a run that is counted and below the count asked  *)
(* for.                                                                     *)
LEMMA ResetSystemStep == ASSUME ResetCountInv, ResetSystem PROVE ResetCountInv'
<1> USE DEF ResetSystem, Restart
<1>1. ResetCountTypeOK'
  BY DEF ResetCountInv, ResetCountTypeOK, UINTN, Up
<1>2. RunsAreCounted'
  BY DEF ResetCountInv, ResetCountTypeOK, UINTN, RunsAreCounted, RunIsCounted, Up
<1>3. StopsInTime'
  <2> SUFFICES ASSUME argument' # <<>>, start' # NoCount, start' < SetCount',
                      start' + runs' < Values - 1
               PROVE  start' + resets' < SetCount'
    BY DEF StopsInTime
  <2>1. /\ start' = start /\ runs' = runs /\ SetCount' = SetCount
        /\ start \in Nat /\ runs \in Nat /\ resets \in Nat /\ SetCount \in Nat
    BY SetCountType DEF ResetCountInv, ResetCountTypeOK, UINTN, SetCount
  <2>2. ResetCount = start + runs /\ Count = ResetCount /\ resets < runs
    BY <2>1 DEF ResetCountInv, RunsAreCounted, RunIsCounted
  <2>3. Count < SetCount
    BY DEF ResetCountInv, BelowSetCount
  <2>4. resets' <= resets + 1
    BY <2>1 DEF Up
  <2>5. resets' \in Nat
    BY <1>1 DEF ResetCountTypeOK, UINTN
  <2> QED
    BY <2>1, <2>2, <2>3, <2>4, <2>5
<1> QED
  BY <1>1, <1>2, <1>3 DEF ResetCountInv, BelowSetCount

(* -clean begins a new count.                                               *)
LEMMA CleanStep == ASSUME ResetCountInv, Clean PROVE ResetCountInv'
<1>1. ResetCountTypeOK'
  BY DEF ResetCountInv, ResetCountTypeOK, UINTN, Clean
<1>2. RunsAreCounted' /\ BelowSetCount'
  BY DEF Clean, RunsAreCounted, RunIsCounted, BelowSetCount
<1>3. StopsInTime'
  BY DEF StopsInTime, Clean
<1> QED
  BY <1>1, <1>2, <1>3 DEF ResetCountInv

(* A power failure loses the run but not its count.                         *)
LEMMA PowerFailsStep == ASSUME ResetCountInv, PowerFails PROVE ResetCountInv'
  BY DEF PowerFails, Restart, history, ResetCountInv, ResetCountTypeOK, UINTN, RunsAreCounted,
         RunIsCounted, BelowSetCount, StopsInTime, SetCount

(* Every step of the application, the user and the power supply preserves   *)
(* the invariant.                                                           *)
LEMMA NextResetCountInv == ResetCountInv /\ [ResetCountNext]_resetCountVars => ResetCountInv'
<1> SUFFICES ASSUME ResetCountInv, [ResetCountNext]_resetCountVars PROVE ResetCountInv'
  OBVIOUS
<1>1. CASE UNCHANGED resetCountVars
  BY <1>1 DEF resetCountVars, ResetCountInv, ResetCountTypeOK, RunsAreCounted, RunIsCounted,
              BelowSetCount, StopsInTime, SetCount
<1> QED
  BY <1>1, CountAgainStep, CountAnewStep, PromptStep, PromptLoopSteps, ResetSystemStep, CleanStep,
     PowerFailsStep DEF ResetCountNext, UefiMain

THEOREM ResetCountInvariance == ResetCountSpec => []ResetCountInv
<1> QED
  BY InitResetCountInv, NextResetCountInv, PTL DEF ResetCountSpec

(* No reset is missing from the count, whatever power failures, keys and    *)
(* failing writes do to the runs around it: UefiMain writes the variable    *)
(* before it prompts and resets.                                            *)
THEOREM ResetsAreCounted == ResetCountSpec => []EveryResetIsCounted
<1>1. ResetCountInv => EveryResetIsCounted
  BY DEF ResetCountInv, ResetCountTypeOK, UINTN, RunsAreCounted, EveryResetIsCounted
<1> QED
  BY <1>1, ResetCountInvariance, PTL

(* The script with -setcount resets the machine fewer times than it is told *)
(* to count.                                                                *)
THEOREM CountIsRespected == ResetCountSpec => []StopsInTime
<1>1. ResetCountInv => StopsInTime
  BY DEF ResetCountInv
<1> QED
  BY <1>1, ResetCountInvariance, PTL
-----------------------------------------------------------------------------
(* BootOption.                                                              *)
USE BootOptionAssumption, NoVariableAssumption

(* BootOrder as GetVariable2 gives it is a sequence of numbers.             *)
LEMMA OrderType == TypeOK => Order \in Seq(Numbers) /\ Range(Order) \subseteq Numbers
<1> SUFFICES ASSUME TypeOK PROVE Order \in Seq(Numbers) /\ Range(Order) \subseteq Numbers
  OBVIOUS
<1>1. Order \in Seq(Numbers)
  BY EmptySeq DEF TypeOK, Order
<1> QED
  BY <1>1, RangeOfSeq

(* The initial states satisfy the inductive invariant.                      *)
LEMMA InitIInv == Init => IInv
<1> SUFFICES ASSUME Init PROVE IInv
  OBVIOUS
<1>1. Order \in Seq(Numbers) /\ Range(Order) = 0 .. Len(Order) - 1 /\ IsInjective(Order)
      /\ (BootOrder = NoVariable \/ BootOrder \in Seq(Numbers))
  <2>1. CASE BootOrder = NoVariable
    <3>1. Order = <<>> /\ Len(Order) = 0 /\ <<>> \in Seq(Numbers)
      BY <2>1, EmptySeq DEF Order
    <3>2. Range(Order) = 0 .. Len(Order) - 1 /\ IsInjective(Order)
      BY <3>1 DEF Range, IsInjective
    <3> QED
      BY <2>1, <3>1, <3>2
  <2>2. CASE \E n \in 1 .. MaxIndex :
               BootOrder \in {s \in [1 .. n -> 0 .. n - 1] : IsInjective(s)}
    <3>1. PICK n \in 1 .. MaxIndex :
            BootOrder \in [1 .. n -> 0 .. n - 1] /\ IsInjective(BootOrder)
      BY <2>2
    <3>2. BootOrder \in Seq(Numbers) /\ Len(BootOrder) = n
      BY <3>1 DEF Numbers
    <3>3. Order = BootOrder
      BY <3>2 DEF Order
    <3> QED
      BY <3>1, <3>2, <3>3, PermutationHasAll
  <2> QED
    BY <2>1, <2>2 DEF Init
<1>2. TypeOK
  BY <1>1 DEF Init, TypeOK
<1>3. OptionsAreNamed /\ DanglingIsInterrupted
  BY <1>1, RangeOfSeq DEF Init, OptionsAreNamed, DanglingIsInterrupted
<1> QED
  BY <1>1, <1>2, <1>3 DEF Init, IInv, FirstNumbers, NewIndexIsFree

(* The boot manager deletes an option: what remains of BootOrder names the  *)
(* others, each once if it did before.                                      *)
LEMMA DeleteStep == ASSUME IInv, Delete PROVE IInv'
<1>1. PICK n \in Range(Order) :
        LET rest == Where(BootOrder, Numbers \ {n})
        IN  /\ BootOrder' = IF rest = <<>> THEN NoVariable ELSE rest
            /\ Boot' = [Boot EXCEPT ![n] = NoVariable]
            /\ interrupted' = interrupted \ {n}
            /\ forgotten' = forgotten \ {n}
            /\ gap' = (gap \/ Range(rest) # 0 .. Len(rest) - 1)
  BY DEF Delete
<1> DEFINE rest == Where(BootOrder, Numbers \ {n})
<1>2. Order \in Seq(Numbers) /\ n \in Numbers
  BY OrderType DEF IInv
<1>3. Order = BootOrder
  BY <1>1 DEF Order, Range
<1>4. /\ rest \in Seq(Numbers)
      /\ Range(rest) = Range(Order) \ {n}
      /\ IsInjective(Order) => IsInjective(rest)
  <2>1. Range(rest) = Range(Order) \cap (Numbers \ {n})
    BY <1>2, <1>3, WhereElements
  <2>2. Range(Order) \subseteq Numbers
    BY <1>2, RangeOfSeq
  <2> QED
    BY <1>2, <1>3, <2>1, <2>2, WhereElements
<1> HIDE DEF rest
<1>5. Order' = rest
  BY <1>1, <1>4 DEF Order, rest
<1>6. pc = "Shell" /\ pc' = pc /\ newIndex' = newIndex
      /\ BootOrder' \in {NoVariable, rest}
      /\ Boot' = [Boot EXCEPT ![n] = NoVariable]
      /\ interrupted' = interrupted \ {n} /\ forgotten' = forgotten \ {n}
      /\ gap' = (gap \/ Range(rest) # 0 .. Len(rest) - 1)
  BY <1>1 DEF Delete, rest
<1>7. TypeOK'
  BY <1>2, <1>4, <1>6 DEF IInv, TypeOK
<1>8. OptionsAreNamed'
  BY <1>2, <1>4, <1>5, <1>6 DEF IInv, TypeOK, OptionsAreNamed
<1>9. DanglingIsInterrupted'
  <2>1. \A m \in Range(rest) : m # n /\ m \in Range(Order) /\ Boot'[m] = Boot[m]
    BY <1>2, <1>4, <1>6, OrderType DEF IInv, TypeOK
  <2> QED
    BY <1>5, <1>6, <2>1 DEF IInv, DanglingIsInterrupted, UnderWay
<1>10. FirstNumbers'
  BY <1>4, <1>5, <1>6 DEF IInv, TypeOK, FirstNumbers
<1>11. NewIndexIsFree'
  BY <1>6 DEF NewIndexIsFree
<1> QED
  BY <1>7, <1>8, <1>9, <1>10, <1>11 DEF IInv

(* The new number is the length of BootOrder, whatever numbers are in it,   *)
(* or 0 in an order of its own.                                             *)
LEMMA GetNewBootIndexStep == ASSUME IInv, GetNewBootIndex PROVE IInv'
<1>1. Order \in Seq(Numbers) /\ Len(Order) \in Nat
  BY OrderType DEF IInv
<1>2. Order' = Order /\ Boot' = Boot /\ path' \in Paths
      /\ interrupted' = interrupted /\ gap' = gap /\ forgotten' = forgotten /\ pc = "Shell"
  BY DEF GetNewBootIndex, Order
<1>3. \/ newIndex' \in Numbers /\ newIndex' = Len(Order) /\ pc' = "SetBootOrder"
      \/ newIndex' \in Numbers /\ newIndex' = 0 /\ pc' = "SetFirstBootOrder"
      \/ pc' = "ASSERT"
  <2>1. CASE newIndex' = 0 /\ pc' = "SetFirstBootOrder"
    BY <2>1 DEF Numbers
  <2>2. CASE /\ pc' = "SetBootOrder"
             /\ \E index \in Numbers :
                  /\ ~Match(index) /\ \A lower \in 0 .. index - 1 : Match(lower)
                  /\ newIndex' = index
    <3>1. PICK index \in Numbers :
            /\ ~Match(index) /\ \A lower \in 0 .. index - 1 : Match(lower)
            /\ newIndex' = index
      BY <2>2
    <3>2. \A i \in Nat : Match(i) <=> i < Len(Order)
      BY <1>1 DEF Match
    <3>3. index = Len(Order)
      <4>1. ~(index < Len(Order))
        BY <3>1, <3>2 DEF Numbers
      <4>2. \A lower \in 0 .. index - 1 : lower < Len(Order)
        BY <3>1, <3>2
      <4> QED
        BY <1>1, <4>1, <4>2 DEF Numbers
    <3> QED
      BY <2>2, <3>1, <3>3
  <2> QED
    BY <2>1, <2>2 DEF GetNewBootIndex
<1>4. TypeOK'
  BY <1>2, <1>3 DEF IInv, TypeOK, GetNewBootIndex
<1>5. OptionsAreNamed' /\ FirstNumbers'
  BY <1>2 DEF IInv, OptionsAreNamed, FirstNumbers
<1>6. DanglingIsInterrupted' /\ NewIndexIsFree'
  BY <1>2, <1>3 DEF IInv, DanglingIsInterrupted, NewIndexIsFree, UnderWay
<1> QED
  BY <1>4, <1>5, <1>6 DEF IInv

(* The order of the number 0 alone; the options it does not name are        *)
(* forgotten.                                                               *)
LEMMA SetFirstBootOrderStep == ASSUME IInv, SetFirstBootOrder PROVE IInv'
<1>1. /\ pc = "SetFirstBootOrder" /\ newIndex \in Numbers /\ newIndex = 0
      /\ path \in Paths /\ Order \in Seq(Numbers) /\ Range(Order) \subseteq Numbers
      /\ forgotten \subseteq Numbers
  BY OrderType DEF IInv, TypeOK, NewIndexIsFree, SetFirstBootOrder
<1>2. CASE BootOrder' = <<newIndex>> /\ forgotten' = forgotten \cup Range(Order)
           /\ pc' = "SetOption"
  <2>1. <<newIndex>> \in Seq(Numbers) /\ Range(<<newIndex>>) = {newIndex}
        /\ Len(<<newIndex>>) = 1 /\ IsInjective(<<newIndex>>)
    BY <1>1 DEF Range, IsInjective
  <2>2. Order' = <<newIndex>>
    BY <1>2, <2>1 DEF Order
  <2>3. TypeOK'
    BY <1>1, <1>2, <2>1 DEF IInv, TypeOK, SetFirstBootOrder
  <2>4. OptionsAreNamed'
    BY <1>2 DEF IInv, OptionsAreNamed, SetFirstBootOrder
  <2>5. FirstNumbers'
    BY <1>1, <2>1, <2>2 DEF FirstNumbers
  <2>6. DanglingIsInterrupted'
    BY <1>1, <1>2, <2>1, <2>2 DEF DanglingIsInterrupted, UnderWay, SetFirstBootOrder
  <2>7. NewIndexIsFree'
    <3>1. Boot[newIndex] # NoVariable => newIndex \in forgotten'
      BY <1>1, <1>2 DEF IInv, OptionsAreNamed
    <3> QED
      BY <1>1, <1>2, <2>1, <2>2, <3>1 DEF NewIndexIsFree, SetFirstBootOrder
  <2> QED
    BY <2>3, <2>4, <2>5, <2>6, <2>7 DEF IInv
<1>3. CASE pc' = "ASSERT" /\ UNCHANGED <<BootOrder, forgotten>>
  BY <1>1, <1>3 DEF IInv, TypeOK, OptionsAreNamed, DanglingIsInterrupted, UnderWay,
                    FirstNumbers, NewIndexIsFree, Order, SetFirstBootOrder
<1> QED
  BY <1>2, <1>3 DEF SetFirstBootOrder

(* The first write puts the new number in front of BootOrder.               *)
LEMMA SetBootOrderStep == ASSUME IInv, SetBootOrder PROVE IInv'
<1>1. /\ pc = "SetBootOrder" /\ newIndex \in Numbers /\ newIndex = Len(Order)
      /\ path \in Paths /\ Order \in Seq(Numbers)
  BY OrderType DEF IInv, NewIndexIsFree, SetBootOrder
<1>2. CASE BootOrder' = <<newIndex>> \o Order /\ pc' = "SetOption"
  <2> DEFINE longer == <<newIndex>> \o Order
  <2>1. longer \in Seq(Numbers)
    BY <1>1
  <2>2. Order' = longer
    BY <1>2, <2>1 DEF Order
  <2>3. /\ Len(longer) = Len(Order) + 1
        /\ longer[1] = newIndex
        /\ \A i \in 1 .. Len(Order) : longer[i + 1] = Order[i]
        /\ \A i \in 1 .. Len(longer) : i = 1 \/ i - 1 \in 1 .. Len(Order)
    BY <1>1
  <2>4. Range(longer) = {newIndex} \cup Range(Order)
    <3>1. Range(longer) = {longer[i] : i \in 1 .. Len(longer)}
      BY <2>1 DEF Range
    <3>2. Range(Order) = {Order[i] : i \in 1 .. Len(Order)}
      BY <1>1 DEF Range
    <3> DEFINE L == Len(Order)
    <3>3. L \in Nat /\ Len(longer) = L + 1
      BY <1>1, <2>3
    <3> HIDE DEF L, longer
    <3>4. \A i \in 1 .. L : i + 1 \in 1 .. Len(longer)
      BY <3>3
    <3>5. 1 \in 1 .. Len(longer)
      BY <3>3
    <3>6. {newIndex} \cup Range(Order) \subseteq Range(longer)
      BY <2>3, <3>1, <3>2, <3>4, <3>5 DEF L
    <3>7. \A i \in 1 .. Len(longer) : longer[i] \in {newIndex} \cup Range(Order)
      <4> SUFFICES ASSUME NEW i \in 1 .. Len(longer), i # 1 PROVE longer[i] \in Range(Order)
        BY <2>3
      <4>1. i - 1 \in 1 .. Len(Order) /\ (i - 1) + 1 = i
        BY <2>3
      <4> QED
        BY <2>3, <3>2, <4>1, ZenonT(60)
    <3> QED
      BY <3>1, <3>6, <3>7
  <2>5. newIndex \in Range(longer)
    BY <2>4
  <2>6. ~gap => newIndex \notin Range(Order)
    BY <1>1 DEF IInv, FirstNumbers
  <2>7. ~gap => Range(longer) = 0 .. Len(longer) - 1
    <3> DEFINE L == Len(Order)
    <3>1. L \in Nat /\ Len(longer) = L + 1 /\ newIndex = L
      BY <1>1, <2>3
    <3>2. ~gap => Range(Order) = 0 .. L - 1
      BY DEF IInv, FirstNumbers
    <3> HIDE DEF L, longer
    <3>3. {L} \cup (0 .. L - 1) = 0 .. (L + 1) - 1
      BY <3>1
    <3> QED
      BY <2>4, <3>1, <3>2, <3>3
  <2>8. ~gap => IsInjective(longer)
    <3> SUFFICES ASSUME ~gap, NEW i \in 1 .. Len(longer), NEW j \in 1 .. Len(longer),
                        longer[i] = longer[j]
                 PROVE  i = j
      BY <2>1 DEF IsInjective
    <3>1. \A k \in 1 .. Len(Order) : Order[k] \in Range(Order)
      BY <1>1 DEF Range
    <3>2. \A k \in 1 .. Len(longer) : k # 1 => longer[k] = Order[k - 1] /\ longer[k] # newIndex
      BY <1>1, <2>3, <2>6, <3>1
    <3>3. CASE i = 1 \/ j = 1
      BY <2>3, <3>2, <3>3
    <3>4. CASE i # 1 /\ j # 1
      <4>1. i - 1 \in 1 .. Len(Order) /\ j - 1 \in 1 .. Len(Order)
        BY <2>3, <3>4
      <4>2. Order[i - 1] = Order[j - 1]
        BY <3>2, <3>4
      <4>3. i - 1 = j - 1
        BY <1>1, <4>1, <4>2, SMTT(40) DEF IInv, FirstNumbers, IsInjective
      <4> QED
        BY <4>3
    <3> QED
      BY <3>3, <3>4
  <2> HIDE DEF longer
  <2>9. TypeOK'
    BY <1>2, <2>1 DEF IInv, TypeOK, SetBootOrder, longer
  <2>10. OptionsAreNamed' /\ FirstNumbers'
    BY <2>2, <2>4, <2>7, <2>8 DEF IInv, OptionsAreNamed, FirstNumbers, SetBootOrder
  <2>11. DanglingIsInterrupted'
    BY <1>1, <1>2, <2>2, <2>4 DEF IInv, DanglingIsInterrupted, UnderWay, SetBootOrder
  <2>12. NewIndexIsFree'
    <3>1. ASSUME newIndex \in Range(Order)
          PROVE  \E i, j \in 1 .. Len(longer) : i # j /\ longer[i] = newIndex
                                                      /\ longer[j] = newIndex
      <4>1. PICK k \in 1 .. Len(Order) : Order[k] = newIndex
        BY <1>1, <3>1 DEF Range
      <4>2. 1 \in 1 .. Len(longer) /\ k + 1 \in 1 .. Len(longer) /\ k + 1 # 1
            /\ longer[1] = newIndex /\ longer[k + 1] = newIndex
        BY <1>1, <2>3, <4>1
      <4> HIDE DEF longer
      <4> QED
        BY ONLY <4>2
    <3>2. Boot[newIndex] # NoVariable => newIndex \in Range(Order) \cup forgotten
      BY <1>1 DEF IInv, OptionsAreNamed
    <3> HIDE DEF longer
    <3>3. Boot[newIndex] # NoVariable => newIndex \in forgotten \/ Twice(newIndex)'
      BY <2>2, <3>1, <3>2 DEF Twice, SetBootOrder
    <3> QED
      BY <1>1, <1>2, <2>2, <2>5, <3>3 DEF NewIndexIsFree, SetBootOrder
  <2> QED
    BY <2>9, <2>10, <2>11, <2>12 DEF IInv
<1>3. CASE pc' = "ASSERT" /\ UNCHANGED BootOrder
  BY <1>1, <1>3 DEF IInv, TypeOK, OptionsAreNamed, DanglingIsInterrupted, UnderWay,
                    FirstNumbers, NewIndexIsFree, Order, SetBootOrder
<1> QED
  BY <1>2, <1>3 DEF SetBootOrder

(* The second write fills the option, or leaves its number without one.     *)
LEMMA AddBootOptionStep == ASSUME IInv, AddBootOption PROVE IInv'
<1>1. /\ pc = "SetOption" /\ newIndex \in Numbers /\ path \in Paths
      /\ newIndex \in Range(Order) /\ Order' = Order /\ Order \in Seq(Numbers)
      /\ Range(Order) \subseteq Numbers
      /\ Boot \in [Numbers -> Paths \cup {Firmware, NoVariable}]
      /\ BootOrder' = BootOrder /\ gap' = gap
  BY OrderType DEF IInv, TypeOK, NewIndexIsFree, AddBootOption, Order
<1>2. FirstNumbers'
  BY <1>1 DEF IInv, FirstNumbers
<1>3. CASE /\ Boot' = [Boot EXCEPT ![newIndex] = path] /\ pc' = "Shell"
           /\ interrupted' = interrupted \ {newIndex}
           /\ forgotten' = forgotten \ {newIndex}
  <2>1. TypeOK'
    BY <1>1, <1>3 DEF IInv, TypeOK
  <2>2. OptionsAreNamed' /\ NewIndexIsFree'
    BY <1>1, <1>3 DEF IInv, OptionsAreNamed, NewIndexIsFree
  <2>3. DanglingIsInterrupted'
    <3>1. Boot'[newIndex] # NoVariable
      BY <1>1, <1>3
    <3>2. \A n \in Numbers : n # newIndex => Boot'[n] = Boot[n]
      BY <1>1, <1>3
    <3> QED
      BY <1>1, <1>3, <3>1, <3>2 DEF IInv, DanglingIsInterrupted, UnderWay
  <2> QED
    BY <1>2, <2>1, <2>2, <2>3 DEF IInv
<1>4. CASE pc' = "ASSERT" /\ interrupted' = interrupted \cup {newIndex}
           /\ UNCHANGED <<Boot, forgotten>>
  BY <1>1, <1>2, <1>4 DEF IInv, TypeOK, OptionsAreNamed, DanglingIsInterrupted, UnderWay,
                          NewIndexIsFree
<1> QED
  BY <1>3, <1>4 DEF AddBootOption

(* -dump changes nothing; a reset between the two writes interrupts.        *)
LEMMA DumpAndResetSteps == ASSUME IInv, DumpAllBootOption \/ Reset PROVE IInv'
<1>1. /\ BootOrder' = BootOrder /\ Boot' = Boot /\ gap' = gap /\ Order' = Order
      /\ newIndex' = newIndex /\ path' = path /\ forgotten' = forgotten
      /\ pc' \in {"Shell", "ASSERT", "NULL BootOrder", "NULL option"}
  BY DEF DumpAllBootOption, Reset, Order
<1>2. interrupted \cup UnderWay \subseteq interrupted' \cup UnderWay'
  BY DEF DumpAllBootOption, Reset, UnderWay
<1>3. TypeOK'
  BY <1>1 DEF IInv, TypeOK, NewIndexIsFree, DumpAllBootOption, Reset
<1> QED
  BY <1>1, <1>2, <1>3 DEF IInv, OptionsAreNamed, DanglingIsInterrupted, FirstNumbers,
                          NewIndexIsFree

(* Every step preserves the invariant.                                      *)
LEMMA NextIInv == IInv /\ [Next]_vars => IInv'
<1> SUFFICES ASSUME IInv, [Next]_vars PROVE IInv'
  OBVIOUS
<1>1. CASE UNCHANGED vars
  BY <1>1, ZenonT(60) DEF vars, IInv, TypeOK, OptionsAreNamed, DanglingIsInterrupted, UnderWay,
              FirstNumbers, NewIndexIsFree, Twice, Order
<1> QED
  BY <1>1, DeleteStep, GetNewBootIndexStep, SetFirstBootOrderStep, SetBootOrderStep,
     AddBootOptionStep, DumpAndResetSteps DEF Next, App

THEOREM Invariance == Spec => []IInv
<1> QED
  BY InitIInv, NextIInv, PTL DEF Spec

(* As long as deletions leave no gap, an addition never repeats a number:   *)
(* GetNewBootIndex comes out at the length of BootOrder.                    *)
THEOREM NoNumberTwice == Spec => []NoDuplicate
<1>1. IInv => NoDuplicate
  BY DEF IInv, FirstNumbers, NoDuplicate
<1> QED
  BY <1>1, Invariance, PTL

(* -dump meets a number without an option only where AddBootOption did not  *)
(* come from its first write to its second.                                 *)
THEOREM OnlyInterruptionsDangle == Spec => []OnlyInterruptedDangle
<1>1. IInv => OnlyInterruptedDangle
  BY DEF IInv, DanglingIsInterrupted, UnderWay, OnlyInterruptedDangle
<1> QED
  BY <1>1, Invariance, PTL

(* AddBootOption writes an option that was not there, unless a failing read *)
(* of BootOrder has forgotten it or the new number is in BootOrder twice,   *)
(* and nothing else changes an option, with gaps and without.               *)
THEOREM AdditionsKeepOptions == Spec => AddLosesNothing
<1> DEFINE Keeps == \A n \in Numbers : Boot[n] # NoVariable =>
                      Boot'[n] \in {Boot[n], NoVariable} \/ n \in forgotten \/ Twice(n)
<1>1. IInv /\ [Next]_vars => [Keeps]_vars
  <2> SUFFICES ASSUME IInv, Next, NEW n \in Numbers, Boot[n] # NoVariable,
                      n \notin forgotten, ~Twice(n)
               PROVE  Boot'[n] \in {Boot[n], NoVariable}
    OBVIOUS
  <2>1. Boot \in [Numbers -> Paths \cup {Firmware, NoVariable}]
    BY DEF IInv, TypeOK
  <2>2. CASE Delete
    BY <2>1, <2>2 DEF Delete
  <2>3. CASE AddBootOption
    <3>1. newIndex \in Numbers /\ newIndex # n
      BY <2>3 DEF IInv, NewIndexIsFree, AddBootOption
    <3> QED
      BY <2>1, <2>3, <3>1 DEF AddBootOption
  <2>4. CASE GetNewBootIndex \/ SetFirstBootOrder \/ SetBootOrder \/ DumpAllBootOption \/ Reset
    BY <2>4 DEF GetNewBootIndex, SetFirstBootOrder, SetBootOrder, DumpAllBootOption, Reset
  <2> QED
    BY <2>2, <2>3, <2>4 DEF Next, App
<1> QED
  BY <1>1, Invariance, PTL DEF Spec, AddLosesNothing
=============================================================================
