----------------------------- MODULE BootOption -----------------------------
(***************************************************************************)
(* The BootOption application (BootOption.c) and the variables it shares   *)
(* with the firmware: BootOrder, and a variable Boot#### for every option. *)
(* To add an option it writes BootOrder first and the option second; power *)
(* can fail at any time, a failing SetVariable ends in an ASSERT that only *)
(* a reset leaves, and a failing GetVariable is taken for a variable that  *)
(* does not exist.                                                         *)
(***************************************************************************)
EXTENDS Naturals, SequencesExt, Sublists

CONSTANTS
  Paths,        \* the file paths given with -add
  MaxIndex,     \* 0xFFFF, the number that is never given to an option
  MaxAdds,      \* bound on the number of options ever added
  NoVariable    \* a variable that does not exist

ASSUME BootOptionAssumption == MaxIndex \in Nat \ {0} /\ MaxAdds \in Nat

VARIABLES
  BootOrder,    \* a sequence of option numbers, or NoVariable
  Boot,         \* Boot[n]: the path of the option Boot####, or NoVariable
  pc,
  path,         \* FilePath of AddBootOption
  newIndex,     \* NewBootIndex
  adds,         \* options added so far
  interrupted,  \* history: the numbers whose addition did not come to its end
  gap,          \* history: once BootOrder did not name exactly the first numbers
  forgotten     \* history: the numbers that a failing read has taken out of BootOrder

vars == <<BootOrder, Boot, pc, path, newIndex, adds, interrupted, gap, forgotten>>

Firmware == "Firmware"   \* an option that the firmware made

Numbers == 0 .. MaxIndex - 1

ASSUME NoVariableAssumption ==
  NoVariable \notin Paths \cup {Firmware} /\ NoVariable \notin Seq(Numbers)

(* GetVariable2 gives an empty buffer for a variable that does not exist.   *)
Order == IF BootOrder = NoVariable THEN <<>> ELSE BootOrder

Init ==
  /\ \/ BootOrder = NoVariable
     \/ \E n \in 1 .. MaxIndex : BootOrder \in {s \in [1 .. n -> 0 .. n - 1] : IsInjective(s)}
  /\ Boot = [n \in Numbers |-> IF n \in Range(Order) THEN Firmware ELSE NoVariable]
  /\ pc = "Shell"
  /\ path = "" /\ newIndex = 0
  /\ adds = 0
  /\ interrupted = {}
  /\ gap = FALSE
  /\ forgotten = {}

(* The boot manager deletes an option, and a BootOrder that becomes empty.  *)
Delete ==
  /\ pc = "Shell"
  /\ \E n \in Range(Order) :
       LET rest == Where(BootOrder, Numbers \ {n})
       IN  /\ BootOrder' = IF rest = <<>> THEN NoVariable ELSE rest
           /\ Boot' = [Boot EXCEPT ![n] = NoVariable]
           /\ interrupted' = interrupted \ {n}
           /\ forgotten' = forgotten \ {n}
           /\ gap' = (gap \/ Range(rest) # 0 .. Len(rest) - 1)
  /\ UNCHANGED <<pc, path, newIndex, adds>>

(* Mutant: the last position is not compared.                               *)
Match_NotLast(index) == \E Index \in 1 .. Len(Order) - 1 : index + 1 = Index

(* What GetNewBootIndex takes for a number in use: it looks for it among    *)
(* the positions of BootOrder.                                              *)
Match(index) == \E Index \in 1 .. Len(Order) : index + 1 = Index

(* GetNewBootIndex, up to the write.  Whatever error the read of BootOrder  *)
(* ends in, the number is 0 and the order is a new one; otherwise it is the *)
(* first number without a match.                                            *)
GetNewBootIndex ==
  /\ pc = "Shell" /\ adds < MaxAdds
  /\ adds' = adds + 1
  /\ path' \in Paths
  /\ \/ newIndex' = 0 /\ pc' = "SetFirstBootOrder"   \* no BootOrder, or none that can be read
     \/ /\ BootOrder # NoVariable
        /\ \E index \in Numbers :
             /\ ~Match(index) /\ \A lower \in 0 .. index - 1 : Match(lower)
             /\ newIndex' = index
        /\ pc' = "SetBootOrder"
     \/ /\ BootOrder # NoVariable
        /\ \A index \in Numbers : Match(index)
        /\ pc' = "ASSERT" /\ UNCHANGED newIndex
  /\ UNCHANGED <<BootOrder, Boot, interrupted, gap, forgotten>>

(* The number 0 takes the place of the whole order.                         *)
SetFirstBootOrder ==
  /\ pc = "SetFirstBootOrder"
  /\ \/ /\ BootOrder' = <<newIndex>>
        /\ forgotten' = forgotten \cup Range(Order)
        /\ pc' = "SetOption"
     \/ pc' = "ASSERT" /\ UNCHANGED <<BootOrder, forgotten>>
  /\ UNCHANGED <<Boot, path, newIndex, adds, interrupted, gap>>

(* The new number goes in front of the others.                              *)
SetBootOrder ==
  /\ pc = "SetBootOrder"
  /\ \/ BootOrder' = <<newIndex>> \o Order /\ pc' = "SetOption"
     \/ pc' = "ASSERT" /\ UNCHANGED BootOrder
  /\ UNCHANGED <<Boot, path, newIndex, adds, interrupted, gap, forgotten>>

(* Mutant: the option is named after the next number.                       *)
AddBootOption_Next ==
  /\ pc = "SetOption"
  /\ \/ Boot' = [Boot EXCEPT ![newIndex + 1] = path] /\ pc' = "Shell"
        /\ UNCHANGED <<interrupted, forgotten>>
     \/ pc' = "ASSERT" /\ interrupted' = interrupted \cup {newIndex}
        /\ UNCHANGED <<Boot, forgotten>>
  /\ UNCHANGED <<BootOrder, path, newIndex, adds, gap>>

(* The rest of AddBootOption.                                               *)
AddBootOption ==
  /\ pc = "SetOption"
  /\ \/ Boot' = [Boot EXCEPT ![newIndex] = path] /\ pc' = "Shell"
        /\ interrupted' = interrupted \ {newIndex} /\ forgotten' = forgotten \ {newIndex}
     \/ pc' = "ASSERT" /\ interrupted' = interrupted \cup {newIndex}
        /\ UNCHANGED <<Boot, forgotten>>
  /\ UNCHANGED <<BootOrder, path, newIndex, adds, gap>>

(* DumpAllBootOption frees the buffer of BootOrder, which is NULL when the  *)
(* variable does not exist or can not be read (in the last case with a size *)
(* that is not 0); DumpBootOption reads the option at NULL when it does not *)
(* exist or can not be read.                                                *)
DumpAllBootOption ==
  /\ pc = "Shell"
  /\ \/ pc' = "ASSERT"   \* no BootOrder, or none that can be read
     \/ BootOrder # NoVariable /\ pc' \in {"NULL BootOrder", "NULL option"}
     \/ /\ BootOrder # NoVariable
        /\ \A n \in Range(BootOrder) : Boot[n] # NoVariable
        /\ pc' = pc
  /\ UNCHANGED <<BootOrder, Boot, path, newIndex, adds, interrupted, gap, forgotten>>

(* Power fails, or somebody resets a machine that hangs.                    *)
Reset ==
  /\ pc # "Shell"
  /\ pc' = "Shell"
  /\ interrupted' = IF pc = "SetOption" THEN interrupted \cup {newIndex} ELSE interrupted
  /\ UNCHANGED <<BootOrder, Boot, path, newIndex, adds, gap, forgotten>>

App ==
  \/ GetNewBootIndex \/ SetFirstBootOrder \/ SetBootOrder \/ AddBootOption
  \/ DumpAllBootOption

Next == App \/ Delete \/ Reset

Spec == Init /\ [][Next]_vars
-----------------------------------------------------------------------------
(* BootOrder names no option twice, as long as the boot manager has made no *)
(* gap in the numbers.                                                      *)
NoDuplicate == gap \/ IsInjective(Order)

(* An addition overwrites an option that exists only if a failing read of   *)
(* BootOrder has forgotten it, or if the new number stands in BootOrder     *)
(* already: GetNewBootIndex compares the positions of BootOrder, not its    *)
(* numbers, which differ once the boot manager has made a gap.              *)
Twice(n) ==
  \E i, j \in 1 .. Len(Order) : i # j /\ Order[i] = n /\ Order[j] = n

AddLosesNothing ==
  [][\A n \in Numbers : Boot[n] # NoVariable =>
       Boot'[n] \in {Boot[n], NoVariable} \/ n \in forgotten \/ Twice(n)]_vars

(* -dump comes upon an option that does not exist only if the addition of   *)
(* every such option was interrupted between its two writes (it may come    *)
(* upon one that exists and can not be read).                               *)
OnlyInterruptedDangle ==
  pc = "NULL option" => {n \in Range(Order) : Boot[n] = NoVariable} \subseteq interrupted
-----------------------------------------------------------------------------
(* The inductive invariant behind the three.  A number chosen by its        *)
(* position is the length of BootOrder, which is free as long as there is   *)
(* no gap; between the two writes it is in front of BootOrder, and if its   *)
(* option is there, that is forgotten or named a second time.               *)
TypeOK ==
  /\ BootOrder = NoVariable \/ BootOrder \in Seq(Numbers)
  /\ Boot \in [Numbers -> Paths \cup {Firmware, NoVariable}]
  /\ pc \in {"Shell", "SetFirstBootOrder", "SetBootOrder", "SetOption", "ASSERT", "NULL BootOrder",
            "NULL option"}
  /\ interrupted \subseteq Numbers
  /\ gap \in BOOLEAN
  /\ forgotten \subseteq Numbers

OptionsAreNamed == \A n \in Numbers : Boot[n] # NoVariable => n \in Range(Order) \cup forgotten

UnderWay == IF pc = "SetOption" THEN {newIndex} ELSE {}

DanglingIsInterrupted ==
  \A n \in Range(Order) : Boot[n] = NoVariable => n \in interrupted \cup UnderWay

FirstNumbers == ~gap => Range(Order) = 0 .. Len(Order) - 1 /\ IsInjective(Order)

NewIndexIsFree ==
  /\ pc \in {"SetFirstBootOrder", "SetBootOrder", "SetOption"}
       => newIndex \in Numbers /\ path \in Paths
  /\ pc = "SetFirstBootOrder" => newIndex = 0
  /\ pc = "SetBootOrder" => newIndex = Len(Order)
  /\ pc = "SetOption" =>
       /\ newIndex \in Range(Order)
       /\ Boot[newIndex] # NoVariable => newIndex \in forgotten \/ Twice(newIndex)

IInv ==
  TypeOK /\ OptionsAreNamed /\ DanglingIsInterrupted /\ FirstNumbers /\ NewIndexIsFree
=============================================================================
