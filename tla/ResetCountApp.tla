--------------------------- MODULE ResetCountApp ---------------------------
(***************************************************************************)
(* The ResetCountApp application (ResetCountApp.c).  The startup script of *)
(* the shell runs it at every boot, with -run or -setcount; it adds one to *)
(* a variable that survives resets, lets the user quit for five seconds    *)
(* and resets the machine.  Power can fail at any time.                    *)
(***************************************************************************)
EXTENDS Naturals, Sequences

CONSTANTS
  Values,       \* the number of values of a UINTN: 2^64
  Arguments,    \* the arguments of -setcount, as sequences of hexadecimal digits
  NoCount       \* the variable does not exist

ASSUME ResetCountAssumption == Values \in Nat \ {0, 1} /\ NoCount \notin Nat
ASSUME ArgumentsAssumption == Arguments \subseteq Seq(0 .. 15)

VARIABLES
  ResetCount,   \* the variable L"ResetCountApp"
  argument,     \* the argument of -setcount in the script, or <<>> for -run
  phase,
  Count,        \* the local of UefiMain
  timedOut,     \* TimeoutEvent is signalled
  keys,         \* the key that waits in ConIn: "none", "q" or "other"
  start,        \* history: the count that all runs since have added to, or NoCount
  runs,         \* history: the runs since then
  resets        \* history: those of them that reset the machine

resetCountVars == <<ResetCount, argument, phase, Count, timedOut, keys, start, runs, resets>>
history == <<start, runs, resets>>

UINTN == 0 .. Values - 1
Smaller(m, n) == IF m <= n THEN m ELSE n

(* The histories stop at the largest count.                                 *)
Up(n) == IF n < Values - 1 THEN n + 1 ELSE n

(* StrHexToUintn: the largest value for one that does not fit.              *)
StrHexToUintn(digits) ==
  LET value[n \in 0 .. Len(digits)] ==
        IF n = 0 THEN 0 ELSE Smaller(16 * value[n - 1] + digits[n], Values - 1)
  IN  value[Len(digits)]

SetCount == StrHexToUintn(argument)

ResetCountInit ==
  /\ ResetCount \in {NoCount, 0, 1}
  /\ argument \in Arguments \cup {<<>>}
  /\ phase = "Boot"
  /\ Count = 0
  /\ timedOut = FALSE
  /\ keys = "none"
  /\ start = ResetCount /\ runs = 0 /\ resets = 0

(* The write of the count: the run goes on only when it succeeds.           *)
Write(count) ==
  \/ ResetCount' = count /\ phase' = "Counted"
  \/ UNCHANGED ResetCount /\ phase' = "Shell"

(* Mutant: the variable gets the count from before this run.                *)
CountAgain_Before ==
  /\ phase = "Boot" /\ ResetCount # NoCount
  /\ Count' = (ResetCount + 1) % Values
  /\ Write(ResetCount)
  /\ runs' = IF phase' = "Counted" THEN Up(runs) ELSE runs
  /\ UNCHANGED <<argument, timedOut, keys, start, resets>>

(* UefiMain reads the variable, adds one and writes it.                     *)
CountAgain ==
  /\ phase = "Boot" /\ ResetCount # NoCount
  /\ Count' = (ResetCount + 1) % Values
  /\ Write(Count')
  /\ runs' = IF phase' = "Counted" THEN Up(runs) ELSE runs
  /\ UNCHANGED <<argument, timedOut, keys, start, resets>>

(* GetVariable fails, because there is no variable or because it can not be *)
(* read.  It leaves Count alone, which has no initial value and may be any; *)
(* UefiMain goes on all the same, and the count starts anew from there.     *)
CountAnew ==
  /\ phase = "Boot"
  /\ \E before \in UINTN :
       /\ Count' = (before + 1) % Values
       /\ Write(Count')
       /\ \/ phase' = "Counted" /\ start' = before /\ runs' = 1 /\ resets' = 0
          \/ phase' = "Shell" /\ UNCHANGED history
  /\ UNCHANGED <<argument, timedOut, keys>>

(* Mutant: the count that is asked for is exceeded by one.                  *)
Reached_Above == argument # <<>> /\ Count > SetCount

Reached == argument # <<>> /\ Count >= SetCount

(* UefiMain after the count, and the start of WaitUserInput; events that    *)
(* can not be created or started also end the run.                          *)
Prompt ==
  /\ phase = "Counted"
  /\ \/ Reached /\ phase' = "Shell"
     \/ ~Reached /\ phase' \in {"CheckTimeout", "Shell"}
  /\ timedOut' = FALSE
  /\ UNCHANGED <<ResetCount, argument, Count, keys, history>>

CheckTimeout ==
  /\ phase = "CheckTimeout"
  /\ phase' = IF timedOut THEN "Stall" ELSE "ReadKey"
  /\ UNCHANGED <<ResetCount, argument, Count, timedOut, keys, history>>

(* Mutant: another key is read at once, without a look at the timer.        *)
ReadKey_Again ==
  /\ phase = "ReadKey"
  /\ phase' = CASE keys = "q" -> "Shell" [] keys = "other" -> "ReadKey" [] OTHER -> "CheckTimeout"
  /\ keys' = "none"
  /\ UNCHANGED <<ResetCount, argument, Count, timedOut, history>>

ReadKey ==
  /\ phase = "ReadKey"
  /\ phase' = IF keys = "q" THEN "Shell" ELSE "CheckTimeout"
  /\ keys' = "none"
  /\ UNCHANGED <<ResetCount, argument, Count, timedOut, history>>

(* ResetSystem, which forgets the keys typed and what memory held.          *)
Restart ==
  /\ phase' = "Boot"
  /\ keys' = "none" /\ timedOut' = FALSE
  /\ Count' = 0

ResetSystem ==
  /\ phase = "Stall"
  /\ Restart
  /\ resets' = Up(resets)
  /\ UNCHANGED <<ResetCount, argument, start, runs>>

UefiMain == CountAgain \/ CountAnew \/ Prompt \/ CheckTimeout \/ ReadKey \/ ResetSystem

(* The timer, the user at the keyboard and the power supply.  -clean writes *)
(* zero, and with it a count that later runs add to.                        *)
Timeout ==
  /\ phase \in {"CheckTimeout", "ReadKey"} /\ ~timedOut
  /\ timedOut' = TRUE
  /\ UNCHANGED <<ResetCount, argument, phase, Count, keys, history>>

Press ==
  /\ phase # "Boot" /\ keys = "none"
  /\ keys' \in {"q", "other"}
  /\ UNCHANGED <<ResetCount, argument, phase, Count, timedOut, history>>

Clean ==
  /\ phase = "Shell"
  /\ Count' = 0 /\ ResetCount' = 0
  /\ start' = 0 /\ runs' = 0 /\ resets' = 0
  /\ UNCHANGED <<argument, phase, timedOut, keys>>

PowerFails == Restart /\ UNCHANGED <<ResetCount, argument, history>>

ResetCountNext == UefiMain \/ Timeout \/ Press \/ Clean \/ PowerFails

(* The processor runs and the timer is served; nothing is asked of the user *)
(* or of the power supply.                                                  *)
ResetCountSpec ==
  /\ ResetCountInit /\ [][ResetCountNext]_resetCountVars
  /\ WF_resetCountVars(Timeout) /\ WF_resetCountVars(CountAgain \/ CountAnew)
  /\ WF_resetCountVars(Prompt) /\ WF_resetCountVars(CheckTimeout \/ ReadKey)
  /\ WF_resetCountVars(ResetSystem)
-----------------------------------------------------------------------------
(* A run that resets the machine is counted, whatever else ends the others: *)
(* since the count started there were never more resets than the variable   *)
(* has gained, before an overflow.  A read that fails starts a new count.   *)
EveryResetIsCounted ==
  start # NoCount /\ start + runs < Values - 1 => start + resets <= ResetCount

(* A script with -setcount resets the machine fewer times than the count    *)
(* that is asked for, as long as the count neither overflows nor starts     *)
(* anew.                                                                    *)
StopsInTime ==
  argument # <<>> /\ start # NoCount /\ start < SetCount /\ start + runs < Values - 1
    => start + resets < SetCount

(* When the power does not fail any more and the variable can be read, a    *)
(* script with -setcount comes to rest, however many keys are pressed at    *)
(* its prompts and wherever the count started (in "Stall" a power failure   *)
(* can not be told from the reset).                                         *)
ComesToRest ==
  (/\ argument # <<>>
   /\ <>[][PowerFails => phase = "Stall"]_resetCountVars
   /\ <>[][CountAnew => ResetCount = NoCount]_resetCountVars)
    => <>[](phase = "Shell")
-----------------------------------------------------------------------------
(* The inductive invariant behind the two.  From the write of the variable  *)
(* to the reset the run is one that is counted and has not reset yet, and   *)
(* the count is what the variable holds; behind the comparison it is below  *)
(* the count asked for.                                                     *)
ResetCountTypeOK ==
  /\ ResetCount \in UINTN \cup {NoCount}
  /\ argument \in Arguments \cup {<<>>}
  /\ phase \in {"Boot", "Counted", "CheckTimeout", "ReadKey", "Stall", "Shell"}
  /\ Count \in UINTN
  /\ start \in UINTN \cup {NoCount}
  /\ runs \in UINTN /\ resets \in UINTN

RunIsCounted == phase \in {"Counted", "CheckTimeout", "ReadKey", "Stall"}

RunsAreCounted ==
  start # NoCount /\ start + runs < Values - 1 =>
    /\ ResetCount = start + runs
    /\ resets <= runs
    /\ RunIsCounted => Count = ResetCount /\ resets < runs

BelowSetCount ==
  phase \in {"CheckTimeout", "ReadKey", "Stall"} /\ argument # <<>> => Count < SetCount

ResetCountInv == ResetCountTypeOK /\ RunsAreCounted /\ BelowSetCount /\ StopsInTime
=============================================================================
