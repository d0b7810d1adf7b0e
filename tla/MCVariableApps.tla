--------------------------- MODULE MCVariableApps ---------------------------
(* Machines on which one of the two applications that keep variables is     *)
(* used; the variables of the other one do not exist.  Options: two paths.  *)
(* Counts: a UINTN of eight values; -setcount 1, 3 and "10", which does not *)
(* fit.                                                                     *)
EXTENDS BootOption, ResetCountApp

TheArguments == {<<1>>, <<3>>, <<1, 0>>}

VARIABLE application

appVars == <<vars, resetCountVars, application>>

BootOptionRuns(step) == application = "BootOption" /\ step /\ UNCHANGED <<resetCountVars, application>>
ResetCountRuns(step) == application = "ResetCountApp" /\ step /\ UNCHANGED <<vars, application>>

MCInit ==
  /\ Init /\ ResetCountInit
  /\ \/ application = "BootOption" /\ ResetCount = NoCount /\ argument = <<>>
     \/ application = "ResetCountApp" /\ BootOrder = NoVariable

MCNext ==
  \/ BootOptionRuns(GetNewBootIndex) \/ BootOptionRuns(SetFirstBootOrder)
  \/ BootOptionRuns(SetBootOrder) \/ BootOptionRuns(AddBootOption)
  \/ BootOptionRuns(DumpAllBootOption) \/ BootOptionRuns(Delete) \/ BootOptionRuns(Reset)
  \/ ResetCountRuns(CountAgain) \/ ResetCountRuns(CountAnew) \/ ResetCountRuns(Prompt)
  \/ ResetCountRuns(CheckTimeout) \/ ResetCountRuns(ReadKey) \/ ResetCountRuns(ResetSystem)
  \/ ResetCountRuns(Timeout) \/ ResetCountRuns(Press) \/ ResetCountRuns(Clean)
  \/ ResetCountRuns(PowerFails)

(* The fairness of ResetCountSpec.                                          *)
MCSpec ==
  /\ MCInit /\ [][MCNext]_appVars
  /\ WF_appVars(ResetCountRuns(Timeout)) /\ WF_appVars(ResetCountRuns(CountAgain \/ CountAnew))
  /\ WF_appVars(ResetCountRuns(Prompt)) /\ WF_appVars(ResetCountRuns(CheckTimeout \/ ReadKey))
  /\ WF_appVars(ResetCountRuns(ResetSystem))
=============================================================================
