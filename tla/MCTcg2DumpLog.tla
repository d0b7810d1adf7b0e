---------------------------- MODULE MCTcg2DumpLog ----------------------------
(***************************************************************************)
(* A TPM with two PCRs and three banks, one of which the application can   *)
(* not compute; command lines with -I, -L and -E in all combinations,      *)
(* -BIN, -PARSE, -A and -C, and one for a PCR that is not there; areas     *)
(* with room for no event at all up to all of them.                        *)
(***************************************************************************)
EXTENDS Tcg2DumpLog

Plain == [I |-> PCR_INDEX_ALL, L |-> {"TCG_1_2", "TCG_2"}, E |-> FALSE,
          BIN |-> FALSE, PARSE |-> FALSE, A |-> FALSE, C |-> FALSE]

MCQuestions ==
  {[Plain EXCEPT !.I = i, !.L = l, !.E = e] :
     i \in {PCR_INDEX_ALL, 1}, l \in {{"TCG_2"}, {"TCG_1_2", "TCG_2"}}, e \in BOOLEAN}
    \cup {[Plain EXCEPT !.L = l, !.BIN = TRUE] : l \in {{"TCG_2"}, {"TCG_1_2", "TCG_2"}}}
    \cup {[Plain EXCEPT !.I = MAX_PCR_INDEX + 1],
          [Plain EXCEPT !.PARSE = TRUE], [Plain EXCEPT !.A = TRUE], [Plain EXCEPT !.C = TRUE]}

MCBanks == {"SHA1", "SHA256", "SHA384"}

(* An event in all banks, one of a component that knows only one bank, and *)
(* one that is not extended.                                               *)
MCEventKinds ==
  {[EventType |-> "other", digests |-> MCBanks], [EventType |-> "other", digests |-> {"SHA1"}],
   [EventType |-> "EV_NO_ACTION", digests |-> MCBanks]}

MCRooms == 0 .. MaxMeasured

MCRoots == {NULL, <<"other", NULL, "TPM2">>}
=============================================================================
