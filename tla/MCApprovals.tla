----------------------------- MODULE MCApprovals -----------------------------
(* Approvals on a small instance. *)
EXTENDS Approvals, TLC

(* Two approvals whose keys are both mail-beta-read, and one with its own. *)
MCClient == {<<"mail">>, <<"mail", "beta">>}
MCScope == {<<"read">>, <<"beta", "read">>}
MCApproval == {<< <<"mail">>, <<"beta", "read">> >>,
               << <<"mail", "beta">>, <<"read">> >>,
               << <<"mail">>, <<"read">> >>}

(* Tabs are interchangeable. *)
Symmetry == Permutations(Tab)
=============================================================================
