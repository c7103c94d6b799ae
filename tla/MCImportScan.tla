---------------------------- MODULE MCImportScan ----------------------------
(* ImportScan over two logs of MaxLines lines each.                        *)
EXTENDS ImportScan, TLC

CONSTANT MaxLines

TwoFiles == {1, 2}
MCTime == {1, 2}
MCCompletion == {"Complete", "Abandon"}

(* The lines of a log carry the number of the log as their time, which     *)
(* tells one log's runs from the other's.                                  *)
MCNext ==
  /\ ImportNext
  /\ pc' = "scan" =>
       /\ Len(lines') <= MaxLines
       /\ \A k \in DOMAIN lines' : lines'[k].kind # "marker" => lines'[k].ts = Head(todo')

MCSpec == ImportInit /\ [][MCNext]_vars

Symmetry == Permutations(Guid)
=============================================================================
