------------------------------ MODULE MCScans ------------------------------
(* Values for the constants of Scans: a tool that reads, one that deletes  *)
(* though it lists too, and one whose name runs something; two controls    *)
(* and a clause; and replies that differ from what the code would say.     *)
EXTENDS Scans

CONSTANTS t1

getRecord == [name |-> {"get"}, description |-> {"get", "a", "record"}]
listTrash == [name |-> {"list_trash"}, description |-> {"list", "what", "to", "delete"}]
runReport == [name |-> {"run"}, description |-> {"read", "a", "report"}]

ThreeTools == {getRecord, listTrash, runReport}

TwoControls == [sch |-> "data", own |-> "autonomy"]
OneClause == [cl |-> "liability"]

AllReadOnly == {{[tool |-> t, safety |-> "read_only"] : t \in ThreeTools}
                  \cup {[tool |-> getRecord, safety |-> "harmless"]}}
OneFails == {[sch |-> "fail", none |-> "pass"]}
Grave == {[data |-> 100, autonomy |-> 140, liability |-> 90, security_posture |-> 95]}
=============================================================================
