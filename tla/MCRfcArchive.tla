------------------------------ MODULE MCRfcArchive ------------------------------
(***************************************************************************)
(* Model values for RfcArchive: one RFC of day 2, still active, archived,  *)
(* or archived a day later in other words.                                 *)
(***************************************************************************)
EXTENDS RfcArchive

MCFileDate == [n \in Notes |-> 2]

Written(text, archived) == [text |-> text, archived |-> archived]

MCTexts == {Written(1, 0), Written(1, 2), Written(2, 3)}

================================================================================
