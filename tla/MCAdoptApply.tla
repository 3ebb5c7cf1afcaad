----------------------------- MODULE MCAdoptApply -----------------------------
(***************************************************************************)
(* Small instances of AdoptApply: one destination of each kind, two        *)
(* releases whose slot guidance differs, two days.                         *)
(***************************************************************************)
EXTENDS AdoptApply, TLC

MCGuidance   == <<1, 2>>
MCRfcAnchors == <<"rfc.first-day", "rfc.second-day">>

===============================================================================
