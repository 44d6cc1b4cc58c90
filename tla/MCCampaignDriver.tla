-------------------------- MODULE MCCampaignDriver --------------------------
(***************************************************************************)
(* Instances of CampaignDriver: two or three owners that share one host    *)
(* with room for one, so that every place is fought over.                  *)
(***************************************************************************)
EXTENDS CampaignDriver

TwoOwners == <<1, 2>>
OneHost == [p \in {1, 2} |-> "h"]
RoomForOne == [h \in {"h"} |-> 1]

\* The versions are alike, so the first owner's may be any one of them at the start.
InitUpToNames == Init /\ mem[1].version = CHOOSE v \in Versions : TRUE
SpecUpToNames == InitUpToNames /\ [][Next]_vars /\ Fairness
=============================================================================
