---------------------------- MODULE MCAvStartup ----------------------------
(* An audio queue that bridges the longest delay of the first picture, and  *)
(* a video queue that does not bridge a late beginning of the sound.        *)
EXTENDS AvStartup

MCQueueMax == [m \in AV |-> IF m = "audio" THEN 5 ELSE 1]
=============================================================================
