---------------------------- MODULE MCObservation ----------------------------
(* Instances of Observation for TLC.  A minute is two ticks. *)
EXTENDS Observation

Intervals == [s \in Series |-> IF s = "heartbeat" THEN 0
                               ELSE IF s = "bloat" THEN 5 ELSE 3]
Thresholds == [s \in Series |-> IF s = "heartbeat" THEN 5
                                ELSE IF s = "bloat" THEN 8 ELSE 6]

\* Thresholds that leave room for an execution longer than the period.
RoomyThresholds == [s \in Series |-> Thresholds[s] + 2]
=============================================================================
