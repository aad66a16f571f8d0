----------------------------- MODULE MCSchedule -----------------------------
(* A short day with the two default times, and daylight saving both ways.  *)
EXTENDS Schedule

Times   == [m \in Method |-> IF m = "backup" THEN 1 ELSE 4]
OneHour == {-1, 1}
=============================================================================
