---------------------------- MODULE MCEmailDigest ----------------------------
(***************************************************************************)
(* Days of four hours; every kind of schedule with early and late hours,   *)
(* and no quiet hours, a window within the day, or one past midnight.      *)
(***************************************************************************)
EXTENDS EmailDigest

AllSchedules == {[kind |-> k, hour |-> h] : k \in {"daily", "cron"}, h \in {1, 3}}
                \cup {[kind |-> k, hour |-> 0] : k \in {"immediate", "hourly"}}
AllWindows   == {<<0, 0>>, <<1, 2>>, <<3, 1>>}
MCWanted     == {1, 2, 4}
MCCritical   == {2}
=============================================================================
