------------------------ MODULE MCWindowAggregation -------------------------
(***************************************************************************)
(* WindowAggregation for TLC: every kind of window, each with one          *)
(* combination of triggers.                                                *)
(***************************************************************************)
EXTENDS WindowAggregation

Case(win, thread, func, a, g) == [win |-> win, thread |-> thread, func |-> func, agg |-> a, grp |-> g]

MCConfigs ==
    {Case("SlidingRow", FALSE, FALSE, "TriggerByTime", "TriggerByTime"),
     Case("SlidingRange", FALSE, FALSE, "TriggerByTimestamp", "TriggerAll"),
     Case("SlidingRange", TRUE, FALSE, "TriggerByCount", "TriggerAll"),
     Case("SlidingRange", TRUE, FALSE, "TriggerByTime", "TriggerByTime"),
     Case("TumblingRange", FALSE, FALSE, "TriggerAll", "TriggerAll"),
     Case("TumblingRow", FALSE, FALSE, "TriggerByCount", "TriggerAll"),
     Case("TumblingRow", FALSE, TRUE, "TriggerAll", "TriggerAll"),
     Case("TumblingRange", FALSE, TRUE, "TriggerAll", "TriggerAll"),
     Case("SlidingRow", FALSE, TRUE, "TriggerAll", "TriggerAll")}
=============================================================================
