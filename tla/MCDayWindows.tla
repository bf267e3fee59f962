---------------------------- MODULE MCDayWindows -----------------------------
(* Two dates, three promised stops and a new customer along one road.  A     *)
(* unit is a quarter of the narrowest delivery slot.                         *)
EXTENDS DayWindows

CONSTANTS a, b, c, o, depot

Place == [x \in {a, b, c, o, depot} |->
            CASE x = a -> 1 [] x = b -> 2 [] x = c -> 1 [] x = o -> 3 [] OTHER -> 0]
Distance == [x, y \in DOMAIN Place |->
               IF Place[x] > Place[y] THEN Place[x] - Place[y] ELSE Place[y] - Place[x]]
Visits == [x \in {a, b, c, o} |-> IF x = o THEN 2 ELSE 1]
Days == 1 .. 2
OnRoute == <<{a, b}, {c}>>
Parts == <<[start |-> 1, end |-> 5], [start |-> 5, end |-> 8], [start |-> 8, end |-> 12]>>
Promises == {[start |-> 1, end |-> 5], [start |-> 7, end |-> 10]}
Times == {[start |-> 0, end |-> 14], [start |-> 5, end |-> 8]}
=============================================================================
