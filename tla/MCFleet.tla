------------------------------- MODULE MCFleet ------------------------------
(* Two files and one in a subdirectory; every limit is met once.            *)
EXTENDS Fleet
MCOrder == <<"a", "s/c", "t">>
MCLimits ==
    LET all == [entries |-> 4, depth |-> 1, records |-> 3, file |-> 2, read |-> 6, events |-> 6]
    IN {all, [all EXCEPT !.entries = 3], [all EXCEPT !.depth = 0], [all EXCEPT !.records = 2],
        [all EXCEPT !.file = 1], [all EXCEPT !.read = 3], [all EXCEPT !.events = 3]}
=============================================================================
