------------------------------- MODULE MCTables -------------------------------
(* Hot Store tables before and after the metadata columns, a table without *)
(* DEDUP, one with a column of the wrong type and one with a column nobody *)
(* asked for; a history table that is there or not.  And the rows the      *)
(* tables may show.                                                        *)
EXTENDS TableReaders, SampleRows, TLC

A(source_id, event_subtype) == [source_id |-> source_id, event_subtype |-> event_subtype]
MCAddable == {"source_id", "event_subtype"}
MCTableOf == [a \in HotStores \cup Writers |->
                 IF a \in HotStores THEN "hot_capture_facts" ELSE "truth_decisions"]

Current == [present |-> TRUE, physical |-> TRUE, keys |-> TRUE, required |-> TRUE,
            added |-> A("right", "right"), extra |-> FALSE]
Absent == [Current EXCEPT !.present = FALSE]
Older == [Current EXCEPT !.added = A("absent", "absent")]
Retyped == [Current EXCEPT !.added = A("absent", "wrong")]
NoDedup == [Current EXCEPT !.physical = FALSE]
Widened == [Older EXCEPT !.extra = TRUE]

MCInitialTables ==
    [n \in Tables |->
        IF n = HotTable THEN {Absent, Older, Retyped, NoDedup, Widened, Current}
        ELSE {Absent, Current}]

Symmetry == Permutations(HotStores)
=============================================================================
