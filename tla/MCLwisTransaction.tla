------------------------- MODULE MCLwisTransaction -------------------------
EXTENDS LwisTransaction

CONSTANTS t1, t2, t3, f1, i1, h1

Row(trigger, entries) ==
    [trigger |-> trigger, fence |-> IF trigger = "fence" THEN f1 ELSE None,
     in_event_context |-> FALSE, high_priority |-> FALSE, entries |-> entries]
InContext(row) == [row EXCEPT !.in_event_context = TRUE]
Urgent(row) == [row EXCEPT !.high_priority = TRUE]

\* An immediate transaction of two runs, one that events trigger, one of high priority with
\* a fence or for the cleanup.
Mixed ==
    [t \in {t1, t2, t3} |->
        IF t = t1 THEN {Row("none", 2)}
        ELSE IF t = t2 THEN {Row("every", 1), InContext(Row("next", 1))}
        ELSE {Urgent(Row("fence", 1)), Row("cleanup", 1)}]
EventDriven == [t \in {t1, t2} |-> IF t = t1 THEN {Row("none", 1)} ELSE {Row("next", 1)}]
Repeated == [t \in {t1} |-> {Row("every", 1)}]
Immediate ==
    [t \in {t1, t2} |-> {Row("none", 2), Urgent(Row("none", 2)), Row("cleanup", 1)}]
Fenced == [t \in {t1, t2} |-> {Row("fence", 1)}]
=============================================================================
