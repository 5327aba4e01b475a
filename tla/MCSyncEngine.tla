---------------------------- MODULE MCSyncEngine ----------------------------
EXTENDS SyncEngine

\* The last document may be read by the first node alone.
MCReaders ==
    [d \in Doc |-> IF Cardinality(Doc) > 1 /\ \A e \in Doc : e <= d THEN {1} ELSE Origin]

=============================================================================
