---------------------------- MODULE MCOutboxWorker ----------------------------
(* Small instance of OutboxWorker.                                          *)
EXTENDS OutboxWorker

CONSTANTS later, tired, bad

\* A row that is due later, a row that used up its attempts up to the largest
\* integer, and a row with an infinite timestamp.
MCAvailableAt == [e \in Events |-> CASE e = later -> 1 [] e = bad -> Never [] OTHER -> 0]
MCAttempted == [e \in Events |-> IF e = tired THEN IntegerMax ELSE 0]
===============================================================================
