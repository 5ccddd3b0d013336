----------------------------- MODULE MCJournal ------------------------------
(* Sizes of the messages, in words, for the instances of Journal that TLC  *)
(* checks: one longer than the file, the others of different lengths.      *)
EXTENDS Journal

CONSTANTS short, long, huge

MessageSize == [m \in Messages |->
    IF m = short THEN 1 ELSE IF m = long THEN 2 ELSE Capacity]
=============================================================================
