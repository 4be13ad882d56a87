----------------------------- MODULE JsonLines ------------------------------
(***************************************************************************)
(* A file of JSON lines that is appended to and read back, as              *)
(* execution_ledger.py and decision_ledger.py keep theirs.  An append      *)
(* reaches the file in one piece or, when the line is longer than the      *)
(* buffer, in two, and the program may die between them.  A reader passes  *)
(* over every line that does not parse.                                    *)
(***************************************************************************)
EXTENDS Naturals, Sequences

Whole(entry) == [entry |-> entry, part |-> "whole"]
Begun(entry) == [entry |-> entry, part |-> "begun"]
Rest(entry) == [entry |-> entry, part |-> "rest"]

\* Does a line begin after the first i pieces?
LineBegins(file, i) == i = 0 \/ file[i].part # "begun"

\* The entries that the lines of the file parse to.
Readable(file) ==
    {file[i].entry : i \in
        {j \in DOMAIN file :
            \/ file[j].part = "whole" /\ LineBegins(file, j - 1)
            \/ /\ file[j].part = "rest" /\ j > 1
               /\ file[j - 1] = [entry |-> file[j].entry, part |-> "begun"]
               /\ LineBegins(file, j - 2)}}

=============================================================================
