------------------------------- MODULE Reports -------------------------------
(***************************************************************************)
(* What reportman promises to those who put reports into the reports       *)
(* directory: the directory is theirs.  A report is replaced, grows block  *)
(* by block and is closed when all of it is there, and no backup, transfer *)
(* or crash adds, changes or takes a byte of it at any time.  Transfer     *)
(* implements this.                                                        *)
(***************************************************************************)
EXTENDS Naturals, Sequences

CONSTANTS
    Name,  \* names of reports
    Size   \* blocks of a complete report

VARIABLES
    text,  \* the blocks of each report in the directory
    open,  \* the report that is being written, if there is one, as a set
    count  \* uploads so far; the number of an upload is what its blocks hold

reportsState == <<text, open, count>>

Init ==
    /\ text = [n \in Name |-> <<>>]
    /\ open = {}
    /\ count = 0

Replace(n) ==
    /\ open = {}
    /\ open' = {n}
    /\ text' = [text EXCEPT ![n] = <<>>]
    /\ count' = count + 1

Write(n) ==
    /\ open = {n}
    /\ Len(text[n]) < Size
    /\ text' = [text EXCEPT ![n] = Append(@, count)]
    /\ UNCHANGED <<open, count>>

Close(n) ==
    /\ open = {n}
    /\ Len(text[n]) = Size
    /\ open' = {}
    /\ UNCHANGED <<text, count>>

Next == \E n \in Name : Replace(n) \/ Write(n) \/ Close(n)

Spec == Init /\ [][Next]_reportsState
=============================================================================
