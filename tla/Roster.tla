------------------------------- MODULE Roster -------------------------------
(***************************************************************************)
(* What reportmand promises about its helpers, without its loop, pipes,    *)
(* probes or signals: each role is filled by one process at a time, a      *)
(* process is only ever replaced after it has died, a role is filled so    *)
(* many times and no more, and nothing is started once the daemon is on    *)
(* its way out. Supervision implements this.                               *)
(***************************************************************************)
EXTENDS Naturals

CONSTANTS
    Role,   \* the helpers, by their executables
    First,  \* the one that is started first
    Limit   \* how often a role may be filled

VARIABLES
    state,   \* of each role: vacant before its first start, then running or dead
    starts,  \* how often it has been filled
    over     \* the daemon is ending

rosterState == <<state, starts, over>>

Init ==
    /\ state = [c \in Role |-> "vacant"]
    /\ starts = [c \in Role |-> 0]
    /\ over = FALSE

\* A role nobody is in is filled; the first role comes first.
Fill(c) ==
    /\ ~over
    /\ state[c] # "running"
    /\ starts[c] < Limit
    /\ c # First => starts[First] > 0
    /\ state' = [state EXCEPT ![c] = "running"]
    /\ starts' = [starts EXCEPT ![c] = @ + 1]
    /\ UNCHANGED over

\* Some of the running processes die; the daemon may end over it, or by itself.
Lose(S) ==
    /\ state' = [c \in Role |-> IF c \in S THEN "dead" ELSE state[c]]
    /\ over' \in {over, TRUE}
    /\ UNCHANGED starts

Next ==
    \/ \E c \in Role : Fill(c)
    \/ \E S \in SUBSET {c \in Role : state[c] = "running"} : Lose(S)

Spec == Init /\ [][Next]_rosterState
=============================================================================
