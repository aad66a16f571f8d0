------------------------------ MODULE Loopback ------------------------------
(***************************************************************************)
(* The singleton port: who listens on it, and the TCP connections made to  *)
(* it over the loopback interface, where what one end sends is at the      *)
(* other end when the call returns.                                        *)
(*                                                                         *)
(* Nothing here is code of the project: it is what bind(2), listen(2),     *)
(* accept(2), connect(2), tcp(7) and socket(7) say of the calls it makes.  *)
(***************************************************************************)
EXTENDS Naturals, Sequences

CONSTANTS
    Starter,  \* runs of reportmand, each of them the daemon or on its way there
    Client,   \* runs of reportmanc, one connection each
    Backlog   \* listen()'s backlog (5 in the code): one more connection fits

ASSUME StarterAssumption == "nobody" \notin Starter \cup Client
ASSUME BacklogAssumption == Backlog \in Nat

VARIABLES
    listener,  \* the run that listens on the port, or nobody
    backlog,   \* connections not accepted yet, oldest first
    link,      \* the daemon's end of each connection
    cend,      \* the client's end of each connection
    toD, toC,  \* what has been sent to an end and not been read
    reset,     \* the daemon's end has been sent a RST
    eof        \* what the client meets behind toC

portVars == <<listener, backlog, link, cend, toD, toC, reset, eof>>

Link == {"none", "queued", "open", "lingers", "closed"}

PortTypeOK ==
    /\ listener \in Starter \cup {"nobody"}
    /\ backlog \in Seq(Client) /\ Len(backlog) <= Backlog + 1
    /\ link \in [Client -> Link]
    /\ cend \in [Client -> {"none", "open", "closed"}]
    /\ reset \in [Client -> BOOLEAN]
    /\ eof \in [Client -> {"no", "fin", "rst", "broken"}]

PortInit ==
    /\ listener = "nobody"
    /\ backlog = <<>>
    /\ link = [c \in Client |-> "none"]
    /\ cend = [c \in Client |-> "none"]
    /\ toD = [c \in Client |-> <<>>]
    /\ toC = [c \in Client |-> <<>>]
    /\ reset = [c \in Client |-> FALSE]
    /\ eof = [c \in Client |-> "no"]

\* bind() without SO_REUSEADDR: nobody listens, and no connection of an earlier
\* daemon has its end on the port, not even in FIN_WAIT2 or TIME_WAIT.
PortFree == listener = "nobody" /\ \A c \in Client : link[c] \notin {"open", "lingers"}

Listen(s) ==
    /\ PortFree
    /\ listener' = s
    /\ UNCHANGED <<backlog, link, cend, toD, toC, reset, eof>>

-----------------------------------------------------------------------------
(* The client's end.                                                       *)

Connect(c) ==
    /\ listener # "nobody"
    /\ Len(backlog) <= Backlog
    /\ backlog' = Append(backlog, c)
    /\ link' = [link EXCEPT ![c] = "queued"]
    /\ cend' = [cend EXCEPT ![c] = "open"]
    /\ UNCHANGED <<listener, toD, toC, reset, eof>>

\* Writing to an end that has sent its FIN succeeds once and is answered by a
\* RST, which also ends what the closed end had left on the port.
ClientSends(c, m) ==
    /\ eof[c] \in {"no", "fin"}
    /\ IF eof[c] = "no"
       THEN toD' = [toD EXCEPT ![c] = Append(@, m)] /\ UNCHANGED <<link, eof>>
       ELSE /\ eof' = [eof EXCEPT ![c] = "broken"]
            /\ link' = [link EXCEPT ![c] = "closed"]
            /\ UNCHANGED toD
    /\ UNCHANGED <<listener, backlog, cend, toC, reset>>

\* An end that is closed with something unread sends a RST.
ClientCloses(c) ==
    /\ cend' = [cend EXCEPT ![c] = "closed"]
    /\ toC' = [toC EXCEPT ![c] = <<>>]
    /\ reset' = [reset EXCEPT ![c] = @ \/ toC[c] # <<>>]
    /\ link' = [link EXCEPT ![c] = IF @ = "lingers" /\ toC[c] # <<>> THEN "closed" ELSE @]
    /\ UNCHANGED <<listener, backlog, toD, eof>>

-----------------------------------------------------------------------------
(* The daemon's end.                                                       *)

AcceptFirst ==
    /\ backlog # <<>>
    /\ backlog' = Tail(backlog)
    /\ link' = [link EXCEPT ![Head(backlog)] = "open"]
    /\ UNCHANGED <<listener, cend, toD, toC, reset, eof>>

DaemonReads(c) ==
    /\ toD[c] # <<>>
    /\ toD' = [toD EXCEPT ![c] = <<>>]
    /\ UNCHANGED <<listener, backlog, link, cend, toC, reset, eof>>

\* EPIPE and SIGPIPE: the end has been reset, by an earlier write or a close.
Broken(c) == cend[c] = "closed" /\ reset[c]

DaemonSends(c, m) ==
    /\ IF cend[c] = "open"
       THEN toC' = [toC EXCEPT ![c] = Append(@, m)] /\ UNCHANGED reset
       ELSE reset' = [reset EXCEPT ![c] = TRUE] /\ UNCHANGED toC
    /\ UNCHANGED <<listener, backlog, link, cend, toD, eof>>

\* What closing the daemon's end of c leaves behind: nothing, if the client's
\* end was closed first; a reset, if a command was unread; else a FIN, and an
\* end that stays on the port for a while.
LeftBehind(c) == IF cend[c] = "closed" THEN <<"closed", eof[c]>>
                 ELSE IF toD[c] # <<>> THEN <<"closed", "rst">>
                 ELSE <<"lingers", "fin">>

\* The ends of the connections C are closed by the daemon, or its exit.
DaemonCloses(C) ==
    /\ link' = [c \in Client |-> IF c \in C THEN LeftBehind(c)[1] ELSE link[c]]
    /\ eof' = [c \in Client |-> IF c \in C THEN LeftBehind(c)[2] ELSE eof[c]]
    /\ toD' = [c \in Client |-> IF c \in C THEN <<>> ELSE toD[c]]
    /\ UNCHANGED <<listener, backlog, cend, toC, reset>>

\* s has closed the listening socket, and the connection to C, or is gone.
\* Connections nobody has accepted are reset.
StopsListening(s, C) ==
    LET Q == IF listener = s THEN {c \in Client : link[c] = "queued"} ELSE {} IN
    /\ listener' = IF listener = s THEN "nobody" ELSE listener
    /\ backlog' = IF listener = s THEN <<>> ELSE backlog
    /\ link' = [c \in Client |-> CASE c \in Q -> "closed" [] c \in C -> LeftBehind(c)[1]
                                   [] OTHER -> link[c]]
    /\ eof' = [c \in Client |-> CASE c \in Q -> "rst" [] c \in C -> LeftBehind(c)[2]
                                  [] OTHER -> eof[c]]
    /\ toD' = [c \in Client |-> IF c \in C \cup Q THEN <<>> ELSE toD[c]]
    /\ UNCHANGED <<cend, toC, reset>>

\* A minute later.
LingerEnds(c) ==
    /\ link[c] = "lingers"
    /\ link' = [link EXCEPT ![c] = "closed"]
    /\ UNCHANGED <<listener, backlog, cend, toD, toC, reset, eof>>
=============================================================================
