--------------------------- MODULE ClientSession ----------------------------
(***************************************************************************)
(* reportmanc, and the session the loop of reportmand has with it: accept, *)
(* ten seconds of select(), read, __handle_command() and write, one client *)
(* at a time.                                                              *)
(***************************************************************************)
EXTENDS Loopback

CONSTANTS
    MaxFaults  \* bound: calls that fail, clients interrupted, signals from outside

ASSUME FaultAssumption == MaxFaults \in Nat

VARIABLES
    pc,       \* where each reportmand is
    serving,  \* its client_fd: the client of the session, or nobody
    reply,    \* response.response, between __handle_command() and write()
    close,    \* __client_request_close
    script,   \* the commands each reportmanc was given
    cpc,      \* where each reportmanc is
    sent,     \* how many commands it has written
    printed,  \* what it has printed for them
    pipe,     \* history: the clients over whose connection SIGPIPE came
    faults    \* how many faults there have been

sessionVars == <<serving, reply, close, pipe>>
clientVars  == <<script, cpc, sent, printed>>

Known == {"backup", "transfer", "get_timers", "close"}
Bye == "Timeout reached"
Reply == Known \cup {"unknown", Bye}

SessionTypeOK ==
    /\ serving \in [Starter -> Client \cup {"nobody"}]
    /\ reply \in [Starter -> Reply \cup {"none"}]
    /\ close \in [Starter -> BOOLEAN]
    /\ script \in [Client -> Seq(Known \cup {"unknown"})]
    /\ cpc \in [Client -> {"idle", "write", "read", "done", "failed", "killed"}]
    /\ sent \in [Client -> Nat] /\ \A c \in Client : sent[c] <= Len(script[c])
    /\ printed \in [Client -> Seq(Seq(Reply))]
    /\ pipe \subseteq Client
    /\ faults \in 0 .. MaxFaults

SessionInit ==
    /\ serving = [s \in Starter |-> "nobody"]
    /\ reply = [s \in Starter |-> "none"]
    /\ close = [s \in Starter |-> FALSE]
    /\ cpc = [c \in Client |-> "idle"]
    /\ sent = [c \in Client |-> 0]
    /\ printed = [c \in Client |-> <<>>]
    /\ pipe = {}
    /\ faults = 0

Fault == faults < MaxFaults /\ faults' = faults + 1

-----------------------------------------------------------------------------
(* reportmanc.                                                             *)

\* Without a command there is no connection. Without a listener connect() is
\* refused; with a full backlog it gives up.
ConnectToDaemon(c) ==
    /\ cpc[c] = "idle"
    /\ script[c] # <<>>
    /\ \/ Connect(c) /\ cpc' = [cpc EXCEPT ![c] = "write"]
       \/ /\ listener = "nobody" \/ Len(backlog) > Backlog
          /\ cpc' = [cpc EXCEPT ![c] = "failed"]
          /\ UNCHANGED portVars
    /\ UNCHANGED <<pc, sessionVars, script, sent, printed, faults>>

\* error(), SIGPIPE, or the end of main(): the connection is closed.
ClientEnds(c, how) == ClientCloses(c) /\ cpc' = [cpc EXCEPT ![c] = how]

WriteCommand(c) ==
    /\ cpc[c] = "write"
    /\ sent[c] < Len(script[c])
    /\ \/ /\ ClientSends(c, script[c][sent[c] + 1])
          /\ sent' = [sent EXCEPT ![c] = @ + 1]
          /\ cpc' = [cpc EXCEPT ![c] = "read"]
       \/ /\ eof[c] \in {"rst", "broken"}
          /\ ClientEnds(c, "failed")
          /\ UNCHANGED sent
    /\ UNCHANGED <<pc, sessionVars, script, printed, faults>>

\* Variant: the buffer is not cleared, and keeps what it held if nothing comes.
BufferKept(c) == IF toC[c] = <<>> /\ printed[c] # <<>> THEN printed[c][Len(printed[c])]
                 ELSE toC[c]

\* The buffer is cleared before each read: nothing is printed for nothing.
BufferRead(c) == toC[c]

\* One read() for one command; it brings all there is.
ReadReply(c) ==
    /\ cpc[c] = "read"
    /\ \/ /\ toC[c] # <<>> \/ eof[c] \in {"fin", "broken"}
          /\ printed' = [printed EXCEPT ![c] = Append(@, BufferRead(c))]
          /\ toC' = [toC EXCEPT ![c] = <<>>]
          /\ cpc' = [cpc EXCEPT ![c] = "write"]
          /\ UNCHANGED <<listener, backlog, link, cend, toD, reset, eof>>
       \/ /\ toC[c] = <<>> /\ eof[c] = "rst"
          /\ ClientEnds(c, "failed")
          /\ UNCHANGED printed
    /\ UNCHANGED <<pc, sessionVars, script, sent, faults>>

CloseAndExit(c) ==
    /\ cpc[c] = "write"
    /\ sent[c] = Len(script[c])
    /\ ClientEnds(c, "done")
    /\ UNCHANGED <<pc, sessionVars, script, sent, printed, faults>>

\* Whoever started it interrupts it.
Interrupt(c) ==
    /\ cpc[c] \in {"write", "read"}
    /\ Fault
    /\ ClientEnds(c, "killed")
    /\ UNCHANGED <<pc, sessionVars, script, sent, printed>>

ClientStep(c) == WriteCommand(c) \/ ReadReply(c) \/ CloseAndExit(c)

-----------------------------------------------------------------------------
(* The session, in the loop of __listen_to_clients().                      *)

\* The client's turn in the body of the loop.
AcceptClient(s) ==
    /\ pc[s] = "poll"
    /\ listener = s
    /\ AcceptFirst
    /\ serving' = [serving EXCEPT ![s] = Head(backlog)]
    /\ pc' = [pc EXCEPT ![s] = "select"]
    /\ UNCHANGED <<reply, close, pipe, clientVars, faults>>

\* parse_command() of all that one read() brings.
Answer(commands) ==
    IF Len(commands) = 1 /\ commands[1] \in Known THEN commands[1] ELSE "unknown"

\* Variant: an end of file is handled as a command, too.
HandleAnything(s) ==
    LET c == serving[s] IN
    /\ pc[s] \in {"select", "read"}
    /\ toD[c] # <<>> \/ cend[c] = "closed"
    /\ toD' = [toD EXCEPT ![c] = <<>>]
    /\ reply' = [reply EXCEPT ![s] = Answer(toD[c])]
    /\ close' = [close EXCEPT ![s] = @ \/ Answer(toD[c]) = "close"]
    /\ pc' = [pc EXCEPT ![s] = "reply"]
    /\ UNCHANGED <<listener, backlog, link, cend, toC, reset, eof, serving, pipe,
                   clientVars, faults>>

\* read() and __handle_command(): close is only noted.
HandleCommand(s) ==
    LET c == serving[s] IN
    /\ pc[s] \in {"select", "read"}
    /\ DaemonReads(c)
    /\ reply' = [reply EXCEPT ![s] = Answer(toD[c])]
    /\ close' = [close EXCEPT ![s] = @ \/ Answer(toD[c]) = "close"]
    /\ pc' = [pc EXCEPT ![s] = "reply"]
    /\ UNCHANGED <<serving, pipe, clientVars, faults>>

\* write() to the client. When the pipe is broken __handle_sigpipe() crashes, if
\* __current_process is NULL, or the error is not looked at.
WriteTo(s, m, next) ==
    LET c == serving[s] IN
    IF Broken(c)
    THEN /\ pipe' = pipe \cup {c}
         /\ \E then \in {next, "dying"} : pc' = [pc EXCEPT ![s] = then]
         /\ UNCHANGED portVars
    ELSE /\ DaemonSends(c, m)
         /\ pc' = [pc EXCEPT ![s] = next]
         /\ UNCHANGED pipe

WriteReply(s) ==
    /\ pc[s] = "reply"
    /\ WriteTo(s, reply[s], "select")
    /\ reply' = [reply EXCEPT ![s] = "none"]
    /\ UNCHANGED <<serving, close, clientVars, faults>>

\* read() returns 0 (at once, or after an ECONNRESET that is only logged), or the
\* ten seconds are over: the farewell is the same.
NothingMore(s) ==
    /\ pc[s] = "select"
    /\ toD[serving[s]] = <<>>
    /\ pc' = [pc EXCEPT ![s] = "bye"]
    /\ UNCHANGED <<portVars, sessionVars, clientVars, faults>>

WriteBye(s) ==
    /\ pc[s] = "bye"
    /\ WriteTo(s, Bye, "hangup")
    /\ UNCHANGED <<serving, reply, close, clientVars, faults>>

\* select() fails: -1 counts as ready, and the read() has no time limit.
SelectFails(s) ==
    /\ pc[s] = "select"
    /\ Fault
    /\ pc' = [pc EXCEPT ![s] = "read"]
    /\ UNCHANGED <<portVars, sessionVars, clientVars>>

\* That read() finds the client's end closed: retval is still -1, and there is no
\* farewell. An ECONNRESET is only logged.
ReadEnds(s) ==
    LET c == serving[s] IN
    /\ pc[s] = "read"
    /\ toD[c] = <<>> /\ cend[c] = "closed"
    /\ \E next \in {"hangup"} \cup (IF reset[c] THEN {"select"} ELSE {}) :
          pc' = [pc EXCEPT ![s] = next]
    /\ UNCHANGED <<portVars, sessionVars, clientVars, faults>>

\* Variants: the client is left connected; the request to close is forgotten.
HangUpSilently(s) ==
    /\ pc[s] = "hangup"
    /\ serving' = [serving EXCEPT ![s] = "nobody"]
    /\ pc' = [pc EXCEPT ![s] = IF close[s] THEN "closing" ELSE "poll"]
    /\ UNCHANGED <<portVars, reply, close, pipe, clientVars, faults>>
HangUpAndStay(s) ==
    /\ pc[s] = "hangup"
    /\ DaemonCloses({serving[s]})
    /\ serving' = [serving EXCEPT ![s] = "nobody"]
    /\ pc' = [pc EXCEPT ![s] = "poll"]
    /\ UNCHANGED <<reply, close, pipe, clientVars, faults>>

\* close(client_fd); the loop goes on unless close has been asked for.
HangUp(s) ==
    /\ pc[s] = "hangup"
    /\ DaemonCloses({serving[s]})
    /\ serving' = [serving EXCEPT ![s] = "nobody"]
    /\ pc' = [pc EXCEPT ![s] = IF close[s] THEN "closing" ELSE "poll"]
    /\ UNCHANGED <<reply, close, pipe, clientVars, faults>>

SessionStep(s) ==
    AcceptClient(s) \/ HandleCommand(s) \/ WriteReply(s) \/ NothingMore(s)
    \/ WriteBye(s) \/ ReadEnds(s) \/ HangUp(s)
=============================================================================
