-------------------------------- MODULE Port --------------------------------
(***************************************************************************)
(* Everybody at the port: runs of reportmand that want it, the one that    *)
(* has it, and the runs of reportmanc that come to it.                     *)
(***************************************************************************)
EXTENDS Singleton

\* Which reportmands and reportmancs are run, and how: records of a mode for
\* each Starter and a script for each Client.
CONSTANT Cases

ASSUME CasesAssumption ==
    Cases \subseteq [mode : [Starter -> Mode], script : [Client -> Seq(Known \cup {"unknown"})]]

vars == <<portVars, pc, sessionVars, clientVars, faults, daemonVars>>

Init ==
    /\ PortInit /\ SessionInit /\ SingletonInit
    /\ \E case \in Cases : mode = case.mode /\ script = case.script

\* A signal goes before a client; everything else in the loop is one at a time.
Session(s) ==
    /\ pc[s] = "poll" => ~term[s]
    /\ SessionStep(s)
    /\ why' = [why EXCEPT ![s] = IF pc'[s] = "closing" THEN "client" ELSE @]
    /\ UNCHANGED <<mode, gen, found, term, helperVars>>

Reportmand(s) == Session(s) \/ StarterStep(s)

Reportmanc(c) == ClientStep(c) /\ UNCHANGED daemonVars

Outside ==
    \/ \E s \in Starter :
          \/ Bind(s) \/ Stop(s) \/ GiveUp(s) \/ Panic(s) \/ Deafen(s) \/ ProbeHangs(s)
          \/ SelectFails(s) /\ UNCHANGED daemonVars
    \/ \E c \in Client : (ConnectToDaemon(c) \/ Interrupt(c)) /\ UNCHANGED daemonVars

\* A minute is over for the remains of a connection.
Minute ==
    /\ \E c \in Client : LingerEnds(c)
    /\ UNCHANGED <<pc, sessionVars, clientVars, faults, daemonVars>>

\* A client in the queue of a daemon that waits for a deaf helper.
Forsaken(c) == cpc[c] = "read" /\ link[c] = "queued" /\ \E s \in Starter \cap {listener} : WaitsForDeaf(s)

\* Nobody is left to come, and who is left waits.
AtRest ==
    /\ \A s \in Starter : mode[s] = "absent" \/ pc[s] \in {"exited", "poll"} \/ WaitsForDeaf(s)
    /\ \A c \in Client : script[c] = <<>> \/ cpc[c] \in {"done", "failed", "killed"} \/ Forsaken(c)
    /\ UNCHANGED vars

Next ==
    \/ \E s \in Starter : Reportmand(s)
    \/ \E c \in Client : Reportmanc(c)
    \/ Outside
    \/ Minute
    \/ AtRest

\* A reportmand is scheduled once it runs, and the ten seconds of a session pass.
\* Nobody need ever start one, no client need go on, and nothing need ever fail.
Fairness == \A s \in Starter : WF_vars(Reportmand(s))

Spec == Init /\ [][Next]_vars /\ Fairness

-----------------------------------------------------------------------------
TypeOK == PortTypeOK /\ SessionTypeOK /\ SingletonTypeOK

\* A reportmand in its loop has the port: nobody gets there on a port that was
\* taken from under it, given up, or never bound, unless popen() failed, which
\* __get_other_pid() reports with the value of IS_SINGLETON.
LoopHasPort ==
    \A s \in Starter :
        pc[s] \in Loop => listener = s \/ found[s] = POPEN_FAILED

\* The port passes to another reportmand only when the helpers of the daemon that
\* had it are told to end, and gone: both of them, unless the daemon ran in the
\* foreground and was closed by a client or a PANIC, when one wait took one of them.
\* Daemons that end without __clean_close() are not concerned, nor those that were
\* in the loop without the port.
OrderlyHandover ==
    \A q \in Starter :
        /\ listener \in Starter \ {q}
        /\ found[q] # POPEN_FAILED
        /\ why[q] \in {"signal", "client", "panic"}
        => /\ helpers[q] = "told"
           /\ left[q] <= (IF why[q] # "signal" /\ gen[q] = 0 THEN 1 ELSE 0)

\* What reportmanc prints for its n-th command answers that command and no
\* other. Only the last answers may be missing: once a farewell or nothing has
\* been printed, no answer comes any more.
AnsweredInTurn ==
    \A c \in Client :
        LET Full(i) == printed[c][i] = <<Answer(<<script[c][i]>>)>> IN
        \A i \in DOMAIN printed[c] :
            /\ Full(i) \/ printed[c][i] \in {<<>>, <<Bye>>, <<Answer(<<script[c][i]>>), Bye>>}
            /\ ~Full(i) => \A j \in DOMAIN printed[c] :
                               j > i => printed[c][j] = <<>>

\* SIGPIPE comes to the daemon only over a client that was killed and had not
\* read the answer to its last command; no client that runs to its end, whatever
\* it asks and however slow it is, can bring the daemon there.
OnlyDesertedPipesBreak ==
    \A c \in pipe : cpc[c] = "killed" /\ Len(printed[c]) < sent[c]

\* The daemon reads without a time limit from a client that says nothing.
WaitsForClient(s) == pc[s] = "read" /\ toD[serving[s]] = <<>> /\ cend[serving[s]] = "open"

\* A daemon that has accepted a close ends, whatever the client still sends, and
\* if it never goes on or closes its end; unless it waits for ever for a deaf
\* helper, or for that client because select() has failed.
CloseIsObeyed ==
    \A s \in Starter :
        close[s] ~> (pc[s] = "exited" \/ []WaitsForDeaf(s) \/ []WaitsForClient(s))

\* If the clients go on, every reportmanc comes to its end: with its answers, a
\* farewell or an error, but not waiting for a daemon that has gone or forgotten
\* it. Only a daemon that waits for a deaf helper keeps who is in its queue.
ClientsFinish ==
    (\A c \in Client : WF_vars(Reportmanc(c))) =>
        \A c \in Client :
            cpc[c] \in {"write", "read"} ~> (cpc[c] \in {"done", "failed", "killed"} \/ []Forsaken(c))
=============================================================================
