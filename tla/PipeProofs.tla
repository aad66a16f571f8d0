----------------------------- MODULE PipeProofs -----------------------------
(***************************************************************************)
(* Proofs about what is in the pipes between the daemon and its helpers:   *)
(* whose word a read returns, what the daemon may rely on afterwards, and  *)
(* what a restart is paid with.                                            *)
(***************************************************************************)
EXTENDS SupervisionProofs, FiniteSetTheorems

\* The daemon no longer cares what this helper says: it is about to replace it,
\* or has begun to end.
Abandoned(c) == Over \/ (who = c /\ dpc \in {"unfit", "reap", "retry", "fork"})

\* A helper starts with these words, one after the other ...
Opening(c) == IF c = "fm" THEN <<"ACK", "BT", "TT">> ELSE <<"ACK">>

\* ... so many of which one has written ...
Said(p) ==
    CASE pc[p] = "boot"                                  -> 0
      [] p[1] = "fm" /\ pc[p] \in {"acked", "report_b"}  -> 1
      [] p[1] = "fm" /\ pc[p] = "report_t"               -> 2
      [] OTHER                                           -> Len(Opening(p[1]))

\* ... and so many the daemon has read.
Heard(c) ==
    CASE who = c /\ dpc = "ack"     -> 0
      [] who = c /\ dpc = "timer_b" -> 1
      [] who = c /\ dpc = "timer_t" -> 2
      [] OTHER                      -> Len(Opening(c))

\* u holds the words of the opening from the (r + 1)st to the s-th, and after
\* the last of them commands: answers to probes, and PANICs.
Holds(c, u, r, s) ==
    /\ r <= s /\ s - r <= Len(u)
    /\ \A k \in 1 .. (s - r) : u[k] = Opening(c)[r + k]
    /\ \A k \in 1 .. Len(u) : k > s - r => u[k] \in {"ACK", "PANIC"}
    /\ s < Len(Opening(c)) => Len(u) = s - r

\* The pipe of a helper holds what of its opening was written and not yet read.
Orderly(c) ==
    \E s \in 0 .. Len(Opening(c)) :
        Holds(c, up[Now(c)], Heard(c), s) /\ (Live(Now(c)) => s = Said(Now(c)))

OpeningInv == \A c \in Child : cur[c] > 0 /\ ~Abandoned(c) => Orderly(c)

\* A process that is still to come has nothing in its pipes and no SIGTERM.
EmptyInv ==
    \A p \in Proc : pc[p] = "none" => up[p] = <<>> /\ down[p] = <<>> /\ ~term[p]

\* Only fm reports timers.
PcInv == \A p \in Proc : p[1] = "mon" => pc[p] \notin {"report_b", "report_t"}

\* Nothing is sent to a helper that would end it.
DownInv == \A p \in Proc : \A k \in 1 .. Len(down[p]) : down[p][k] \in {"ACK", "PROBE"}

PipeInv == EmptyInv /\ PcInv /\ DownInv /\ OpeningInv

-----------------------------------------------------------------------------
(* What a pipe holds, as words are written to it and read from it.         *)

LEMMA OpeningIs ==
    /\ Len(Opening("fm")) = 3 /\ Len(Opening("mon")) = 1
    /\ Opening("fm")[1] = "ACK" /\ Opening("fm")[2] = "BT" /\ Opening("fm")[3] = "TT"
    /\ Opening("mon")[1] = "ACK"
  BY DEF Opening

\* Nobody hears or says more than the opening.
LEMMA Bounds ==
    ASSUME PhaseInv, NEW c \in Child
    PROVE  /\ Len(Opening(c)) \in Nat
           /\ Heard(c) \in 0 .. Len(Opening(c))
           /\ \A p \in Proc : Said(p) \in 0 .. Len(Opening(p[1]))
  <1>1. Child = {"fm", "mon"}
    BY DEF Child
  <1>2. Heard(c) \in 0 .. Len(Opening(c))
    <2>1. dpc \in {"timer_b", "timer_t"} => who = "fm"
      BY DEF PhaseInv
    <2> QED
      BY <1>1, <2>1, OpeningIs DEF Heard
  <1>3. ASSUME NEW p \in Proc PROVE Said(p) \in 0 .. Len(Opening(p[1]))
    <2>1. p[1] \in Child
      BY DEF Proc
    <2> QED
      BY <1>1, <2>1, OpeningIs DEF Said
  <1> QED
    BY <1>1, <1>2, <1>3, OpeningIs

\* The next word of the opening is written ...
LEMMA HoldsNext ==
    ASSUME NEW c, NEW u \in Seq(Word), NEW r \in Nat, NEW s \in Nat,
           Len(Opening(c)) \in Nat, s < Len(Opening(c)), Holds(c, u, r, s)
    PROVE  Holds(c, Append(u, Opening(c)[s + 1]), r, s + 1)
  <1> DEFINE v == Append(u, Opening(c)[s + 1])
  <1>1. Len(u) = s - r /\ Len(v) = Len(u) + 1 /\ r <= s
    BY DEF Holds
  <1>2. \A k \in 1 .. Len(u) : v[k] = u[k]
    OBVIOUS
  <1>3. v[Len(u) + 1] = Opening(c)[s + 1]
    OBVIOUS
  <1>4. ASSUME NEW k \in 1 .. (s + 1 - r) PROVE v[k] = Opening(c)[r + k]
    <2>1. CASE k <= s - r
      BY <1>1, <1>2, <2>1 DEF Holds
    <2>2. CASE k = s - r + 1
      BY <1>1, <1>3, <2>2
    <2>3. k \in Int /\ k <= s + 1 - r
      OBVIOUS
    <2> HIDE DEF v
    <2> QED
      BY <2>1, <2>2, <2>3
  <1> HIDE DEF v
  <1> QED
    BY <1>1, <1>4 DEF Holds, v

\* ... or a command, once the opening is over.
LEMMA HoldsMore ==
    ASSUME NEW c, NEW u \in Seq(Word), NEW r \in Nat, NEW s \in Nat,
           NEW w \in {"ACK", "PANIC"}, s = Len(Opening(c)), Holds(c, u, r, s)
    PROVE  Holds(c, Append(u, w), r, s)
  <1> DEFINE v == Append(u, w)
  <1>1. Len(v) = Len(u) + 1 /\ \A k \in 1 .. Len(u) : v[k] = u[k]
    OBVIOUS
  <1>2. v[Len(u) + 1] = w
    OBVIOUS
  <1> HIDE DEF v
  <1>3. Len(u) \in Nat
    OBVIOUS
  <1> QED
    BY <1>1, <1>2, <1>3 DEF Holds, v

\* The next word of the opening is read ...
LEMMA HoldsHeard ==
    ASSUME NEW c, NEW u \in Seq(Word), NEW r \in Nat, NEW s \in Nat,
           Len(Opening(c)) \in Nat, r < Len(Opening(c)), u # <<>>, Holds(c, u, r, s)
    PROVE  /\ r + 1 <= s
           /\ Head(u) = Opening(c)[r + 1]
           /\ Holds(c, Tail(u), r + 1, s)
  <1> DEFINE v == Tail(u)
  <1>1. Len(u) \in Nat /\ Len(u) > 0 /\ Len(v) = Len(u) - 1 /\ Head(u) = u[1]
    OBVIOUS
  <1>2. \A k \in 1 .. Len(v) : v[k] = u[k + 1]
    OBVIOUS
  <1>3. r + 1 <= s
    BY <1>1 DEF Holds
  <1>4. Head(u) = Opening(c)[r + 1]
    BY <1>1, <1>3 DEF Holds
  <1> HIDE DEF v
  <1>5. ASSUME NEW k \in 1 .. (s - (r + 1)) PROVE v[k] = Opening(c)[r + 1 + k]
    <2>1. k + 1 \in 1 .. (s - r) /\ k \in 1 .. Len(v)
      BY <1>1 DEF Holds
    <2> QED
      BY <1>2, <2>1 DEF Holds
  <1>6. ASSUME NEW k \in 1 .. Len(v), k > s - (r + 1) PROVE v[k] \in {"ACK", "PANIC"}
    <2>1. k + 1 \in 1 .. Len(u) /\ k + 1 > s - r
      BY <1>1, <1>6
    <2> QED
      BY <1>2, <2>1 DEF Holds
  <1>7. s < Len(Opening(c)) => Len(v) = s - (r + 1)
    BY <1>1 DEF Holds
  <1>8. s - (r + 1) <= Len(v)
    BY <1>1 DEF Holds
  <1> QED
    BY <1>3, <1>4, <1>5, <1>6, <1>7, <1>8 DEF Holds, v

\* ... or a command, once the opening has been read.
LEMMA HoldsCommand ==
    ASSUME NEW c, NEW u \in Seq(Word), NEW r \in Nat,
           r = Len(Opening(c)), u # <<>>, Holds(c, u, r, r)
    PROVE  /\ Head(u) \in {"ACK", "PANIC"}
           /\ Holds(c, Tail(u), r, r)
  <1> DEFINE v == Tail(u)
  <1>1. Len(u) \in Nat /\ Len(u) > 0 /\ Len(v) = Len(u) - 1 /\ Head(u) = u[1]
    OBVIOUS
  <1>2. \A k \in 1 .. Len(v) : v[k] = u[k + 1]
    OBVIOUS
  <1> HIDE DEF v
  <1>3. \A k \in 1 .. Len(u) : u[k] \in {"ACK", "PANIC"}
    BY <1>1 DEF Holds
  <1>4. \A k \in 1 .. Len(v) : v[k] \in {"ACK", "PANIC"}
    BY <1>1, <1>2, <1>3
  <1>5. Holds(c, v, r, r)
    BY <1>1, <1>4 DEF Holds
  <1> QED
    BY <1>1, <1>3, <1>5 DEF v

-----------------------------------------------------------------------------
(* Steps of the helpers.                                                   *)

\* A helper says nothing, or the next word of its opening, or a command after
\* the opening; and whatever it does, no other process is touched.
HelperWord(p) ==
    \/ up' = up /\ (Live(p)' => Said(p)' = Said(p))
    \/ /\ up' = [up EXCEPT ![p] = Append(@, Opening(p[1])[Said(p) + 1])]
       /\ Said(p) < Len(Opening(p[1]))
       /\ Said(p)' = Said(p) + 1
    \/ /\ \E w \in {"ACK", "PANIC"} : up' = [up EXCEPT ![p] = Append(@, w)]
       /\ Said(p) = Len(Opening(p[1]))
       /\ Said(p)' = Said(p)

OthersAlone(p) ==
    \A q \in Proc : q # p => UNCHANGED <<pc[q], mask[q], up[q], down[q]>>

\* A process that ends has said what it has said.
LEMMA ExitsWord ==
    ASSUME TypeOK, NEW p \in Proc, Exits(p), up' = up
    PROVE  HelperWord(p)
  BY DEF HelperWord, Exits, Corpse, Live, RunningPc, TypeOK, KernelTypeOK

LEMMA HelperSpeaks ==
    ASSUME TypeOK, PcInv, NEW p \in Proc, Helper(p)
    PROVE  HelperWord(p) /\ OthersAlone(p)
  <1> USE DEF TypeOK, KernelTypeOK
  <1>1. p[1] \in Child /\ pc[p] \in ChildPc
    BY DEF Proc
  <1>2. CASE SendAck(p)
    <2>1. CASE Exits(p) /\ UNCHANGED up
      BY <1>2, <2>1, ExitsWord DEF SendAck, Exits, OthersAlone
    <2>2. CASE up' = [up EXCEPT ![p] = Append(@, "ACK")] /\ pc' = [pc EXCEPT ![p] = "acked"]
      <3>1. Said(p) = 0 /\ Said(p)' = 1
        BY <1>1, <1>2, <2>2, OpeningIs DEF SendAck, Said, Child
      <3>2. Opening(p[1])[1] = "ACK" /\ Len(Opening(p[1])) > 0
        BY <1>1, OpeningIs DEF Child
      <3>3. Opening(p[1])[Said(p) + 1] = "ACK" /\ Said(p) < Len(Opening(p[1]))
        <4>1. Said(p) + 1 = 1 /\ Said(p) = 0
          BY <3>1
        <4>2. Opening(p[1])[1] = "ACK" /\ 0 < Len(Opening(p[1]))
          BY <3>2
        <4> QED
          BY <4>1, <4>2
      <3>4. Said(p)' = Said(p) + 1
        BY <3>1
      <3> QED
        BY <1>2, <2>2, <3>3, <3>4 DEF SendAck, HelperWord, OthersAlone
    <2> QED
      BY <1>2, <2>1, <2>2 DEF SendAck, Send
  <1>3. CASE GetAck(p)
    <2>1. Said(p)' = Said(p)
      BY <1>1, <1>3, OpeningIs DEF GetAck, Acknowledged, Said, Child
    <2> QED
      BY <1>3, <2>1 DEF GetAck, Acknowledged, HelperWord, OthersAlone
  <1>4. CASE ReportBackupTimer(p)
    <2>1. CASE Exits(p) /\ UNCHANGED up
      BY <1>4, <2>1, ExitsWord DEF ReportBackupTimer, Exits, OthersAlone
    <2>2. CASE up' = [up EXCEPT ![p] = Append(@, "BT")] /\ pc' = [pc EXCEPT ![p] = "report_t"]
      <3>1. p[1] = "fm"
        BY <1>1, <1>4 DEF ReportBackupTimer, PcInv, Child
      <3>2. Said(p) = 1 /\ Said(p)' = 2
        BY <1>4, <2>2, <3>1 DEF ReportBackupTimer, Said
      <3>3. Opening(p[1])[Said(p) + 1] = "BT" /\ Said(p) < Len(Opening(p[1]))
        <4>1. Said(p) + 1 = 2 /\ Said(p) = 1
          BY <3>2
        <4>2. Opening(p[1])[2] = "BT" /\ 1 < Len(Opening(p[1]))
          BY <3>1, OpeningIs
        <4> QED
          BY <4>1, <4>2
      <3>4. Said(p)' = Said(p) + 1
        BY <3>2
      <3> QED
        BY <1>4, <2>2, <3>3, <3>4 DEF ReportBackupTimer, HelperWord, OthersAlone
    <2> QED
      BY <1>4, <2>1, <2>2 DEF ReportBackupTimer, Send
  <1>5. CASE ReportTransferTimer(p)
    <2>1. CASE Exits(p) /\ UNCHANGED up
      BY <1>5, <2>1, ExitsWord DEF ReportTransferTimer, Exits, OthersAlone
    <2>2. CASE up' = [up EXCEPT ![p] = Append(@, "TT")] /\ pc' = [pc EXCEPT ![p] = "signals"]
      <3>1. p[1] = "fm"
        BY <1>1, <1>5 DEF ReportTransferTimer, PcInv, Child
      <3>2. Said(p) = 2 /\ Said(p)' = 3
        BY <1>5, <2>2, <3>1, OpeningIs DEF ReportTransferTimer, Said
      <3>3. Opening(p[1])[Said(p) + 1] = "TT" /\ Said(p) < Len(Opening(p[1]))
        <4>1. Said(p) + 1 = 3 /\ Said(p) = 2
          BY <3>2
        <4>2. Opening(p[1])[3] = "TT" /\ 2 < Len(Opening(p[1]))
          BY <3>1, OpeningIs
        <4> QED
          BY <4>1, <4>2
      <3>4. Said(p)' = Said(p) + 1
        BY <3>2
      <3> QED
        BY <1>5, <2>2, <3>3, <3>4 DEF ReportTransferTimer, HelperWord, OthersAlone
    <2> QED
      BY <1>5, <2>1, <2>2 DEF ReportTransferTimer, Send
  <1>6. ASSUME NEW next \in {"signals", "watch", "loop", "handler"},
               NEW from \in {"log", "signals", "watch", "loop", "handler"},
               pc[p] = from, pc' = [pc EXCEPT ![p] = next]
        PROVE  Said(p) = Len(Opening(p[1])) /\ Said(p)' = Said(p)
    BY <1>6 DEF Said
  <1>7. CASE OpenLog(p)
    <2>1. CASE pc' = [pc EXCEPT ![p] = "signals"] /\ UNCHANGED up
      BY <1>6, <1>7, <2>1 DEF OpenLog, HelperWord, OthersAlone
    <2>2. CASE Send(p, "PANIC", "signals")
      BY <1>6, <1>7, <2>2, ExitsWord DEF OpenLog, Send, Exits, HelperWord, OthersAlone
    <2> QED
      BY <1>7, <2>1, <2>2 DEF OpenLog
  <1>8. CASE InitializeSignals(p)
    <2>1. AfterSignals(p) \in {"loop", "watch"}
      BY DEF AfterSignals
    <2>2. CASE pc' = [pc EXCEPT ![p] = AfterSignals(p)] /\ UNCHANGED up
      BY <1>6, <1>8, <2>1, <2>2 DEF InitializeSignals, HelperWord, OthersAlone
    <2>3. CASE Send(p, "PANIC", AfterSignals(p))
      BY <1>6, <1>8, <2>1, <2>3, ExitsWord
         DEF InitializeSignals, Send, Exits, HelperWord, OthersAlone
    <2> QED
      BY <1>8, <2>2, <2>3 DEF InitializeSignals
  <1>9. CASE InitializeInotify(p)
    <2>1. CASE pc' = [pc EXCEPT ![p] = "loop"] /\ UNCHANGED up
      BY <1>6, <1>9, <2>1 DEF InitializeInotify, HelperWord, OthersAlone
    <2>2. CASE Send(p, "PANIC", "loop")
      BY <1>6, <1>9, <2>2, ExitsWord DEF InitializeInotify, Send, Exits, HelperWord, OthersAlone
    <2>3. CASE Exits(p) /\ UNCHANGED up
      BY <1>9, <2>3, ExitsWord DEF InitializeInotify, Exits, OthersAlone
    <2> QED
      BY <1>9, <2>1, <2>2, <2>3 DEF InitializeInotify
  <1>10. CASE ServeDaemon(p)
    <2>1. CASE Send(p, "ACK", "loop")
      BY <1>6, <1>10, <2>1, ExitsWord DEF ServeDaemon, Send, Exits, HelperWord, OthersAlone
    <2>2. CASE Exits(p) /\ UNCHANGED up
      BY <1>10, <2>2, ExitsWord DEF ServeDaemon, Exits, OthersAlone
    <2>3. CASE UNCHANGED <<pc, up>>
      BY <1>10, <2>3 DEF ServeDaemon, HelperWord, Said, OthersAlone
    <2> QED
      BY <1>10, <2>1, <2>2, <2>3 DEF ServeDaemon
  <1>11. CASE TakeSigTerm(p)
    BY <1>11, ExitsWord DEF TakeSigTerm, Exits, OthersAlone
  <1>12. CASE HandlerReturns(p)
    <2>1. CASE Exits(p)
      BY <1>12, <2>1, ExitsWord DEF HandlerReturns, Exits, OthersAlone
    <2>2. CASE pc' = [pc EXCEPT ![p] = "loop"]
      BY <1>6, <1>12, <2>2 DEF HandlerReturns, HelperWord, OthersAlone
    <2> QED
      BY <1>12, <2>1, <2>2 DEF HandlerReturns
  <1>13. CASE TimerFires(p)
    BY <1>6, <1>13 DEF TimerFires, HelperWord, OthersAlone
  <1>14. CASE Crash(p)
    BY <1>14, ExitsWord DEF Crash, Exits, OthersAlone
  <1> QED
    BY <1>2, <1>3, <1>4, <1>5, <1>7, <1>8, <1>9, <1>10, <1>11, <1>12, <1>13, <1>14
       DEF Helper, ChildStep, ChildEvent

\* Only a process that runs does anything.
LEMMA HelperLive ==
    ASSUME NEW p \in Proc, Helper(p)
    PROVE  Live(p)
  BY DEF Helper, ChildStep, ChildEvent, SendAck, GetAck, ReportBackupTimer,
         ReportTransferTimer, OpenLog, InitializeSignals, InitializeInotify, ServeDaemon,
         TakeSigTerm, HandlerReturns, TimerFires, Crash, Live, RunningPc

\* What the daemon has read stays as it is for a helper that no step touches.
LEMMA OrderlyKept ==
    ASSUME NEW c \in Child, Orderly(c),
           cur'[c] = cur[c], Heard(c)' = Heard(c), up'[Now(c)] = up[Now(c)],
           Live(Now(c))' => Live(Now(c)) /\ pc'[Now(c)] = pc[Now(c)]
    PROVE  Orderly(c)'
  <1>1. Now(c)' = Now(c)
    BY DEF Now
  <1>2. Live(Now(c))' => Live(Now(c)) /\ Said(Now(c))' = Said(Now(c))
    BY <1>1 DEF Said
  <1> QED
    BY <1>1, <1>2 DEF Orderly, Holds

\* A helper keeps its own pipe in order.
LEMMA OrderlyHelper ==
    ASSUME TypeOK, PhaseInv, PcInv, NEW p \in Proc, Helper(p),
           NEW c \in Child, Orderly(c), Now(c) \in Proc
    PROVE  Orderly(c)'
  <1>1. /\ HelperWord(p) /\ OthersAlone(p) /\ Settled
        /\ UNCHANGED <<dpc, who, cur>>
    BY HelperSpeaks, HelperSettled DEF Helper, rosterVars
  <1>2. Heard(c)' = Heard(c)
    BY <1>1 DEF Heard
  <1>3. Live(Now(c))' => Live(Now(c))
    BY <1>1 DEF Settled, Live, Now
  <1>4. CASE Now(c) # p
    BY <1>1, <1>2, <1>3, <1>4, OrderlyKept DEF OthersAlone
  <1>5. CASE Now(c) = p
    <2>1. Now(c)' = p /\ p[1] = c /\ up[p] \in Seq(Word)
      BY <1>1, <1>5 DEF Now, TypeOK, KernelTypeOK
    <2>2. PICK s \in 0 .. Len(Opening(c)) :
            Holds(c, up[p], Heard(c), s) /\ (Live(p) => s = Said(p))
      BY <1>5 DEF Orderly
    <2>3. Len(Opening(c)) \in Nat /\ Heard(c) \in Nat /\ s \in Nat
      BY Bounds
    <2>4. s = Said(p)
      BY <2>2, HelperLive
    <2>5. CASE up' = up /\ (Live(p)' => Said(p)' = Said(p))
      BY <1>2, <2>1, <2>2, <2>4, <2>5 DEF Orderly, Holds
    <2>6. CASE /\ up' = [up EXCEPT ![p] = Append(@, Opening(p[1])[Said(p) + 1])]
               /\ Said(p) < Len(Opening(p[1]))
               /\ Said(p)' = Said(p) + 1
      <3>1. up'[p] = Append(up[p], Opening(c)[s + 1]) /\ s < Len(Opening(c))
        BY <2>1, <2>4, <2>6 DEF TypeOK, KernelTypeOK
      <3>2. Holds(c, up'[p], Heard(c), s + 1)
        BY <2>1, <2>2, <2>3, <3>1, HoldsNext
      <3>3. s + 1 \in 0 .. Len(Opening(c)) /\ s + 1 = Said(p)'
        BY <2>3, <2>4, <2>6, <3>1
      <3> QED
        BY <1>2, <2>1, <3>2, <3>3 DEF Orderly, Holds
    <2>7. CASE /\ \E w \in {"ACK", "PANIC"} : up' = [up EXCEPT ![p] = Append(@, w)]
               /\ Said(p) = Len(Opening(p[1]))
               /\ Said(p)' = Said(p)
      <3>1. PICK w \in {"ACK", "PANIC"} : up' = [up EXCEPT ![p] = Append(@, w)]
        BY <2>7
      <3>2. up'[p] = Append(up[p], w) /\ s = Len(Opening(c))
        BY <2>1, <2>4, <2>7, <3>1 DEF TypeOK, KernelTypeOK
      <3>3. Holds(c, up'[p], Heard(c), s)
        BY <2>1, <2>2, <2>3, <3>2, HoldsMore
      <3> QED
        BY <1>2, <2>1, <2>4, <2>7, <3>3 DEF Orderly, Holds
    <2> QED
      BY <1>1, <2>5, <2>6, <2>7 DEF HelperWord
  <1> QED
    BY <1>4, <1>5

-----------------------------------------------------------------------------
(* Steps of the daemon that leave the pipes alone.                         *)

Awaits(c) == dpc = "answer" /\ who = c

\* No word is written or read, no helper is started, and the daemon expects of
\* each helper what it expected before, or nothing any more.
Calm ==
    /\ UNCHANGED <<mask, up, down, cur, backup_timer, transfer_timer>>
    /\ \A p \in Proc : /\ Live(p)' => pc'[p] = pc[p]
                       /\ pc[p] = "none" => term'[p] = term[p]
    /\ \A c \in Child : ~Abandoned(c)' => /\ ~Abandoned(c)
                                          /\ Heard(c)' = Heard(c)
                                          /\ Awaits(c)' = Awaits(c)

CalmStep ==
    \/ EnterLoop \/ HandshakeTimeout
    \/ DaemonPoll \/ HandleSignal \/ AcceptClient \/ HandleTick
    \/ \E close, gone \in BOOLEAN : EndSession(close, gone)
    \/ AnswerTimeout \/ KillUnfit \/ ReapUnfit \/ CountRetry
    \/ SignalWait \/ CleanClose \/ CloseWait \/ PollFails \/ SyscallFails
    \/ \E group \in BOOLEAN : TermArrives(group)
    \/ UNCHANGED vars

\* What kill() and waitpid() do to the processes.
LEMMA SigTermCalm ==
    ASSUME KernelTypeOK, NEW S, SigTerm(S)
    PROVE  \A p \in Proc : /\ Live(p)' => pc'[p] = pc[p]
                           /\ pc[p] = "none" => term'[p] = term[p]
  BY DEF SigTerm, KernelTypeOK, Live, RunningPc, Corpse

LEMMA WaitAnyCalm ==
    ASSUME KernelTypeOK, WaitAny
    PROVE  \A p \in Proc : Live(p)' => pc'[p] = pc[p]
  BY DEF WaitAny, KernelTypeOK, Live, RunningPc

LEMMA CalmSteps ==
    ASSUME IInv, CalmStep
    PROVE  Calm
  <1> USE DEF IInv, TypeOK, loopVars, rosterVars, timerVars, endVars, kernelVars
  <1> DEFINE Alone == \A p \in Proc : /\ Live(p)' => pc'[p] = pc[p]
                                      /\ pc[p] = "none" => term'[p] = term[p]
             Same  == UNCHANGED <<mask, up, down, cur, backup_timer, transfer_timer>>
             Cares == \A c \in Child : ~Abandoned(c)' => /\ ~Abandoned(c)
                                                         /\ Heard(c)' = Heard(c)
                                                         /\ Awaits(c)' = Awaits(c)
  <1>1. UNCHANGED <<pc, term>> => Alone
    OBVIOUS
  <1>2. CASE EnterLoop \/ DaemonPoll \/ AcceptClient \/ HandleTick
    <2>1. UNCHANGED <<pc, term, who>> /\ Same
      BY <1>2 DEF EnterLoop, DaemonPoll, Poll, AcceptClient, HandleTick
    <2>2. Cares
      BY <1>2, <2>1 DEF EnterLoop, DaemonPoll, Poll, AcceptClient, HandleTick, Turn,
                        Abandoned, Over, Ending, Heard, Awaits
    <2> QED
      BY <1>1, <2>1, <2>2 DEF Calm
  <1>3. CASE HandshakeTimeout \/ SyscallFails
    <2>1. UNCHANGED <<pc, term, who>> /\ Same /\ dpc' = "exited"
      BY <1>3 DEF HandshakeTimeout, SyscallFails, Ends
    <2> QED
      BY <1>1, <2>1 DEF Calm, Abandoned, Over, Ending
  <1>4. CASE \E close, gone \in BOOLEAN : EndSession(close, gone)
    <2>1. UNCHANGED <<pc, term, who>> /\ Same
      BY <1>4 DEF EndSession
    <2>2. dpc = "session" /\ dpc' \in {"poll", "dispatch", "close", "exited"}
      BY <1>4 DEF EndSession, BrokenPipe, Ends
    <2>3. Cares
      BY <2>1, <2>2 DEF Abandoned, Over, Ending, Heard, Awaits
    <2> QED
      BY <1>1, <2>1, <2>3 DEF Calm
  <1>5. CASE AnswerTimeout \/ CountRetry
    <2>1. UNCHANGED <<pc, term, who>> /\ Same
      BY <1>5 DEF AnswerTimeout, TimeoutIsUnfit, CountRetry
    <2>2. dpc \in {"answer", "retry"} /\ dpc' \in {"unfit", "fork", "exited"}
      BY <1>5 DEF AnswerTimeout, TimeoutIsUnfit, CountRetry, Ends
    <2>3. Cares
      BY <2>1, <2>2 DEF Abandoned, Over, Ending, Heard, Awaits
    <2> QED
      BY <1>1, <2>1, <2>3 DEF Calm
  <1>6. CASE KillUnfit
    <2>1. Same /\ who' = who /\ dpc = "unfit" /\ dpc' = "reap"
      BY <1>6 DEF KillUnfit
    <2>2. Alone
      BY <1>6, SigTermCalm DEF KillUnfit
    <2> QED
      BY <2>1, <2>2 DEF Calm, Abandoned, Over, Ending, Heard, Awaits
  <1>7. CASE ReapUnfit
    <2>1. Same /\ who' = who /\ dpc = "reap" /\ dpc' = "retry" /\ term' = term
      BY <1>7 DEF ReapUnfit
    <2>2. Alone
      BY <1>7, <2>1 DEF ReapUnfit, WaitFor, Live, RunningPc, KernelTypeOK
    <2> QED
      BY <2>1, <2>2 DEF Calm, Abandoned, Over, Ending, Heard, Awaits
  <1>8. CASE HandleSignal \/ CleanClose \/ PollFails
    <2>1. Same /\ dpc' \in Ending
      BY <1>8 DEF HandleSignal, CleanClose, PollFails, Ending
    <2>2. Alone
      BY <1>8, SigTermCalm DEF HandleSignal, CleanClose, PollFails, KillGroup
    <2> QED
      BY <2>1, <2>2 DEF Calm, Abandoned, Over
  <1>9. CASE SignalWait \/ CloseWait
    <2>1. Same /\ dpc' \in Ending /\ term' = term
      BY <1>9 DEF SignalWait, CloseWait, Ending
    <2>2. Alone
      BY <1>9, <2>1, WaitAnyCalm DEF SignalWait, WaitFirst, CloseWait
    <2> QED
      BY <2>1, <2>2 DEF Calm, Abandoned, Over
  <1>10. CASE \E group \in BOOLEAN : TermArrives(group)
    <2>1. PICK group \in BOOLEAN : TermArrives(group)
      BY <1>10
    <2>2. Same /\ who' = who /\ (dpc' = dpc \/ dpc' = "exited")
      BY <2>1 DEF TermArrives, Ends
    <2>3. Alone
      BY <1>1, <2>1, SigTermCalm DEF TermArrives
    <2>4. Cares
      BY <2>2 DEF Abandoned, Over, Ending, Heard, Awaits
    <2> QED
      BY <2>2, <2>3, <2>4 DEF Calm
  <1>11. CASE UNCHANGED vars
    <2>1. UNCHANGED <<pc, term, who, dpc>> /\ Same
      BY <1>11 DEF vars, daemonVars
    <2>2. Cares
      BY <2>1 DEF Abandoned, Over, Ending, Heard, Awaits
    <2> QED
      BY <1>1, <2>1, <2>2 DEF Calm
  <1> QED
    BY <1>2, <1>3, <1>4, <1>5, <1>6, <1>7, <1>8, <1>9, <1>10, <1>11 DEF CalmStep

\* Every step is a helper's, a calm one, or one of these.
PipeStep ==
    \/ ChildSpawn \/ AcknowledgeClient \/ ReadBackupTimer \/ ReadTransferTimer
    \/ Drain \/ (\E c \in Child : HandleChild(c)) \/ SendProbe \/ GetAnswer

LEMMA StepKinds ==
    ASSUME [Next]_vars
    PROVE  (\E p \in Proc : Helper(p)) \/ CalmStep \/ PipeStep
  BY DEF Next, Daemon, DaemonStep, DaemonEvent, Terminated, CalmStep, PipeStep

\* No calm step makes or revives a process.
LEMMA CalmSettled ==
    ASSUME IInv, CalmStep
    PROVE  Settled
  <1> USE DEF IInv, TypeOK, KernelTypeOK
  <1>1. UNCHANGED pc => Settled
    BY DEF Settled
  <1>2. CASE HandleSignal \/ KillUnfit \/ CleanClose \/ PollFails
    BY <1>2, SigTermType DEF HandleSignal, KillUnfit, CleanClose, PollFails, KillGroup
  <1>3. CASE SignalWait \/ CloseWait
    BY <1>3, WaitAnyType DEF SignalWait, WaitFirst, CloseWait
  <1>4. CASE ReapUnfit
    <2>1. Now(who) \in Proc
      BY <1>4, NowType DEF ReapUnfit, PhaseInv, DaemonTypeOK
    <2>2. pc' = [pc EXCEPT ![Now(who)] = "gone"] /\ pc[Now(who)] # "none"
      BY <1>4, <2>1 DEF ReapUnfit, WaitFor, RosterInv, Now
    <2> QED
      BY <2>1, <2>2 DEF Settled, RunningPc
  <1>5. CASE \E group \in BOOLEAN : TermArrives(group)
    BY <1>1, <1>5, SigTermType DEF TermArrives
  <1>6. CASE UNCHANGED vars
    BY <1>1, <1>6 DEF vars, kernelVars
  <1>7. CASE EnterLoop \/ HandshakeTimeout \/ DaemonPoll \/ AcceptClient \/ HandleTick
    BY <1>1, <1>7 DEF EnterLoop, HandshakeTimeout, DaemonPoll, Poll, AcceptClient, HandleTick,
                      kernelVars
  <1>8. CASE \/ \E close, gone \in BOOLEAN : EndSession(close, gone)
             \/ AnswerTimeout \/ CountRetry \/ SyscallFails
    BY <1>1, <1>8 DEF EndSession, AnswerTimeout, CountRetry, SyscallFails, kernelVars
  <1> QED
    BY <1>2, <1>3, <1>4, <1>5, <1>6, <1>7, <1>8 DEF CalmStep

\* A helper touches its own pipes only.
LEMMA HelperAlone ==
    ASSUME TypeOK, NEW p \in Proc, Helper(p)
    PROVE  OthersAlone(p)
  BY DEF OthersAlone, TypeOK, KernelTypeOK, Helper, ChildStep, ChildEvent, SendAck, GetAck,
     Acknowledged, ReportBackupTimer, ReportTransferTimer, OpenLog, InitializeSignals,
     InitializeInotify, ServeDaemon, TakeSigTerm, HandlerReturns, TimerFires, Crash, Send, Exits
-----------------------------------------------------------------------------
(* The invariants of the pipes.                                            *)

\* The daemon only touches helpers it has started.
LEMMA EmptyStep ==
    ASSUME IInv, EmptyInv, [Next]_vars
    PROVE  EmptyInv'
  <1> USE DEF IInv, TypeOK, KernelTypeOK
  <1> SUFFICES ASSUME NEW p \in Proc, pc'[p] = "none"
               PROVE  up'[p] = <<>> /\ down'[p] = <<>> /\ ~term'[p]
    BY DEF EmptyInv
  <1>1. CASE \E q \in Proc : Helper(q)
    <2>1. PICK q \in Proc : Helper(q)
      BY <1>1
    <2>2. Settled /\ UNCHANGED term
      BY <2>1, HelperSettled
    <2>3. pc[p] = "none"
      BY <2>2 DEF Settled
    <2>4. p # q
      BY <2>1, <2>3, HelperLive DEF Live, RunningPc
    <2>5. up'[p] = up[p] /\ down'[p] = down[p]
      BY <2>1, <2>4, HelperAlone DEF OthersAlone
    <2> QED
      BY <2>2, <2>3, <2>5 DEF EmptyInv
  <1>2. CASE CalmStep
    <2>1. pc[p] = "none"
      BY <1>2, CalmSettled DEF Settled
    <2> QED
      BY <1>2, <2>1, CalmSteps DEF Calm, EmptyInv
  <1>3. CASE ChildSpawn
    <2>1. <<who, cur[who] + 1>> \in Proc
      BY <1>3, ForkType DEF ChildSpawn
    <2>2. pc[p] = "none" /\ UNCHANGED <<up, down, term>>
      BY <1>3, <2>1 DEF ChildSpawn
    <2> QED
      BY <2>2 DEF EmptyInv
  <1>4. CASE PipeStep /\ ~ChildSpawn
    <2>1. UNCHANGED <<pc, term>>
      BY <1>4 DEF PipeStep, AcknowledgeClient, ReadBackupTimer, ReadTransferTimer, Drain,
                  HandleChild, SendProbe, GetAnswer, AnswerFrom
    <2>2. PICK c \in Child : \A q \in Proc : q # Now(c) => up'[q] = up[q] /\ down'[q] = down[q]
      <3>1. CASE \E c \in Child : HandleChild(c)
        BY <3>1 DEF HandleChild, IpcGetCommand, ReadUp
      <3>2. CASE ~(\E c \in Child : HandleChild(c))
        <4>1. \A q \in Proc : q # Now(who) => up'[q] = up[q] /\ down'[q] = down[q]
          BY <1>4, <3>2 DEF PipeStep, AcknowledgeClient, ReadBackupTimer, ReadTransferTimer,
             Drain, IpcGetCommand, ReadUp, SendProbe, GetAnswer, AnswerFrom
        <4> QED
          BY <4>1 DEF DaemonTypeOK
      <3> QED
        BY <3>1, <3>2
    <2>3. CASE p # Now(c)
      BY <2>1, <2>2, <2>3 DEF EmptyInv
    <2>4. CASE p = Now(c)
      <3>1. FALSE
        BY <2>1, <2>4 DEF RosterInv, Now
      <3> QED
        BY <3>1
    <2> QED
      BY <2>3, <2>4
  <1> QED
    BY <1>1, <1>2, <1>3, <1>4, StepKinds DEF PipeStep

\* mon never reports a timer.
LEMMA PcStep ==
    ASSUME IInv, PcInv, [Next]_vars
    PROVE  PcInv'
  <1> USE DEF IInv, TypeOK, KernelTypeOK
  <1> SUFFICES ASSUME NEW p \in Proc, p[1] = "mon"
               PROVE  pc'[p] \notin {"report_b", "report_t"}
    BY DEF PcInv
  <1>0. pc[p] \notin {"report_b", "report_t"}
    BY DEF PcInv
  <1>1. CASE \E q \in Proc : Helper(q)
    <2>1. PICK q \in Proc : Helper(q)
      BY <1>1
    <2>2. CASE q # p
      BY <1>0, <2>1, <2>2, HelperAlone DEF OthersAlone
    <2>3. CASE q = p
      <3>1. pc'[p] = pc[p] \/ pc'[p] \in {"acked", "log", "signals", "watch", "loop",
                                          "handler", "zombie", "gone"}
        BY <1>0, <2>1, <2>3
           DEF Helper, ChildStep, ChildEvent, SendAck, GetAck, Acknowledged,
               ReportBackupTimer, ReportTransferTimer, OpenLog, InitializeSignals,
               AfterSignals, InitializeInotify, ServeDaemon, TakeSigTerm, HandlerReturns,
               TimerFires, Crash, Send, Exits, Corpse
      <3> QED
        BY <1>0, <3>1
    <2> QED
      BY <2>2, <2>3
  <1>2. CASE CalmStep
    BY <1>0, <1>2, CalmSteps DEF Calm, Live, RunningPc
  <1>3. CASE ChildSpawn
    BY <1>0, <1>3 DEF ChildSpawn
  <1>4. CASE PipeStep /\ ~ChildSpawn
    BY <1>0, <1>4 DEF PipeStep, AcknowledgeClient, ReadBackupTimer, ReadTransferTimer, Drain,
                HandleChild, SendProbe, GetAnswer, AnswerFrom
  <1> QED
    BY <1>1, <1>2, <1>3, <1>4, StepKinds DEF PipeStep

\* What is sent to the helpers are ACKs and probes.
LEMMA DownStep ==
    ASSUME IInv, DownInv, [Next]_vars
    PROVE  DownInv'
  <1> USE DEF IInv, TypeOK, KernelTypeOK
  <1> DEFINE Harmless(s) == \A k \in 1 .. Len(s) : s[k] \in {"ACK", "PROBE"}
  <1>0. \A p \in Proc : down[p] \in Seq(Word) /\ Harmless(down[p])
    BY DEF DownInv
  <1>1. ASSUME NEW s \in Seq(Word), Harmless(s), NEW w \in {"ACK", "PROBE"}
        PROVE  Harmless(Append(s, w))
    BY <1>1
  <1>2. ASSUME NEW s \in Seq(Word), Harmless(s), s # <<>>
        PROVE  Harmless(Tail(s))
    <2>1. \A k \in 1 .. Len(Tail(s)) : k + 1 \in 1 .. Len(s) /\ Tail(s)[k] = s[k + 1]
      BY <1>2
    <2> QED
      BY <1>2, <2>1
  <1>3. ASSUME NEW p \in Proc, NEW w \in {"ACK", "PROBE"},
               down' = [down EXCEPT ![p] = Append(@, w)]
        PROVE  DownInv'
    BY <1>0, <1>1, <1>3 DEF DownInv
  <1>4. ASSUME NEW p \in Proc, down[p] # <<>>, down' = [down EXCEPT ![p] = Tail(@)]
        PROVE  DownInv'
    BY <1>0, <1>2, <1>4 DEF DownInv
  <1>5. UNCHANGED down => DownInv'
    BY DEF DownInv
  <1>6. CASE \E p \in Proc : Helper(p)
    <2>1. PICK p \in Proc : Helper(p)
      BY <1>6
    <2>2. \/ UNCHANGED down
          \/ down[p] # <<>> /\ down' = [down EXCEPT ![p] = Tail(@)]
      BY <2>1 DEF Helper, ChildStep, ChildEvent, SendAck, GetAck, ReportBackupTimer,
         ReportTransferTimer, OpenLog, InitializeSignals, InitializeInotify, ServeDaemon,
         TakeSigTerm, HandlerReturns, TimerFires, Crash
    <2> QED
      BY <1>4, <1>5, <2>2
  <1>7. CASE CalmStep
    BY <1>5, <1>7, CalmSteps DEF Calm
  <1>8. CASE AcknowledgeClient
    <2>1. Now(who) \in Proc
      BY <1>8, NowType DEF AcknowledgeClient, DaemonTypeOK
    <2>2. UNCHANGED down \/ down' = [down EXCEPT ![Now(who)] = Append(@, "ACK")]
      BY <1>8 DEF AcknowledgeClient
    <2> QED
      BY <1>3, <1>5, <2>1, <2>2
  <1>9. CASE SendProbe
    <2>1. Now(who) \in Proc
      BY <1>9, NowType DEF SendProbe, PhaseInv, DaemonTypeOK
    <2>2. UNCHANGED down \/ down' = [down EXCEPT ![Now(who)] = Append(@, "PROBE")]
      BY <1>9 DEF SendProbe
    <2> QED
      BY <1>3, <1>5, <2>1, <2>2
  <1>10. CASE PipeStep /\ ~AcknowledgeClient /\ ~SendProbe
    BY <1>5, <1>10 DEF PipeStep, ChildSpawn, ReadBackupTimer, ReadTransferTimer, Drain,
                HandleChild, GetAnswer, AnswerFrom
  <1> QED
    BY <1>6, <1>7, <1>8, <1>9, <1>10, StepKinds

-----------------------------------------------------------------------------
(* What the daemon reads.                                                  *)

\* A read that takes the next word of the opening, or what is left in the
\* caller's variable when the helper has died without a word.
LEMMA ReadOpening ==
    ASSUME IInv, NEW c \in Child, Now(c) \in Proc, NEW w \in Word, ReadUp(Now(c), w),
           Orderly(c), Heard(c) < Len(Opening(c))
    PROVE  /\ Live(Now(c)) => w = Opening(c)[Heard(c) + 1]
           /\ up[Now(c)] # <<>> => w = Opening(c)[Heard(c) + 1]
           /\ UNCHANGED <<pc, cur>> /\ Heard(c)' = Heard(c) + 1 => Orderly(c)'
  <1> DEFINE p == Now(c)
  <1>1. Len(Opening(c)) \in Nat /\ Heard(c) \in Nat
    BY Bounds DEF IInv
  <1>2. up \in [Proc -> Seq(Word)] /\ up[p] \in Seq(Word)
    BY DEF IInv, TypeOK, KernelTypeOK
  <1>3. PICK s \in 0 .. Len(Opening(c)) :
          Holds(c, up[p], Heard(c), s) /\ (Live(p) => s = Said(p))
    BY DEF Orderly
  <1>4. PICK r : r = Heard(c)
    OBVIOUS
  <1>5. s \in Nat /\ r \in Nat
    BY <1>1, <1>4
  <1>6. CASE up[p] # <<>> /\ w = Head(up[p]) /\ up' = [up EXCEPT ![p] = Tail(@)]
    <2>1. /\ r + 1 <= s /\ Head(up[p]) = Opening(c)[r + 1]
          /\ Holds(c, Tail(up[p]), r + 1, s)
      BY <1>1, <1>2, <1>3, <1>4, <1>5, <1>6, HoldsHeard
    <2>2. up'[p] = Tail(up[p])
      BY <1>2, <1>6
    <2>3. UNCHANGED <<pc, cur>> /\ Heard(c)' = Heard(c) + 1 => Orderly(c)'
      BY <1>3, <1>4, <2>1, <2>2 DEF Orderly, Holds, Now, Live, Said
    <2> QED
      BY <1>4, <1>6, <2>1, <2>3
  <1>7. CASE up[p] = <<>> /\ ~Live(p) /\ w \in Garbage /\ UNCHANGED up
    <2>1. Len(up[p]) = 0
      BY <1>7
    <2>2. Holds(c, up[p], r + 1, r + 1)
      BY <1>1, <1>3, <1>4, <1>5, <2>1 DEF Holds
    <2>3. r + 1 \in 0 .. Len(Opening(c))
      BY <1>1, <1>4, <1>5
    <2>4. UNCHANGED <<pc, cur>> /\ Heard(c)' = Heard(c) + 1 => Orderly(c)'
      BY <1>4, <1>7, <2>2, <2>3 DEF Orderly, Holds, Now, Live
    <2> QED
      BY <1>7, <2>4
  <1> QED
    BY <1>6, <1>7 DEF ReadUp

\* A read that takes a command.
LEMMA ReadCommand ==
    ASSUME IInv, NEW c \in Child, Now(c) \in Proc, NEW w \in Word, ReadUp(Now(c), w),
           Orderly(c), Heard(c) = Len(Opening(c))
    PROVE  /\ up[Now(c)] # <<>> => w \in {"ACK", "PANIC"}
           /\ UNCHANGED <<pc, cur>> /\ Heard(c)' = Heard(c) => Orderly(c)'
  <1> DEFINE p == Now(c)
  <1>1. Len(Opening(c)) \in Nat
    BY Bounds DEF IInv
  <1>2. up \in [Proc -> Seq(Word)] /\ up[p] \in Seq(Word)
    BY DEF IInv, TypeOK, KernelTypeOK
  <1>3. PICK s \in 0 .. Len(Opening(c)) :
          Holds(c, up[p], Heard(c), s) /\ (Live(p) => s = Said(p))
    BY DEF Orderly
  <1>4. PICK r : r = Len(Opening(c))
    OBVIOUS
  <1>5. s = r /\ r \in Nat
    BY <1>1, <1>3, <1>4 DEF Holds
  <1>6. CASE up[p] # <<>> /\ w = Head(up[p]) /\ up' = [up EXCEPT ![p] = Tail(@)]
    <2>1. Head(up[p]) \in {"ACK", "PANIC"} /\ Holds(c, Tail(up[p]), r, r)
      BY <1>2, <1>3, <1>4, <1>5, <1>6, HoldsCommand
    <2>2. up'[p] = Tail(up[p])
      BY <1>2, <1>6
    <2>3. Holds(c, up'[p], r, r) /\ r \in 0 .. Len(Opening(c)) /\ (Live(p) => r = Said(p))
      BY <1>3, <1>4, <1>5, <2>1, <2>2
    <2>4. UNCHANGED <<pc, cur>> /\ Heard(c)' = Heard(c) => Orderly(c)'
      BY <1>4, <2>3 DEF Orderly, Holds, Now, Live, Said
    <2> QED
      BY <1>6, <2>1, <2>4
  <1>7. CASE up[p] = <<>> /\ ~Live(p) /\ w \in Garbage /\ UNCHANGED up
    BY <1>7, OrderlyKept DEF Live, Now
  <1> QED
    BY <1>6, <1>7 DEF ReadUp

\* A read from one pipe leaves the others.
LEMMA ReadOther ==
    ASSUME TypeOK, NEW p \in Proc, NEW q \in Proc, p # q, NEW w, ReadUp(p, w)
    PROVE  up'[q] = up[q]
  BY DEF ReadUp, TypeOK, KernelTypeOK

\* The three reads of a start: one word of the opening each.
HandshakeStep == AcknowledgeClient \/ ReadBackupTimer \/ ReadTransferTimer

LEMMA Handshake ==
    ASSUME IInv, NEW c \in Child, c = who, HandshakeStep
    PROVE  /\ Now(c) \in Proc /\ cur[c] > 0 /\ ~Abandoned(c)
           /\ \E w \in Word : ReadUp(Now(c), w)
           /\ UNCHANGED <<pc, mask, cur>>
           /\ Heard(c) < Len(Opening(c))
           /\ dpc' = "exited" \/ Heard(c)' = Heard(c) + 1
           /\ \A d \in Child : d # c => /\ ~Abandoned(d) /\ ~Awaits(d)
                                        /\ dpc' = "exited" \/ Heard(d)' = Heard(d)
  <1> USE DEF IInv, TypeOK, DaemonTypeOK
  <1>1. dpc \in {"ack", "timer_b", "timer_t"} /\ (dpc # "ack" => who = "fm")
    BY DEF HandshakeStep, AcknowledgeClient, ReadBackupTimer, ReadTransferTimer, PhaseInv
  <1>2. Now(c) \in Proc /\ cur[c] > 0
    <2>1. Now(c) \in Proc /\ cur[c] = retries[c] + 1
      BY <1>1, NowType
    <2>2. retries[c] \in Nat
      OBVIOUS
    <2> QED
      BY <2>1, <2>2
  <1>3. \A d \in Child : ~Abandoned(d) /\ ~Awaits(d)
    BY <1>1 DEF Abandoned, Awaits, Over, Ending
  <1>4. (\E w \in Word : ReadUp(Now(c), w)) /\ UNCHANGED <<pc, mask, cur>>
    BY DEF HandshakeStep, AcknowledgeClient, ReadBackupTimer, ReadTransferTimer, rosterVars
  <1>5. Heard(c) < Len(Opening(c)) /\ \A d \in Child : d # c => Heard(d) = Len(Opening(d))
    BY <1>1, OpeningIs DEF Child, Heard
  <1>6. CASE AcknowledgeClient
    <2>1. Heard(c) = 0
      BY <1>6 DEF AcknowledgeClient, Heard
    <2>2. dpc' = "exited" \/ (who' = c /\ c = "fm" /\ dpc' = "timer_b")
          \/ (c = "mon" /\ dpc' \in {"probe", "fork", "poll", "enter"})
      BY <1>6 DEF AcknowledgeClient, HasPostLaunch, Started, Resume, BrokenPipe, Ends, Child
    <2>3. dpc' = "exited" \/ Heard(c)' = 1
      BY <2>2, OpeningIs DEF Heard
    <2>4. \A d \in Child : d # c => dpc' = "exited" \/ Heard(d)' = Len(Opening(d))
      BY <2>2 DEF Heard
    <2> QED
      BY <1>2, <1>3, <1>4, <1>5, <2>1, <2>3, <2>4
  <1>7. CASE ReadBackupTimer
    <2>1. Heard(c) = 1 /\ (dpc' = "exited" \/ dpc' = "timer_t") /\ who' = who
      BY <1>7 DEF ReadBackupTimer, Heard, Ends, rosterVars
    <2> QED
      BY <1>1, <1>2, <1>3, <1>4, <1>5, <1>7, <2>1, OpeningIs DEF Child, Heard, ReadBackupTimer
  <1>8. CASE ReadTransferTimer
    <2>1. Heard(c) = 2 /\ c = "fm"
      BY <1>1, <1>8 DEF ReadTransferTimer, Heard
    <2>2. dpc' = "exited" \/ dpc' \in {"probe", "fork", "poll", "enter"}
      BY <1>8 DEF ReadTransferTimer, Started, Resume, Ends
    <2>3. dpc' = "exited" \/ Heard(c)' = 3
      BY <2>1, <2>2, OpeningIs DEF Heard
    <2>4. \A d \in Child : d # c => dpc' = "exited" \/ Heard(d)' = Len(Opening(d))
      BY <2>2 DEF Heard
    <2> QED
      BY <1>2, <1>3, <1>4, <1>5, <2>1, <2>3, <2>4
  <1> QED
    BY <1>6, <1>7, <1>8 DEF HandshakeStep

\* The loop's reads: commands, if anything.
LoopRead(c) == HandleChild(c) \/ (c = who /\ Drain) \/ (c = who /\ GetAnswer)

LEMMA Loop ==
    ASSUME IInv, NEW c \in Child, LoopRead(c)
    PROVE  /\ Now(c) \in Proc /\ cur[c] > 0
           /\ \/ \E w \in Word : ReadUp(Now(c), w)
              \/ NothingToRead(Now(c)) /\ UNCHANGED up
           /\ UNCHANGED <<pc, mask, down, cur, backup_timer, transfer_timer>>
           /\ \A d \in Child : /\ ~Abandoned(d)
                               /\ Heard(d) = Len(Opening(d))
                               /\ Awaits(d) => d = c
                               /\ Over' \/ (Heard(d)' = Heard(d) /\ ~Awaits(d)')
  <1> USE DEF IInv, TypeOK, DaemonTypeOK, timerVars, loopVars
  <1>1. dpc \in {"dispatch", "drain", "answer"}
    BY DEF LoopRead, HandleChild, Turn, Drain, GetAnswer, AnswerFrom
  <1>2. Now(c) \in Proc /\ cur[c] > 0
    <2>1. looping
      BY <1>1 DEF PhaseInv
    <2>2. Now(c) \in Proc /\ cur[c] = retries[c] + 1
      BY <1>1, <2>1, NowType
    <2>3. retries[c] \in Nat
      OBVIOUS
    <2> QED
      BY <2>2, <2>3
  <1>3. \/ \E w \in Word : ReadUp(Now(c), w)
        \/ NothingToRead(Now(c)) /\ UNCHANGED up
    BY DEF LoopRead, HandleChild, Drain, GetAnswer, AnswerFrom, IpcGetCommand
  <1>4. UNCHANGED <<pc, mask, down, cur, backup_timer, transfer_timer>>
    BY DEF LoopRead, HandleChild, Drain, GetAnswer, AnswerFrom
  <1>5. dpc' \in Ending \/ dpc' \in {"poll", "dispatch", "drain", "probe", "unfit"}
    BY DEF LoopRead, HandleChild, Drain, GetAnswer, AnswerFrom, UnlessPanic, Handled, Resume,
           PhaseInv, Ending
  <1>6. \A d \in Child : Awaits(d) => d = c
    BY DEF LoopRead, HandleChild, Turn, Drain, GetAnswer, AnswerFrom, Awaits
  <1> QED
    BY <1>1, <1>2, <1>3, <1>4, <1>5, <1>6 DEF Abandoned, Over, Ending, Heard, Awaits

\* A start leaves a helper of which nothing has been heard, and the other alone.
LEMMA Spawn ==
    ASSUME IInv, EmptyInv, NEW c \in Child, c = who, ChildSpawn
    PROVE  /\ Now(c)' \in Proc /\ pc'[Now(c)'] = "boot"
           /\ up'[Now(c)'] = <<>> /\ down'[Now(c)'] = <<>> /\ ~term'[Now(c)']
           /\ Heard(c)' = 0 /\ ~Awaits(c)'
           /\ UNCHANGED <<up, down, term, backup_timer, transfer_timer>>
           /\ \A d \in Child : d # c =>
                 /\ cur'[d] = cur[d] /\ Now(d)' = Now(d)
                 /\ \A i \in Inc : UNCHANGED <<pc[<<d, i>>], mask[<<d, i>>]>>
                 /\ ~Abandoned(d) /\ Heard(d)' = Heard(d) /\ ~Awaits(d) /\ ~Awaits(d)'
  <1> USE DEF IInv, TypeOK, DaemonTypeOK, KernelTypeOK
  <1>1. <<c, cur[c] + 1>> \in Proc /\ cur[c] \in Nat
    BY ForkType DEF ChildSpawn
  <1>2. /\ cur' = [cur EXCEPT ![c] = @ + 1] /\ pc' = [pc EXCEPT ![<<c, cur[c] + 1>>] = "boot"]
        /\ dpc = "fork" /\ dpc' = "ack" /\ UNCHANGED <<up, down, term, who, timerVars>>
    BY DEF ChildSpawn, timerVars
  <1>3. Now(c)' = <<c, cur[c] + 1>> /\ pc'[Now(c)'] = "boot"
    BY <1>1, <1>2 DEF Now
  <1>4. pc[<<c, cur[c] + 1>>] = "none"
    BY <1>1 DEF RosterInv
  <1>5. up'[Now(c)'] = <<>> /\ down'[Now(c)'] = <<>> /\ ~term'[Now(c)']
    BY <1>1, <1>2, <1>3, <1>4 DEF EmptyInv
  <1>6. Heard(c)' = 0 /\ ~Awaits(c)'
    BY <1>2 DEF Heard, Awaits
  <1>7. ASSUME NEW d \in Child, d # c
        PROVE  /\ cur'[d] = cur[d] /\ Now(d)' = Now(d)
               /\ \A i \in Inc : UNCHANGED <<pc[<<d, i>>], mask[<<d, i>>]>>
               /\ ~Abandoned(d) /\ Heard(d)' = Heard(d) /\ ~Awaits(d) /\ ~Awaits(d)'
    <2>1. cur'[d] = cur[d] /\ Now(d)' = Now(d)
      BY <1>2, <1>7 DEF Now
    <2>2. \A i \in Inc : UNCHANGED <<pc[<<d, i>>], mask[<<d, i>>]>>
      BY <1>2, <1>7 DEF ChildSpawn, Proc
    <2>3. ~Abandoned(d) /\ Heard(d)' = Heard(d) /\ ~Awaits(d) /\ ~Awaits(d)'
      BY <1>2, <1>7 DEF Abandoned, Over, Ending, Heard, Awaits
    <2> QED
      BY <2>1, <2>2, <2>3
  <1> QED
    BY <1>1, <1>2, <1>3, <1>5, <1>6, <1>7 DEF timerVars

\* A helper that has been started has the place in the tables that Now gives it.
LEMMA CurType ==
    ASSUME TypeOK, NEW c \in Child, cur[c] > 0
    PROVE  Now(c) \in Proc
  BY DEF TypeOK, DaemonTypeOK, Now, Proc, Inc

\* The daemon hears the opening of each helper in the order it is spoken.
LEMMA OpeningStep ==
    ASSUME IInv, PipeInv, [Next]_vars
    PROVE  OpeningInv'
  <1> USE DEF IInv, PipeInv
  <1> SUFFICES ASSUME NEW c \in Child, cur'[c] > 0, ~Abandoned(c)'
               PROVE  Orderly(c)'
    BY DEF OpeningInv
  <1>1. CASE \E p \in Proc : Helper(p)
    <2>1. PICK p \in Proc : Helper(p)
      BY <1>1
    <2>2. UNCHANGED <<cur, who, dpc>>
      BY <2>1, HelperSettled DEF Helper, rosterVars
    <2>3. cur[c] > 0 /\ ~Abandoned(c)
      BY <2>2 DEF Abandoned, Over
    <2>4. Orderly(c) /\ Now(c) \in Proc
      BY <2>3, CurType DEF OpeningInv
    <2> QED
      BY <2>1, <2>4, OrderlyHelper
  <1>2. CASE CalmStep
    <2>1. Calm /\ Settled
      BY <1>2, CalmSteps, CalmSettled
    <2>2. cur[c] > 0 /\ ~Abandoned(c) /\ Heard(c)' = Heard(c) /\ up' = up /\ cur' = cur
      BY <2>1 DEF Calm
    <2>3. Orderly(c) /\ Now(c) \in Proc
      BY <2>2, CurType DEF OpeningInv
    <2>4. Live(Now(c))' => Live(Now(c)) /\ pc'[Now(c)] = pc[Now(c)]
      BY <2>1, <2>2, <2>3 DEF Calm, Settled, Live, Now
    <2> QED
      BY <2>2, <2>3, <2>4, OrderlyKept
  <1>3. CASE ChildSpawn
    <2>1. CASE c = who
      <3>1. /\ pc'[Now(c)'] = "boot" /\ up'[Now(c)'] = <<>> /\ Heard(c)' = 0
        BY <1>3, <2>1, Spawn
      <3>2. Said(Now(c))' = 0
        BY <3>1 DEF Said
      <3>3. Len(Opening(c)) \in Nat
        BY Bounds
      <3>4. Holds(c, <<>>, 0, 0)
        BY <3>3 DEF Holds
      <3> QED
        BY <3>1, <3>2, <3>3, <3>4 DEF Orderly, Holds
    <2>2. CASE c # who
      <3>1. who \in Child
        BY DEF TypeOK, DaemonTypeOK
      <3>2. /\ cur'[c] = cur[c] /\ ~Abandoned(c) /\ Heard(c)' = Heard(c) /\ up' = up
            /\ \A i \in Inc : pc'[<<c, i>>] = pc[<<c, i>>]
        BY <1>3, <2>2, <3>1, Spawn
      <3>3. Orderly(c) /\ Now(c) \in Proc
        BY <3>2, CurType DEF OpeningInv
      <3>4. pc'[Now(c)] = pc[Now(c)]
        BY <3>2, <3>3 DEF Now, Proc
      <3>5. Live(Now(c))' => Live(Now(c))
        BY <3>2, <3>4 DEF Live, Now
      <3> QED
        BY <3>2, <3>3, <3>4, <3>5, OrderlyKept
    <2> QED
      BY <2>1, <2>2
  <1>4. CASE HandshakeStep
    <2>1. PICK d \in Child : d = who
      BY DEF TypeOK, DaemonTypeOK
    <2>2. dpc' # "exited"
      BY DEF Abandoned, Over, Ending
    <2>3. UNCHANGED <<pc, cur>>
      BY <1>4, <2>1, Handshake
    <2>4. CASE c = d
      <3>1. /\ Now(c) \in Proc /\ cur[c] > 0 /\ ~Abandoned(c)
            /\ Heard(c) < Len(Opening(c)) /\ Heard(c)' = Heard(c) + 1
        BY <1>4, <2>1, <2>2, <2>4, Handshake
      <3>2. PICK w \in Word : ReadUp(Now(c), w)
        BY <1>4, <2>1, <2>4, Handshake
      <3> QED
        BY <2>3, <3>1, <3>2, ReadOpening DEF OpeningInv
    <2>5. CASE c # d
      <3>1. ~Abandoned(c) /\ Heard(c)' = Heard(c)
        BY <1>4, <2>1, <2>2, <2>5, Handshake
      <3>2. Orderly(c) /\ Now(c) \in Proc /\ Now(d) \in Proc /\ Now(c) # Now(d)
        BY <1>4, <2>1, <2>3, <2>5, <3>1, CurType, Handshake DEF OpeningInv, Now
      <3>3. up'[Now(c)] = up[Now(c)]
        <4>1. PICK w \in Word : ReadUp(Now(d), w)
          BY <1>4, <2>1, Handshake
        <4> QED
          BY <3>2, <4>1, ReadOther
      <3> QED
        BY <2>3, <3>1, <3>2, <3>3, OrderlyKept DEF Live, Now
    <2> QED
      BY <2>4, <2>5
  <1>5. CASE \E d \in Child : LoopRead(d)
    <2>1. PICK d \in Child : LoopRead(d)
      BY <1>5
    <2>2. /\ UNCHANGED cur /\ ~Abandoned(c) /\ Heard(c) = Len(Opening(c))
          /\ Heard(c)' = Heard(c)
      BY <2>1, Loop DEF Abandoned
    <2>3. UNCHANGED pc
      BY <2>1 DEF LoopRead, HandleChild, Drain, GetAnswer, AnswerFrom
    <2>4. Orderly(c) /\ Now(c) \in Proc
      BY <2>2, CurType DEF OpeningInv
    <2>5. CASE \E w \in Word : ReadUp(Now(c), w)
      BY <2>2, <2>3, <2>4, <2>5, ReadCommand
    <2>6. CASE up'[Now(c)] = up[Now(c)]
      BY <2>2, <2>3, <2>4, <2>6, OrderlyKept DEF Live, Now
    <2>7. \/ \E w \in Word : ReadUp(Now(c), w)
          \/ up'[Now(c)] = up[Now(c)]
      <3>1. CASE c = d
        BY <2>1, <3>1, Loop
      <3>2. CASE c # d
        <4>1. Now(c) # Now(d) /\ Now(d) \in Proc
          BY <2>1, <3>2, Loop DEF Now
        <4>2. CASE UNCHANGED up
          BY <4>2
        <4>3. ASSUME NEW w \in Word, ReadUp(Now(d), w) PROVE up'[Now(c)] = up[Now(c)]
          BY <2>4, <4>1, <4>3, ReadOther
        <4> QED
          BY <2>1, <4>2, <4>3, Loop
      <3> QED
        BY <3>1, <3>2
    <2> QED
      BY <2>5, <2>6, <2>7
  <1>6. CASE SendProbe
    <2>1. UNCHANGED <<pc, up, cur, who>> /\ dpc = "probe"
      BY <1>6 DEF SendProbe
    <2>2. dpc' \in {"retry", "answer"}
      BY <1>6 DEF SendProbe, BrokenPipe, Ends, Abandoned, Over, Ending
    <2>3. ~Abandoned(c) /\ Heard(c)' = Heard(c)
      BY <2>1, <2>2 DEF Abandoned, Over, Ending, Heard
    <2>4. Orderly(c)
      BY <2>1, <2>3 DEF OpeningInv
    <2> QED
      BY <2>1, <2>3, <2>4, OrderlyKept DEF Live, Now
  <1> QED
    BY <1>1, <1>2, <1>3, <1>4, <1>5, <1>6, StepKinds
       DEF PipeStep, HandshakeStep, LoopRead, TypeOK, DaemonTypeOK

\* The invariant of the pipes holds when main() starts, and every step keeps it.
LEMMA PipeInit == Init => PipeInv
  <1> SUFFICES ASSUME Init PROVE PipeInv
    OBVIOUS
  <1> USE DEF Init, KernelInit, DaemonInit
  <1>1. EmptyInv
    BY DEF EmptyInv
  <1>2. PcInv
    BY DEF PcInv
  <1>3. DownInv
    BY DEF DownInv
  <1>4. OpeningInv
    BY DEF OpeningInv
  <1> QED
    BY <1>1, <1>2, <1>3, <1>4 DEF PipeInv

LEMMA PipeStepKept == IInv /\ PipeInv /\ [Next]_vars => PipeInv'
  BY EmptyStep, PcStep, DownStep, OpeningStep DEF PipeInv

\* Each pipe holds what is left of its helper's opening and then only ACKs and
\* PANICs: acknowledge_client(), __reportman_fm_get_timers() and the loop's reads
\* meet the words in the order the helper's program sends them.
THEOREM PipesAreOrderly == Spec => [](IInv /\ PipeInv)
  BY InvInit, InvStep, PipeInit, PipeStepKept, PTL DEF Spec

-----------------------------------------------------------------------------
(* PanicIsObeyed.                                                          *)

\* No word of an opening is a PANIC.
LEMMA NoPanicInOpening ==
    ASSUME PhaseInv, NEW c \in Child, Heard(c) < Len(Opening(c))
    PROVE  Opening(c)[Heard(c) + 1] # "PANIC"
  <1>1. PICK h : h = Heard(c)
    OBVIOUS
  <1>2. h \in Nat /\ h < Len(Opening(c))
    BY <1>1, Bounds
  <1>3. CASE c = "fm"
    <2>1. h < 3
      BY <1>2, <1>3, OpeningIs
    <2>2. h = 0 \/ h = 1 \/ h = 2
      BY <1>2, <2>1
    <2> QED
      BY <1>1, <1>3, <2>2, OpeningIs
  <1>4. CASE c = "mon"
    <2>1. h < 1
      BY <1>2, <1>4, OpeningIs
    <2>2. h = 0
      BY <1>2, <2>1
    <2> QED
      BY <1>1, <1>4, <2>2, OpeningIs
  <1> QED
    BY <1>3, <1>4 DEF Child

\* A PANIC is never taken for an ACK or a timer id, and the loop never reads one
\* without going to __clean_close().
THEOREM PanicsAreObeyed == Spec => PanicIsObeyed
  <1>1. IInv /\ PipeInv /\ [Next]_vars =>
          [\A p \in Proc : /\ dpc # "answer"
                           /\ up[p] # <<>> /\ Head(up[p]) = "PANIC"
                           /\ Len(up'[p]) < Len(up[p])
                           => cause' = "panic"]_vars
    <2> SUFFICES ASSUME IInv, PipeInv, Next, NEW p \in Proc, dpc # "answer",
                        up[p] # <<>>, Head(up[p]) = "PANIC", Len(up'[p]) < Len(up[p])
                 PROVE  cause' = "panic"
      OBVIOUS
    <2> USE DEF IInv, PipeInv
    <2>1. up \in [Proc -> Seq(Word)] /\ up[p] \in Seq(Word) /\ Len(up[p]) \in Nat
      BY DEF TypeOK, KernelTypeOK
    <2>2. up'[p] # up[p]
      BY <2>1
    <2>3. CASE \E q \in Proc : Helper(q)
      <3>1. PICK q \in Proc : Helper(q)
        BY <2>3
      <3>2. q = p
        BY <2>2, <3>1, HelperSpeaks DEF OthersAlone
      <3>3. \E w \in Word \cup {Opening(p[1])[Said(p) + 1]} : up'[p] = Append(up[p], w)
        BY <2>1, <2>2, <3>1, <3>2, HelperSpeaks DEF HelperWord, Word
      <3> QED
        BY <2>1, <3>3
    <2>4. CASE CalmStep \/ ChildSpawn \/ SendProbe
      BY <2>2, <2>4, CalmSteps DEF Calm, ChildSpawn, SendProbe
    <2>5. CASE HandshakeStep
      <3>1. PICK c \in Child : c = who
        BY DEF TypeOK, DaemonTypeOK
      <3>2. /\ Now(c) \in Proc /\ cur[c] > 0 /\ ~Abandoned(c)
            /\ Heard(c) < Len(Opening(c))
        BY <2>5, <3>1, Handshake
      <3>3. PICK w \in Word : ReadUp(Now(c), w)
        BY <2>5, <3>1, Handshake
      <3>4. p = Now(c)
        BY <2>2, <3>2, <3>3, ReadOther
      <3>5. w = "PANIC"
        BY <3>3, <3>4 DEF ReadUp
      <3>6. w = Opening(c)[Heard(c) + 1]
        BY <3>2, <3>3, <3>4, ReadOpening DEF OpeningInv
      <3> QED
        BY <3>2, <3>5, <3>6, NoPanicInOpening
    <2>6. CASE \E c \in Child : LoopRead(c) /\ ~GetAnswer
      <3>1. PICK c \in Child : LoopRead(c) /\ ~GetAnswer
        BY <2>6
      <3>2. Now(c) \in Proc
        BY <3>1, Loop
      <3>3. IpcGetCommand(Now(c)) /\ up' # up
        BY <2>2, <3>1 DEF LoopRead, HandleChild, Drain
      <3>4. PICK w \in Word : ReadUp(Now(c), w) /\ command' = IF IsCommand(w) THEN w ELSE command
        BY <3>3 DEF IpcGetCommand
      <3>5. p = Now(c)
        BY <2>2, <3>2, <3>4, ReadOther
      <3>6. command' = "PANIC"
        BY <3>4, <3>5 DEF ReadUp, IsCommand
      <3> QED
        BY <3>1, <3>6 DEF LoopRead, HandleChild, Drain, UnlessPanic
    <2>7. ~GetAnswer
      BY DEF GetAnswer, AnswerFrom
    <2> QED
      BY <2>3, <2>4, <2>5, <2>6, <2>7, StepKinds
         DEF PipeStep, HandshakeStep, LoopRead, TypeOK, DaemonTypeOK
  <1> QED
    BY <1>1, PipesAreOrderly, PTL DEF Spec, PanicIsObeyed

-----------------------------------------------------------------------------
(* TimersFresh.                                                            *)

\* As soon as fm's opening has been heard, the daemon has the timer ids of the
\* incarnation it was read from, each in its place if that one is running.
TimerInv ==
    cur["fm"] > 0 /\ ~Abandoned("fm") =>
        /\ Heard("fm") >= 2 =>
             /\ backup_timer.inc = cur["fm"]
             /\ Live(Now("fm")) => backup_timer.word = "BT"
        /\ Heard("fm") = 3 =>
             /\ transfer_timer.inc = cur["fm"]
             /\ Live(Now("fm")) => transfer_timer.word = "TT"

LEMMA TimerKept ==
    ASSUME TimerInv, cur["fm"] > 0, ~Abandoned("fm"), Heard("fm")' = Heard("fm"),
           cur'["fm"] = cur["fm"], Live(Now("fm"))' => Live(Now("fm")),
           UNCHANGED <<backup_timer, transfer_timer>>
    PROVE  TimerInv'
  BY DEF TimerInv

LEMMA TimerStep ==
    ASSUME IInv, PipeInv, TimerInv, [Next]_vars
    PROVE  TimerInv'
  <1> USE DEF IInv, PipeInv
  <1> SUFFICES ASSUME cur'["fm"] > 0, ~Abandoned("fm")'
               PROVE  TimerInv'
    BY DEF TimerInv
  <1>0. "fm" \in Child
    BY DEF Child
  <1>1. CASE \E p \in Proc : Helper(p)
    <2>1. PICK p \in Proc : Helper(p)
      BY <1>1
    <2>2. UNCHANGED <<cur, who, dpc, backup_timer, transfer_timer>> /\ Settled
      BY <2>1, HelperSettled DEF Helper, rosterVars, timerVars
    <2>3. cur["fm"] > 0 /\ ~Abandoned("fm") /\ Heard("fm")' = Heard("fm")
      BY <2>2 DEF Abandoned, Over, Heard
    <2>4. Live(Now("fm"))' => Live(Now("fm"))
      BY <1>0, <2>2, <2>3, CurType DEF Settled, Live, Now
    <2> QED
      BY <2>2, <2>3, <2>4, TimerKept
  <1>2. CASE CalmStep
    <2>1. Calm /\ Settled
      BY <1>2, CalmSteps, CalmSettled
    <2>2. /\ UNCHANGED <<cur, backup_timer, transfer_timer>>
          /\ cur["fm"] > 0 /\ ~Abandoned("fm") /\ Heard("fm")' = Heard("fm")
      BY <1>0, <2>1 DEF Calm
    <2>3. Live(Now("fm"))' => Live(Now("fm"))
      BY <1>0, <2>1, <2>2, CurType DEF Settled, Live, Now
    <2> QED
      BY <2>2, <2>3, TimerKept
  <1>3. CASE ChildSpawn
    <2>1. CASE who = "fm"
      <3>1. Heard("fm")' = 0
        BY <1>0, <1>3, <2>1, Spawn
      <3> QED
        BY <3>1 DEF TimerInv
    <2>2. CASE who # "fm"
      <3>1. who \in Child
        BY DEF TypeOK, DaemonTypeOK
      <3>2. /\ cur'["fm"] = cur["fm"] /\ Now("fm")' = Now("fm") /\ ~Abandoned("fm")
            /\ \A i \in Inc : pc'[<<"fm", i>>] = pc[<<"fm", i>>]
            /\ Heard("fm")' = Heard("fm") /\ UNCHANGED <<backup_timer, transfer_timer>>
        BY <1>0, <1>3, <2>2, <3>1, Spawn
      <3>3. Live(Now("fm"))' => Live(Now("fm"))
        BY <1>0, <3>2, CurType DEF Live, Now, Proc
      <3> QED
        BY <3>2, <3>3, TimerKept
    <2> QED
      BY <2>1, <2>2
  <1>4. CASE HandshakeStep
    <2>1. PICK c \in Child : c = who
      BY DEF TypeOK, DaemonTypeOK
    <2>2. dpc' # "exited" /\ UNCHANGED <<pc, cur>>
      BY <1>4, <2>1, Handshake DEF Abandoned, Over, Ending
    <2>3. Live(Now("fm"))' => Live(Now("fm"))
      BY <2>2 DEF Live, Now
    <2>4. CASE c = "fm"
      <3>1. /\ Now(c) \in Proc /\ cur[c] > 0 /\ ~Abandoned(c)
            /\ Heard(c) < Len(Opening(c)) /\ Heard(c)' = Heard(c) + 1
        BY <1>4, <2>1, <2>2, Handshake
      <3>2. Orderly(c)
        BY <3>1 DEF OpeningInv
      <3>3. CASE AcknowledgeClient
        <4>1. Heard("fm")' = 1
          BY <2>1, <2>4, <3>1, <3>3 DEF AcknowledgeClient, Heard
        <4> QED
          BY <4>1 DEF TimerInv
      <3>4. CASE ReadBackupTimer
        <4>1. Heard("fm") = 1
          BY <2>1, <2>4, <3>4 DEF ReadBackupTimer, Heard
        <4>2. Heard("fm")' = 2
          BY <2>4, <3>1, <4>1
        <4>3. PICK w \in Word : /\ ReadUp(Now(c), w)
                                /\ backup_timer' = [word |-> w, inc |-> cur[who]]
          BY <2>1, <2>2, <3>4 DEF ReadBackupTimer, Ends
        <4>4. Live(Now(c)) => w = "BT"
          BY <2>4, <3>1, <3>2, <4>1, <4>3, ReadOpening, OpeningIs
        <4>5. backup_timer'.word = w /\ backup_timer'.inc = cur'["fm"]
          BY <2>1, <2>2, <2>4, <4>3
        <4> QED
          BY <2>3, <2>4, <4>2, <4>4, <4>5 DEF TimerInv
      <3>5. CASE ReadTransferTimer
        <4>1. Heard("fm") = 2
          BY <2>1, <2>4, <3>5 DEF ReadTransferTimer, Heard
        <4>2. Heard("fm")' = 3 /\ UNCHANGED backup_timer
          BY <2>4, <3>1, <3>5, <4>1 DEF ReadTransferTimer
        <4>3. PICK w \in Word : /\ ReadUp(Now(c), w)
                                /\ transfer_timer' = [word |-> w, inc |-> cur[who]]
          BY <2>1, <2>2, <3>5 DEF ReadTransferTimer, Ends
        <4>4. Live(Now(c)) => w = "TT"
          BY <2>4, <3>1, <3>2, <4>1, <4>3, ReadOpening, OpeningIs
        <4>5. backup_timer.inc = cur["fm"] /\ (Live(Now("fm")) => backup_timer.word = "BT")
          BY <2>4, <3>1, <4>1 DEF TimerInv
        <4> QED
          BY <2>1, <2>2, <2>3, <2>4, <4>2, <4>3, <4>4, <4>5 DEF TimerInv
      <3> QED
        BY <1>4, <3>3, <3>4, <3>5 DEF HandshakeStep
    <2>5. CASE c # "fm"
      <3>1. ~Abandoned("fm") /\ Heard("fm")' = Heard("fm")
        BY <1>0, <1>4, <2>1, <2>2, <2>5, Handshake
      <3>2. AcknowledgeClient
        BY <1>4, <2>1, <2>5 DEF HandshakeStep, ReadBackupTimer, ReadTransferTimer, PhaseInv
      <3>3. UNCHANGED <<backup_timer, transfer_timer>>
        BY <3>2 DEF AcknowledgeClient, timerVars
      <3> QED
        BY <2>2, <2>3, <3>1, <3>3, TimerKept
    <2> QED
      BY <2>4, <2>5
  <1>5. CASE \E d \in Child : LoopRead(d)
    <2>1. PICK d \in Child : LoopRead(d)
      BY <1>5
    <2>2. /\ UNCHANGED <<cur, backup_timer, transfer_timer>> /\ ~Abandoned("fm")
          /\ Heard("fm")' = Heard("fm")
      BY <1>0, <2>1, Loop DEF Abandoned
    <2>3. UNCHANGED pc
      BY <2>1 DEF LoopRead, HandleChild, Drain, GetAnswer, AnswerFrom
    <2> QED
      BY <2>2, <2>3, TimerKept DEF Live, Now
  <1>6. CASE SendProbe
    <2>1. UNCHANGED <<pc, cur, who, backup_timer, transfer_timer>> /\ dpc = "probe"
      BY <1>6 DEF SendProbe, timerVars
    <2>2. dpc' \in {"retry", "answer", "exited"}
      BY <1>6 DEF SendProbe, BrokenPipe, Ends
    <2>3. ~Abandoned("fm") /\ Heard("fm")' = Heard("fm")
      BY <2>1, <2>2 DEF Abandoned, Over, Ending, Heard
    <2> QED
      BY <2>1, <2>3, TimerKept DEF Live, Now
  <1> QED
    BY <1>1, <1>2, <1>3, <1>4, <1>5, <1>6, StepKinds
       DEF PipeStep, HandshakeStep, LoopRead, TypeOK, DaemonTypeOK

\* post_proc_launch: a client is only ever told timer ids that were read from the
\* present fm, and the backup id is never taken for the transfer id.
THEOREM TimersAreFresh == Spec => []TimersFresh
  <1>1. Init => TimerInv
    BY DEF Init, DaemonInit, TimerInv, Child
  <1>2. IInv /\ PipeInv /\ TimerInv /\ [Next]_vars => TimerInv'
    BY TimerStep
  <1>3. IInv /\ TimerInv => TimersFresh
    <2> SUFFICES ASSUME IInv, TimerInv, dpc \in {"poll", "dispatch", "session", "drain"}
                 PROVE  /\ backup_timer.inc = cur["fm"] /\ transfer_timer.inc = cur["fm"]
                        /\ Live(Now("fm")) => /\ backup_timer.word = "BT"
                                              /\ transfer_timer.word = "TT"
      BY DEF TimersFresh
    <2>1. looping /\ retries["fm"] \in Nat
      BY DEF IInv, PhaseInv, TypeOK, DaemonTypeOK, Child
    <2>2. cur["fm"] = retries["fm"] + 1
      BY <2>1, NowType DEF IInv, Child
    <2>3. cur["fm"] > 0 /\ ~Abandoned("fm") /\ Heard("fm") = 3
      BY <2>1, <2>2, OpeningIs DEF Abandoned, Over, Ending, Heard
    <2> QED
      BY <2>3 DEF TimerInv
  <1> QED
    BY <1>1, <1>2, <1>3, PipesAreOrderly, PTL DEF Spec

-----------------------------------------------------------------------------
(* RestartsArePaid.                                                        *)

\* A restart of this helper is to come, or at least its death is certain, and
\* the fault that pays for it has happened.
Doomed(c) ==
    /\ cur[c] > 0 /\ ~(who = c /\ dpc = "fork")
    /\ \/ ~Live(Now(c)) \/ pc[Now(c)] = "handler"
       \/ who = c /\ dpc \in {"unfit", "reap", "retry"}

\* This helper may still be restarted before the daemon comes to see a SIGTERM
\* that is pending now: that one is only looked at by the next poll().
Exposed(c) ==
    \/ dpc = "dispatch" /\ "sig" \notin rev
    \/ dpc \in {"session", "drain"}
    \/ dpc \in {"probe", "answer", "unfit", "reap", "retry"} /\ (who = c \/ c = "mon")
    \/ dpc \in {"fork", "ack", "timer_b", "timer_t"} /\ looping /\ who = "fm" /\ c = "mon"

\* Until SIGTERM comes from outside the only helper told to end is the unfit one.
TermInv ==
    ~dterm /\ ~Over =>
        \A p \in Proc : term[p] /\ Live(p) => p = Now(who) /\ dpc = "reap"

One(b)   == IF b THEN 1 ELSE 0
Restarts == retries["fm"] + retries["mon"]

PaidInv ==
    /\ ~dterm /\ ~Over => Restarts + One(Doomed("fm")) + One(Doomed("mon")) <= events
    /\ Over => Restarts <= events + One(dterm)
    /\ dterm => Restarts + One(Exposed("fm")) + One(Exposed("mon")) <= events + 1

\* PaidInv is about numbers.
LEMMA PaidNumbers ==
    ASSUME TypeOK
    PROVE  events \in Nat /\ Restarts \in Nat
           /\ retries["fm"] \in Nat /\ retries["mon"] \in Nat
  BY EventsAssumption, RetriesAssumption
     DEF TypeOK, KernelTypeOK, DaemonTypeOK, Restarts, Child

LEMMA OneType == \A b \in BOOLEAN : One(b) \in Nat
  BY DEF One

\* The daemon ends: nothing is restarted any more.
LEMMA PaidEnding ==
    ASSUME TypeOK, PaidInv, Over', retries' = retries, dterm => dterm',
           events' \in Nat, events <= events'
    PROVE  PaidInv'
  <1>1. events \in Nat /\ Restarts \in Nat /\ Restarts' = Restarts
    BY PaidNumbers DEF Restarts
  <1>2. Restarts <= events + (IF dterm THEN 1 ELSE 0)
    <2>1. CASE Over
      BY <2>1 DEF PaidInv, One
    <2>2. CASE dterm /\ ~Over
      BY <1>1, <2>2 DEF PaidInv, One
    <2>3. CASE ~dterm /\ ~Over
      BY <1>1, <2>3 DEF PaidInv, One
    <2> QED
      BY <2>1, <2>2, <2>3
  <1>3. One(Exposed("fm"))' = 0 /\ One(Exposed("mon"))' = 0
    BY DEF Over, Ending, Exposed, One
  <1>4. PICK e \in Nat : e = events'
    OBVIOUS
  <1>5. events <= e /\ (dterm => dterm')
    BY <1>4
  <1>6. Restarts <= e + (IF dterm' THEN 1 ELSE 0)
    BY <1>1, <1>2, <1>5
  <1>7. Restarts' <= events' + One(dterm)'
    BY <1>1, <1>4, <1>6 DEF One
  <1>8. Restarts' + 0 + 0 <= e + 1
    BY <1>1, <1>6
  <1>9. dterm' => Restarts' + One(Exposed("fm"))' + One(Exposed("mon"))' <= events' + 1
    BY <1>3, <1>4, <1>8
  <1> QED
    BY <1>7, <1>9 DEF PaidInv

\* The daemon goes on, at most one helper is newly doomed, and by a fault.
LEMMA PaidLoop ==
    ASSUME TypeOK, PaidInv, ~Over, ~Over', retries' = retries, dterm' = dterm,
           events' \in Nat, events <= events',
           NEW d,
           ~dterm => \A c \in Child :
               Doomed(c)' => Doomed(c) \/ (c = d /\ events' = events + 1),
           dterm  => \A c \in Child : Exposed(c)' => Exposed(c)
    PROVE  PaidInv'
  <1>1. events \in Nat /\ Restarts \in Nat /\ Restarts' = Restarts
    BY PaidNumbers DEF Restarts
  <1>2. "fm" \in Child /\ "mon" \in Child
    BY DEF Child
  <1>3. CASE dterm
    <2>1. PICK x, y, v, w : /\ x = One(Exposed("fm")) /\ v = One(Exposed("fm"))'
                            /\ y = One(Exposed("mon")) /\ w = One(Exposed("mon"))'
      OBVIOUS
    <2>2. x \in 0 .. 1 /\ y \in 0 .. 1 /\ v \in 0 .. 1 /\ w \in 0 .. 1 /\ v <= x /\ w <= y
      BY <1>2, <1>3, <2>1 DEF One
    <2>3. Restarts + x + y <= events + 1
      BY <1>3, <2>1 DEF PaidInv
    <2>4. Restarts' + v + w <= events' + 1
      <3>1. Restarts + v + w <= Restarts + x + y
        BY <1>1, <2>2
      <3>2. Restarts + v + w <= events + 1
        BY <1>1, <2>2, <2>3, <3>1
      <3>3. PICK e \in Nat : e = events'
        OBVIOUS
      <3>4. events <= e
        BY <3>3
      <3>5. Restarts + v + w <= e + 1
        BY <1>1, <2>2, <3>2, <3>4
      <3> QED
        BY <1>1, <3>3, <3>5
    <2> QED
      BY <1>3, <2>1, <2>4 DEF PaidInv
  <1>4. CASE ~dterm
    <2>1. PICK x, y, v, w : /\ x = One(Doomed("fm")) /\ v = One(Doomed("fm"))'
                            /\ y = One(Doomed("mon")) /\ w = One(Doomed("mon"))'
      OBVIOUS
    <2>2. x \in 0 .. 1 /\ y \in 0 .. 1 /\ v \in 0 .. 1 /\ w \in 0 .. 1
      BY <2>1 DEF One
    <2>3. \/ v <= x /\ w <= y
          \/ (v <= x \/ w <= y) /\ events' = events + 1
      BY <1>2, <1>4, <2>1 DEF One
    <2>4. Restarts + x + y <= events
      BY <1>4, <2>1 DEF PaidInv
    <2>5. Restarts' + v + w <= events'
      BY <1>1, <2>2, <2>3, <2>4
    <2> QED
      BY <1>4, <2>1, <2>5 DEF PaidInv
  <1> QED
    BY <1>3, <1>4

\* What can end a helper, or make its end certain, is a fault, a SIGTERM, or the
\* end of the daemon; a word the daemon sends does not.
LEMMA HelperFate ==
    ASSUME TypeOK, DownInv, NEW p \in Proc, Helper(p), ~Over
    PROVE  /\ events' = events \/ events' = events + 1
           /\ \/ Live(p)' /\ pc'[p] # "handler"
              \/ pc[p] = "handler" \/ term[p] \/ events' = events + 1
  <1> USE DEF TypeOK, KernelTypeOK
  <1>1. ~DaemonHungUp
    BY DEF DaemonHungUp, Over, Ending
  <1>2. CASE ServeDaemon(p)
    <2>1. Head(down[p]) # "PANIC"
      <3>1. down[p] \in Seq(Word) /\ down[p] # <<>>
        BY <1>2 DEF ServeDaemon
      <3>2. Head(down[p]) = down[p][1] /\ 1 \in 1 .. Len(down[p])
        BY <3>1
      <3> QED
        BY <3>2 DEF DownInv
    <2>2. pc'[p] = "loop" /\ events' = events
      BY <1>1, <1>2, <2>1 DEF ServeDaemon, Send
    <2> QED
      BY <2>2 DEF Live, RunningPc
  <1>3. CASE \/ SendAck(p) \/ GetAck(p) \/ ReportBackupTimer(p) \/ ReportTransferTimer(p)
             \/ OpenLog(p) \/ InitializeSignals(p)
    BY <1>1, <1>3 DEF SendAck, GetAck, Acknowledged, ReportBackupTimer, ReportTransferTimer,
       OpenLog, InitializeSignals, AfterSignals, Send, Happens, Live, RunningPc
  <1>4. CASE InitializeInotify(p)
    BY <1>1, <1>4 DEF InitializeInotify, Send, Happens, Live, RunningPc
  <1>5. CASE TakeSigTerm(p) \/ HandlerReturns(p) \/ TimerFires(p) \/ Crash(p)
    BY <1>5 DEF TakeSigTerm, HandlerReturns, TimerFires, Crash, Happens
  <1> QED
    BY <1>2, <1>3, <1>4, <1>5 DEF Helper, ChildStep, ChildEvent

\* SIGTERM is sent to one unfit helper, or in a step that marks dterm or the end.
LEMMA TermStep ==
    ASSUME IInv, PipeInv, TermInv, [Next]_vars
    PROVE  TermInv'
  <1> USE DEF IInv, TypeOK, KernelTypeOK
  <1> SUFFICES ASSUME ~dterm', ~Over', NEW p \in Proc, term'[p], Live(p)'
               PROVE  p = Now(who)' /\ dpc' = "reap"
    BY DEF TermInv
  <1>1. CASE \E q \in Proc : Helper(q)
    <2>1. UNCHANGED <<dterm, dpc, who, cur, term>> /\ Settled
      BY <1>1, HelperSettled DEF Helper, endVars, rosterVars
    <2>2. Live(p)
      BY <2>1 DEF Settled, Live
    <2> QED
      BY <2>1, <2>2 DEF TermInv, Over, Now
  <1>2. CASE KillUnfit
    <2>1. ~dterm /\ ~Over /\ dpc = "unfit" /\ SigTerm({Now(who)}) /\ dpc' = "reap"
          /\ UNCHANGED <<who, cur>>
      BY <1>2 DEF KillUnfit, endVars, rosterVars, Over, Ending
    <2>2. Live(p) /\ (term[p] \/ p = Now(who))
      BY <2>1 DEF SigTerm, Live, RunningPc, Corpse
    <2>3. ~term[p]
      BY <2>1, <2>2 DEF TermInv
    <2> QED
      BY <2>1, <2>2, <2>3 DEF Now
  <1>3. CASE ReapUnfit
    <2>1. ~dterm /\ ~Over /\ term' = term
      BY <1>3 DEF ReapUnfit, endVars, Over, Ending
    <2>2. Live(p) /\ p # Now(who)
      BY <1>3 DEF ReapUnfit, WaitFor, Live, RunningPc
    <2> QED
      BY <2>1, <2>2 DEF TermInv
  <1>4. CASE HandleSignal \/ CleanClose \/ PollFails \/ SyscallFails \/ HandshakeTimeout
             \/ SignalWait \/ CloseWait
    BY <1>4 DEF HandleSignal, CleanClose, PollFails, KillGroup, SyscallFails, HandshakeTimeout,
                SignalWait, CloseWait, Ends, Over, Ending
  <1>5. CASE \E group \in BOOLEAN : TermArrives(group)
    BY <1>5 DEF TermArrives, Ends, Over, Ending
  <1>6. CASE UNCHANGED vars
    <2>1. UNCHANGED <<dterm, dpc, who, cur, term, pc>>
      BY <1>6 DEF vars, daemonVars, kernelVars, rosterVars, endVars
    <2> QED
      BY <2>1 DEF TermInv, Over, Now, Live
  <1>7. CASE ChildSpawn
    <2>1. PICK c \in Child : c = who
      BY DEF DaemonTypeOK
    <2>2. ~term'[Now(c)'] /\ term' = term
      BY <1>7, <2>1, Spawn DEF PipeInv
    <2>3. dpc = "fork" /\ ~dterm /\ pc' = [pc EXCEPT ![<<c, cur[c] + 1>>] = "boot"]
          /\ Now(c)' = <<c, cur[c] + 1>>
      BY <1>7, <2>1 DEF ChildSpawn, endVars, DaemonTypeOK, Now
    <2>4. Live(p)
      BY <2>2, <2>3 DEF Live
    <2> QED
      BY <2>2, <2>3, <2>4 DEF TermInv, Over, Ending
  <1>8. CASE \/ HandshakeStep \/ Drain \/ (\E c \in Child : HandleChild(c)) \/ SendProbe
             \/ GetAnswer \/ EnterLoop \/ DaemonPoll \/ AcceptClient \/ HandleTick
             \/ (\E close, gone \in BOOLEAN : EndSession(close, gone))
             \/ AnswerTimeout \/ CountRetry
    <2>1. UNCHANGED <<pc, term, dterm>>
      BY <1>8 DEF HandshakeStep, AcknowledgeClient, ReadBackupTimer, ReadTransferTimer, Drain,
         HandleChild, SendProbe, GetAnswer, AnswerFrom, EnterLoop, DaemonPoll, Poll,
         AcceptClient, HandleTick, EndSession, AnswerTimeout, CountRetry, kernelVars, endVars
    <2>2. ~Over /\ dpc # "reap"
      BY <1>8 DEF HandshakeStep, AcknowledgeClient, ReadBackupTimer, ReadTransferTimer, Drain,
         HandleChild, Turn, SendProbe, GetAnswer, AnswerFrom, EnterLoop, DaemonPoll, Poll,
         AcceptClient, HandleTick, EndSession, AnswerTimeout, CountRetry, Over, Ending
    <2> QED
      BY <2>1, <2>2 DEF TermInv, Live
  <1> QED
    BY <1>1, <1>2, <1>3, <1>4, <1>5, <1>6, <1>7, <1>8, StepKinds
       DEF CalmStep, PipeStep, HandshakeStep

\* Faults are counted and never forgotten, nor is SIGTERM; only CountRetry counts
\* a restart; an ending daemon does not come back.
LEMMA StepFrame ==
    ASSUME IInv, [Next]_vars
    PROVE  /\ events \in Nat /\ events' \in Nat /\ events <= events'
           /\ dterm => dterm'
           /\ CountRetry \/ retries' = retries
           /\ Over => Over'
           /\ dterm' = dterm \/ Over' \/ \E group \in BOOLEAN : TermArrives(group)
  <1> USE DEF loopVars, rosterVars, timerVars, endVars, kernelVars, Over, Ending
  <1>1. events \in Nat
    BY PaidNumbers DEF IInv
  <1>2. events' = events \/ (\E kind \in FaultKind : Happens(kind)) =>
          events' \in Nat /\ events <= events'
    BY <1>1 DEF Happens
  <1>3. CASE \E p \in Proc : Helper(p)
    <2>1. PICK p \in Proc : Helper(p)
      BY <1>3
    <2>2. UNCHANGED <<retries, dterm, dpc>>
      BY <2>1, HelperSettled DEF Helper, IInv
    <2>3. events' = events \/ events' = events + 1
      BY <2>1 DEF Helper, ChildStep, ChildEvent, SendAck, GetAck, ReportBackupTimer,
         ReportTransferTimer, OpenLog, InitializeSignals, InitializeInotify, ServeDaemon,
         TakeSigTerm, HandlerReturns, TimerFires, Crash, Happens
    <2> QED
      BY <1>1, <2>2, <2>3
  <1>4. CASE CountRetry
    BY <1>1, <1>4 DEF CountRetry, Ends
  <1>5. CASE HandleSignal \/ CleanClose \/ SignalWait \/ CloseWait \/ KillUnfit \/ ReapUnfit
    BY <1>1, <1>5 DEF HandleSignal, Turn, CleanClose, KillGroup, SignalWait, CloseWait,
                      KillUnfit, ReapUnfit
  <1>6. CASE HandshakeTimeout \/ PollFails \/ SyscallFails \/ AnswerTimeout
    BY <1>1, <1>6 DEF HandshakeTimeout, PollFails, KillGroup, SyscallFails, Turn, AnswerTimeout,
                      TimeoutIsUnfit, Happens, Ends
  <1>7. CASE \E group \in BOOLEAN : TermArrives(group)
    BY <1>1, <1>7 DEF TermArrives, Happens, Ends
  <1>8. CASE EnterLoop \/ DaemonPoll \/ AcceptClient \/ HandleTick
    BY <1>1, <1>8 DEF EnterLoop, DaemonPoll, Poll, AcceptClient, HandleTick, Turn, Happens
  <1>9. CASE \E close, gone \in BOOLEAN : EndSession(close, gone)
    BY <1>1, <1>9 DEF EndSession
  <1>10. CASE PipeStep
    <2>1. UNCHANGED <<retries, dterm, events>>
      BY <1>10 DEF PipeStep, ChildSpawn, AcknowledgeClient, ReadBackupTimer,
         ReadTransferTimer, Drain, HandleChild, SendProbe, GetAnswer, AnswerFrom
    <2>2. ~Over
      BY <1>10 DEF PipeStep, ChildSpawn, AcknowledgeClient, ReadBackupTimer,
         ReadTransferTimer, Drain, HandleChild, Turn, SendProbe, GetAnswer, AnswerFrom
    <2> QED
      BY <1>1, <2>1, <2>2
  <1>11. CASE UNCHANGED vars
    BY <1>1, <1>11 DEF vars, daemonVars
  <1> QED
    BY <1>3, <1>4, <1>5, <1>6, <1>7, <1>8, <1>9, <1>10, <1>11, StepKinds DEF CalmStep

\* A step that touches no process dooms no helper, if the daemon does not find
\* one unfit in it.
LEMMA DoomKept ==
    ASSUME UNCHANGED <<pc, cur>>, dpc # "fork",
           NEW c \in Child,
           who' = c /\ dpc' \in {"unfit", "reap", "retry"} => Doomed(c)
    PROVE  Doomed(c)' => Doomed(c)
  BY DEF Doomed, Live, Now

\* The loop looks at SIGTERM before anything else.
LEMMA SigFirst ==
    ASSUME NEW s \in {"client", "fm", "mon", "tick"}, Turn(s)
    PROVE  "sig" \notin rev
  <1>1. Rank["sig"] = 1
    BY DEF Rank, Source
  <1>2. Rank[s] \in {2, 3, 4, 5}
    BY DEF Rank, Source
  <1> QED
    BY <1>1, <1>2 DEF Turn

\* The restart that is counted had been paid for.
LEMMA PaidRetry ==
    ASSUME IInv, PaidInv, CountRetry
    PROVE  PaidInv'
  <1> USE DEF IInv
  <1>1. /\ dpc = "retry" /\ retries' = [retries EXCEPT ![who] = @ + 1]
        /\ dpc' \in {"fork", "exited"} /\ UNCHANGED <<who, cur, pc, events, dterm, looping>>
    BY DEF CountRetry, Ends, kernelVars, loopVars, endVars
  <1>2. who \in Child /\ cur[who] > 0
    <2>1. who \in Child /\ cur[who] = retries[who] + 1 /\ retries[who] \in Nat
      BY <1>1, NowType DEF TypeOK, DaemonTypeOK
    <2> QED
      BY <2>1
  <1>3. events \in Nat /\ Restarts \in Nat /\ retries["fm"] \in Nat /\ retries["mon"] \in Nat
    BY PaidNumbers
  <1>4. Restarts' = Restarts + 1
    <2>1. retries \in [Child -> 0 .. (MaxRetries + 2)]
      BY DEF TypeOK, DaemonTypeOK
    <2>2. CASE who = "fm"
      <3>1. retries'["fm"] = retries["fm"] + 1 /\ retries'["mon"] = retries["mon"]
        BY <1>1, <2>1, <2>2 DEF Child
      <3> QED
        BY <1>3, <3>1 DEF Restarts
    <2>3. CASE who = "mon"
      <3>1. retries'["mon"] = retries["mon"] + 1 /\ retries'["fm"] = retries["fm"]
        BY <1>1, <2>1, <2>3 DEF Child
      <3> QED
        BY <1>3, <3>1 DEF Restarts
    <2> QED
      BY <1>2, <2>2, <2>3 DEF Child
  <1>5. ~Over /\ Doomed(who) /\ Exposed(who)
    BY <1>1, <1>2 DEF Over, Ending, Doomed, Exposed
  <1>6. Over' \/ \A c \in Child : /\ Doomed(c)' => Doomed(c) /\ c # who
                                  /\ Exposed(c)' => Exposed(c) /\ c # who
    <2>1. CASE dpc' = "exited"
      BY <2>1 DEF Over, Ending
    <2>2. CASE dpc' = "fork"
      BY <1>1, <2>2 DEF Doomed, Exposed, Live, Now
    <2> QED
      BY <1>1, <2>1, <2>2
  <1>7. Over' => ~Exposed("fm")' /\ ~Exposed("mon")'
    BY DEF Over, Ending, Exposed
  <1>8. PICK x, y, v, w : /\ x = One(Doomed("fm")) /\ v = One(Doomed("fm"))'
                          /\ y = One(Doomed("mon")) /\ w = One(Doomed("mon"))'
    OBVIOUS
  <1>9. PICK a, b, s, t : /\ a = One(Exposed("fm")) /\ s = One(Exposed("fm"))'
                          /\ b = One(Exposed("mon")) /\ t = One(Exposed("mon"))'
    OBVIOUS
  <1>10. /\ x \in 0 .. 1 /\ y \in 0 .. 1 /\ v \in 0 .. 1 /\ w \in 0 .. 1
         /\ a \in 0 .. 1 /\ b \in 0 .. 1 /\ s \in 0 .. 1 /\ t \in 0 .. 1
    BY <1>8, <1>9 DEF One
  <1>11. ~Over' => v + w + 1 <= x + y
    BY <1>2, <1>5, <1>6, <1>8 DEF Child, One
  <1>12. s + t + 1 <= a + b
    BY <1>2, <1>5, <1>6, <1>7, <1>9 DEF Child, One
  <1>13. x + y >= 1
    BY <1>2, <1>5, <1>8 DEF Child, One
  <1>14. CASE dterm
    <2>1. Restarts + a + b <= events + 1
      BY <1>9, <1>14 DEF PaidInv
    <2>2. Restarts + 1 + s + t <= events + 1
      BY <1>3, <1>10, <1>12, <2>1
    <2>3. Restarts + 1 <= events + 1
      BY <1>3, <1>10, <2>2
    <2>4. Restarts' + s + t <= events' + 1 /\ Restarts' <= events' + One(dterm)'
      BY <1>1, <1>4, <1>14, <2>2, <2>3 DEF One
    <2> QED
      BY <1>1, <1>9, <1>14, <2>4 DEF PaidInv
  <1>15. CASE ~dterm
    <2>1. Restarts + x + y <= events
      BY <1>5, <1>8, <1>15 DEF PaidInv
    <2>2. Restarts + 1 <= events
      BY <1>3, <1>10, <1>13, <2>1
    <2>3. Restarts' <= events' + One(dterm)'
      BY <1>1, <1>3, <1>4, <1>15, <2>2 DEF One
    <2>4. ~Over' => Restarts + 1 + v + w <= events
      BY <1>3, <1>10, <1>11, <2>1
    <2>5. ~Over' => Restarts' + v + w <= events'
      BY <1>1, <1>4, <2>4
    <2> QED
      BY <1>1, <1>8, <1>15, <2>3, <2>5 DEF PaidInv
  <1> QED
    BY <1>14, <1>15

\* Nothing is restarted that was not paid for.
LEMMA PaidStep ==
    ASSUME IInv, PipeInv, TermInv, PaidInv, [Next]_vars
    PROVE  PaidInv'
  <1> USE DEF IInv
  <1>1. /\ events \in Nat /\ events' \in Nat /\ events <= events'
        /\ dterm => dterm'
        /\ CountRetry \/ retries' = retries
        /\ Over => Over'
        /\ dterm' = dterm \/ Over' \/ \E group \in BOOLEAN : TermArrives(group)
    BY StepFrame
  <1>2. CASE CountRetry
    BY <1>2, PaidRetry
  <1>3. CASE ~CountRetry /\ Over'
    BY <1>1, <1>3, PaidEnding
  <1>4. CASE ~Over' /\ \E group \in BOOLEAN : TermArrives(group)
    <2>1. PICK group \in BOOLEAN : TermArrives(group)
      BY <1>4
    <2>2. events' = events + 1 /\ dterm' = TRUE /\ UNCHANGED <<retries, dpc, who, looping, rev>>
      BY <1>4, <2>1
         DEF TermArrives, Happens, Ends, Over, Ending, rosterVars, loopVars
    <2>3. CASE dterm
      <3>1. \A c \in Child : Exposed(c)' => Exposed(c)
        BY <2>2 DEF Exposed
      <3>2. dterm' = dterm
        BY <2>2, <2>3 DEF TypeOK, DaemonTypeOK
      <3> QED
        BY <1>1, <1>4, <2>2, <2>3, <3>1, <3>2, PaidLoop
    <2>4. CASE ~dterm
      <3>1. Restarts \in Nat /\ Restarts' = Restarts
        BY <2>2, PaidNumbers DEF Restarts
      <3>2. Restarts <= events
        BY <1>1, <1>4, <2>4, <3>1 DEF PaidInv, One
      <3>3. PICK s, t : s = One(Exposed("fm"))' /\ t = One(Exposed("mon"))'
        OBVIOUS
      <3>4. s \in 0 .. 1 /\ t \in 0 .. 1
        BY <3>3 DEF One
      <3>5. Restarts + s + t <= events + 1 + 1
        BY <1>1, <3>1, <3>2, <3>4
      <3>6. Restarts' + s + t <= events' + 1
        BY <2>2, <3>1, <3>5
      <3> QED
        BY <1>4, <2>2, <3>3, <3>6 DEF PaidInv
    <2> QED
      BY <2>3, <2>4
  <1>5. ASSUME ~Over', ~CountRetry, ~\E group \in BOOLEAN : TermArrives(group),
               retries' = retries, dterm' = dterm, ~Over, NEW d,
               \A c \in Child : ~dterm /\ Doomed(c)' =>
                                  Doomed(c) \/ (c = d /\ events' = events + 1),
               \A c \in Child : dterm /\ Exposed(c)' => Exposed(c)
        PROVE  PaidInv'
    BY <1>1, <1>5, PaidLoop
  <1>6. SUFFICES ASSUME ~Over', ~Over, ~CountRetry,
                        ~\E group \in BOOLEAN : TermArrives(group),
                        retries' = retries, dterm' = dterm
                 PROVE  PaidInv'
    BY <1>1, <1>2, <1>3, <1>4
  <1>7. CASE \E p \in Proc : Helper(p)
    <2>1. PICK p \in Proc : Helper(p)
      BY <1>7
    <2>2. UNCHANGED <<dpc, who, looping, rev, cur>>
      BY <2>1, HelperSettled DEF Helper, rosterVars, loopVars
    <2>3. ASSUME NEW c \in Child, ~dterm, Doomed(c)', ~Doomed(c)
          PROVE  c = p[1] /\ events' = events + 1
      <3>1. cur[c] > 0 /\ ~(who = c /\ dpc = "fork") /\ Now(c)' = Now(c)
        BY <2>2, <2>3 DEF Doomed, Now
      <3>2. Now(c) \in Proc /\ Live(Now(c)) /\ pc[Now(c)] # "handler"
        BY <2>3, <3>1, CurType DEF Doomed
      <3>3. ~Live(Now(c))' \/ pc'[Now(c)] = "handler"
        BY <2>2, <2>3, <3>1 DEF Doomed, Live
      <3>4. Now(c) = p
        <4>1. ASSUME Now(c) # p PROVE FALSE
          <5>1. pc'[Now(c)] = pc[Now(c)]
            BY <2>1, <3>2, <4>1, HelperAlone DEF OthersAlone
          <5> QED
            BY <3>1, <3>2, <3>3, <5>1 DEF Live
        <4> QED
          BY <4>1
      <3>5. ~term[p]
        BY <1>6, <2>3, <3>1, <3>2, <3>4 DEF TermInv, Doomed, Now
      <3>6. events' = events + 1
        BY <1>6, <2>1, <3>1, <3>2, <3>3, <3>4, <3>5, HelperFate DEF PipeInv, Live
      <3> QED
        BY <3>4, <3>6 DEF Now
    <2>4. \A c \in Child : Exposed(c)' => Exposed(c)
      BY <2>2 DEF Exposed
    <2> QED
      BY <1>5, <1>6, <2>3, <2>4
  <1>8. ASSUME UNCHANGED <<pc, cur>>, dpc # "fork", dpc' \notin {"unfit", "reap", "retry"},
               \A c \in Child : dterm /\ Exposed(c)' => Exposed(c)
        PROVE  PaidInv'
    BY <1>5, <1>6, <1>8, DoomKept
  <1>9. CASE EnterLoop \/ DaemonPoll \/ AcceptClient \/ HandleTick
    <2>1. UNCHANGED <<pc, cur>> /\ dpc # "fork" /\ dpc' \in {"poll", "dispatch", "session", "drain"}
      BY <1>9 DEF EnterLoop, DaemonPoll, Poll, AcceptClient, HandleTick, Turn,
                  kernelVars, rosterVars
    <2>2. CASE EnterLoop \/ DaemonPoll
      <3>1. dpc' = "poll" \/ (dpc' = "dispatch" /\ (dterm => "sig" \in rev'))
        BY <2>2 DEF EnterLoop, DaemonPoll, Poll, Ready
      <3>2. \A c \in Child : dterm /\ Exposed(c)' => FALSE
        BY <3>1 DEF Exposed
      <3> QED
        BY <1>8, <2>1, <3>2
    <2>3. CASE AcceptClient \/ HandleTick
      <3>1. dpc = "dispatch" /\ "sig" \notin rev
        BY <2>3, SigFirst DEF AcceptClient, HandleTick, Turn
      <3>2. \A c \in Child : Exposed(c)
        BY <3>1 DEF Exposed
      <3> QED
        BY <1>8, <2>1, <3>2
    <2> QED
      BY <1>9, <2>2, <2>3
  <1>10. CASE \E close, gone \in BOOLEAN : EndSession(close, gone)
    <2>1. UNCHANGED <<pc, cur>> /\ dpc = "session"
      BY <1>10 DEF EndSession, kernelVars, rosterVars
    <2>2. dpc' \notin {"fork", "unfit", "reap", "retry"}
      BY <1>10 DEF EndSession, BrokenPipe, Ends
    <2>3. \A c \in Child : Exposed(c)
      BY <2>1 DEF Exposed
    <2> QED
      BY <1>8, <2>1, <2>2, <2>3
  <1>11. CASE AnswerTimeout
    <2>1. /\ UNCHANGED <<pc, cur, who>> /\ dpc = "answer" /\ dpc' = "unfit"
          /\ events' = events + 1
      BY <1>11 DEF AnswerTimeout, TimeoutIsUnfit, Happens, kernelVars
    <2>2. \A c \in Child : Doomed(c)' => Doomed(c) \/ c = who
      BY <2>1 DEF Doomed, Live, Now
    <2>3. \A c \in Child : Exposed(c)' => Exposed(c)
      BY <2>1 DEF Exposed
    <2> QED
      BY <1>5, <1>6, <2>1, <2>2, <2>3
  <1>12. CASE KillUnfit \/ ReapUnfit
    <2>1. /\ UNCHANGED <<cur, who, looping, rev>> /\ dpc \in {"unfit", "reap"}
          /\ dpc' \in {"reap", "retry"}
      BY <1>12 DEF KillUnfit, ReapUnfit, rosterVars, loopVars
    <2>2. Now(who) \in Proc
      BY <2>1, NowType DEF TypeOK, DaemonTypeOK, PhaseInv
    <2>3. \A p \in Proc : p # Now(who) => pc'[p] = pc[p]
      BY <1>12, <2>2 DEF KillUnfit, SigTerm, ReapUnfit, WaitFor, TypeOK, KernelTypeOK
    <2>4. ASSUME NEW c \in Child, Doomed(c)' PROVE Doomed(c)
      <3>1. CASE c = who
        BY <2>1, <2>4, <3>1 DEF Doomed
      <3>2. CASE c # who
        <4>1. cur[c] > 0 /\ Now(c)' = Now(c) /\ Now(c) # Now(who)
          BY <2>1, <2>4, <3>2 DEF Doomed, Now
        <4>2. pc'[Now(c)] = pc[Now(c)]
          BY <2>3, <4>1, CurType
        <4> QED
          BY <2>1, <2>4, <3>2, <4>1, <4>2 DEF Doomed, Live
      <3> QED
        BY <3>1, <3>2
    <2>5. \A c \in Child : Exposed(c)' => Exposed(c)
      BY <2>1 DEF Exposed
    <2> QED
      BY <1>5, <1>6, <2>4, <2>5
  <1>13. CASE UNCHANGED vars
    <2>1. UNCHANGED <<pc, cur, who, dpc, looping, rev>>
      BY <1>13 DEF vars, kernelVars, daemonVars, rosterVars, loopVars
    <2>2. \A c \in Child : (Exposed(c)' => Exposed(c)) /\ (Doomed(c)' => Doomed(c))
      BY <2>1 DEF Exposed, Doomed, Live, Now
    <2> QED
      BY <1>5, <1>6, <2>2
  <1>14. CASE \/ HandleSignal \/ HandshakeTimeout \/ PollFails \/ SyscallFails
              \/ SignalWait \/ CleanClose \/ CloseWait
    BY <1>6, <1>14 DEF HandleSignal, HandshakeTimeout, PollFails, SyscallFails, SignalWait,
                       CleanClose, CloseWait, Ends, Over, Ending
  <1>15. CASE ChildSpawn
    <2>1. PICK d \in Child : d = who
      BY DEF TypeOK, DaemonTypeOK
    <2>2. dpc = "fork" /\ dpc' = "ack" /\ UNCHANGED <<who, looping>>
      BY <1>15 DEF ChildSpawn, loopVars
    <2>3. \A c \in Child : Exposed(c)' => Exposed(c)
      BY <2>2 DEF Exposed
    <2>4. ASSUME NEW c \in Child, Doomed(c)' PROVE Doomed(c)
      <3>1. CASE c = d
        <4>1. pc'[Now(c)'] = "boot"
          BY <1>15, <2>1, <3>1, Spawn DEF PipeInv
        <4> QED
          BY <2>2, <2>4, <4>1 DEF Doomed, Live, RunningPc
      <3>2. CASE c # d
        <4>1. /\ cur'[c] = cur[c] /\ Now(c)' = Now(c)
              /\ \A i \in Inc : pc'[<<c, i>>] = pc[<<c, i>>]
          BY <1>15, <2>1, <3>2, Spawn DEF PipeInv
        <4>2. cur[c] > 0
          BY <2>4, <4>1 DEF Doomed
        <4>3. pc'[Now(c)] = pc[Now(c)]
          BY <4>1, <4>2, CurType DEF Now, Proc
        <4> QED
          BY <2>1, <2>2, <2>4, <3>2, <4>1, <4>3 DEF Doomed, Live
      <3> QED
        BY <3>1, <3>2
    <2> QED
      BY <1>5, <1>6, <2>3, <2>4
  <1>16. CASE AcknowledgeClient
    <2>1. UNCHANGED <<pc, cur, looping>> /\ dpc = "ack"
      BY <1>16 DEF AcknowledgeClient, loopVars
    <2>2. \/ dpc' = "timer_b" /\ who' = who
          \/ who = "mon" /\ dpc' = (IF looping THEN "poll" ELSE "enter")
      BY <1>6, <1>16 DEF AcknowledgeClient, HasPostLaunch, Started, Resume, BrokenPipe, Ends,
                         Over, Ending, TypeOK, DaemonTypeOK, Child
    <2>3. \A c \in Child : Exposed(c)' => Exposed(c)
      BY <2>1, <2>2 DEF Exposed
    <2> QED
      BY <1>8, <2>1, <2>2, <2>3
  <1>17. CASE ReadBackupTimer
    <2>1. UNCHANGED <<pc, cur, who, looping>> /\ dpc = "timer_b" /\ dpc' = "timer_t"
      BY <1>6, <1>17 DEF ReadBackupTimer, Ends, Over, Ending, rosterVars, loopVars
    <2>2. \A c \in Child : Exposed(c)' => Exposed(c)
      BY <2>1 DEF Exposed
    <2> QED
      BY <1>8, <2>1, <2>2
  <1>18. CASE ReadTransferTimer
    <2>1. UNCHANGED <<pc, cur, looping>> /\ dpc = "timer_t" /\ who = "fm"
      BY <1>18 DEF ReadTransferTimer, loopVars, PhaseInv
    <2>2. who' = "mon" /\ dpc' = (IF looping THEN "probe" ELSE "fork")
      BY <1>6, <1>18, <2>1 DEF ReadTransferTimer, Started, Resume, Ends, Over, Ending
    <2>3. \A c \in Child : Exposed(c)' => Exposed(c)
      BY <2>1, <2>2 DEF Exposed, Child
    <2> QED
      BY <1>8, <2>1, <2>2, <2>3
  <1>19. CASE Drain
    <2>1. UNCHANGED <<pc, cur>> /\ dpc = "drain" /\ dpc' \in {"drain", "probe"}
      BY <1>6, <1>19 DEF Drain, UnlessPanic, Over, Ending
    <2>2. \A c \in Child : Exposed(c)
      BY <2>1 DEF Exposed
    <2> QED
      BY <1>8, <2>1, <2>2
  <1>20. CASE \E c \in Child : HandleChild(c)
    <2>1. PICK c \in Child : HandleChild(c)
      BY <1>20
    <2>2. UNCHANGED <<pc, cur>> /\ dpc = "dispatch" /\ dpc' \in {"dispatch", "poll"}
      BY <1>6, <2>1 DEF HandleChild, Turn, UnlessPanic, Handled, Over, Ending
    <2>3. "sig" \notin rev
      BY <2>1, SigFirst DEF HandleChild, Child
    <2>4. \A d \in Child : Exposed(d)
      BY <2>2, <2>3 DEF Exposed
    <2> QED
      BY <1>8, <2>2, <2>4
  <1>21. CASE SendProbe
    <2>1. UNCHANGED <<pc, cur, who>> /\ dpc = "probe"
      BY <1>21 DEF SendProbe
    <2>2. dpc' = "answer" \/ (dpc' = "retry" /\ ~PidExists(Now(who)))
      BY <1>6, <1>21 DEF SendProbe, BrokenPipe, Ends, Over, Ending
    <2>3. who \in Child /\ cur[who] > 0
      <3>1. who \in Child /\ cur[who] = retries[who] + 1 /\ retries[who] \in Nat
        BY <2>1, NowType DEF TypeOK, DaemonTypeOK, PhaseInv
      <3> QED
        BY <3>1
    <2>4. dpc' = "retry" => Doomed(who)
      BY <2>1, <2>2, <2>3 DEF Doomed, PidExists, Live, RunningPc
    <2>5. \A c \in Child : Doomed(c)' => Doomed(c)
      BY <2>1, <2>2, <2>4, DoomKept
    <2>6. \A c \in Child : Exposed(c)' => Exposed(c)
      BY <2>1, <2>2 DEF Exposed
    <2> QED
      BY <1>5, <1>6, <2>5, <2>6
  <1>22. CASE GetAnswer
    <2>1. PICK d \in Child : d = who
      BY DEF TypeOK, DaemonTypeOK
    <2>2. PICK w \in Word : /\ ReadUp(Now(d), w)
                            /\ IF IsCommand(w) THEN Resume ELSE dpc' = "unfit" /\ UNCHANGED who
      BY <1>22, <2>1 DEF GetAnswer, AnswerFrom
    <2>3. UNCHANGED <<pc, cur>> /\ dpc = "answer" /\ looping
      BY <1>22 DEF GetAnswer, AnswerFrom, PhaseInv
    <2>4. \/ dpc' = "unfit" /\ who' = who
          \/ dpc' = "probe" /\ who' = "mon"
          \/ dpc' = "poll"
      BY <2>2, <2>3 DEF Resume
    <2>5. dpc' = "unfit" => Doomed(d)
      <3>1. LoopRead(d)
        BY <1>22, <2>1 DEF LoopRead
      <3>2. /\ Now(d) \in Proc /\ cur[d] > 0 /\ ~Abandoned(d)
            /\ Heard(d) = Len(Opening(d))
        BY <3>1, Loop
      <3>3. up[Now(d)] # <<>> => w \in {"ACK", "PANIC"}
        BY <2>2, <3>2, ReadCommand DEF PipeInv, OpeningInv
      <3>4. dpc' = "unfit" => ~Live(Now(d))
        BY <2>2, <2>3, <3>3 DEF ReadUp, IsCommand, Resume
      <3> QED
        BY <2>3, <3>2, <3>4 DEF Doomed
    <2>6. \A c \in Child : Doomed(c)' => Doomed(c)
      BY <2>1, <2>3, <2>4, <2>5, DoomKept
    <2>7. \A c \in Child : Exposed(c)' => Exposed(c)
      BY <2>3, <2>4 DEF Exposed
    <2> QED
      BY <1>5, <1>6, <2>6, <2>7
  <1> QED
    BY <1>6, <1>7, <1>9, <1>10, <1>11, <1>12, <1>13, <1>14, <1>15, <1>16, <1>17, <1>18,
       <1>19, <1>20, <1>21, <1>22, StepKinds DEF CalmStep, PipeStep

\* A restart costs a fault, and the only fault that can cost two is a SIGTERM to
\* the group: a word that is late, stale or unset never makes the daemon replace
\* a healthy helper.
THEOREM RestartsCostFaults == Spec => []RestartsArePaid
  <1>1. Init => TermInv /\ PaidInv
    <2> SUFFICES ASSUME Init PROVE TermInv /\ PaidInv
      OBVIOUS
    <2>1. TermInv
      BY DEF Init, KernelInit, TermInv
    <2>2. /\ events = 0 /\ dterm = FALSE /\ dpc = "fork" /\ Restarts = 0
          /\ cur["fm"] = 0 /\ cur["mon"] = 0
      BY DEF Init, KernelInit, DaemonInit, Restarts, Child
    <2>3. ~Doomed("fm") /\ ~Doomed("mon") /\ ~Over
      BY <2>2 DEF Doomed, Over, Ending
    <2>4. PaidInv
      BY <2>2, <2>3 DEF PaidInv, One
    <2> QED
      BY <2>1, <2>4
  <1>2. IInv /\ PipeInv /\ TermInv /\ PaidInv /\ [Next]_vars => TermInv' /\ PaidInv'
    BY TermStep, PaidStep
  <1>3. IInv /\ PaidInv => RestartsArePaid
    <2> SUFFICES ASSUME IInv, PaidInv
                 PROVE  Restarts <= events + (IF dterm THEN 1 ELSE 0)
      BY DEF RestartsArePaid, Restarts
    <2>1. events \in Nat /\ Restarts \in Nat
      BY PaidNumbers DEF IInv
    <2>2. CASE dterm
      BY <2>1, <2>2 DEF PaidInv, One
    <2>3. CASE ~dterm /\ Over
      BY <2>1, <2>3 DEF PaidInv, One
    <2>4. CASE ~dterm /\ ~Over
      BY <2>1, <2>4 DEF PaidInv, One
    <2> QED
      BY <2>2, <2>3, <2>4
  <1> QED
    BY <1>1, <1>2, <1>3, PipesAreOrderly, PTL DEF Spec

-----------------------------------------------------------------------------
(* ProbesPaired.                                                           *)

NoProbe(s)  == \A k \in 1 .. Len(s) : s[k] # "PROBE"
OneProbe(s) == \E k \in 1 .. Len(s) : \A i \in 1 .. Len(s) : s[i] = "PROBE" <=> i = k

\* The daemon's ACK comes first in the pipe of a helper that is to read it: it
\* is never a probe that such a helper takes for the ACK.
Acked(c) ==
    /\ Heard(c) = 0 => down[Now(c)] = <<>>
    /\ Heard(c) > 0 /\ pc[Now(c)] \in {"boot", "acked"} =>
         down[Now(c)] # <<>> /\ Head(down[Now(c)]) = "ACK"

\* While the daemon waits for its answer a helper has the one probe before it or
\* the one answer behind it; at other times no probe, and in the other pipe no
\* word but what is unread of the opening.
Paired(c) ==
    Live(Now(c)) /\ ~Deaf(Now(c)) =>
        IF Awaits(c)
        THEN \/ OneProbe(down[Now(c)]) /\ up[Now(c)] = <<>>
             \/ NoProbe(down[Now(c)]) /\ up[Now(c)] = <<"ACK">>
        ELSE NoProbe(down[Now(c)]) /\ Len(up[Now(c)]) + Heard(c) = Said(Now(c))

AckInv  == \A c \in Child : cur[c] > 0 /\ ~Abandoned(c) => Acked(c)
PairInv == \A c \in Child : cur[c] > 0 /\ ~Abandoned(c) => Paired(c)

\* No helper sends a PANIC and works on.
SilentFaults == Faults \cap {"logfile", "inotify"} = {}

\* Probes in a sequence that is read from and written to.
LEMMA ProbeSeqs ==
    ASSUME NEW s \in Seq(Word)
    PROVE  /\ \A w \in Word : NoProbe(s) /\ w # "PROBE" => NoProbe(Append(s, w))
           /\ NoProbe(s) => OneProbe(Append(s, "PROBE"))
           /\ s # <<>> => /\ NoProbe(s) => NoProbe(Tail(s)) /\ Head(s) # "PROBE"
                          /\ OneProbe(s) /\ Head(s) = "PROBE" => NoProbe(Tail(s))
                          /\ OneProbe(s) /\ Head(s) # "PROBE" => OneProbe(Tail(s))
  <1>1. Len(s) \in Nat
    OBVIOUS
  <1>2. ASSUME NEW w \in Word
        PROVE  /\ Len(Append(s, w)) = Len(s) + 1
               /\ \A k \in 1 .. Len(s) : Append(s, w)[k] = s[k]
               /\ Append(s, w)[Len(s) + 1] = w
    OBVIOUS
  <1>3. ASSUME NEW w \in Word, NoProbe(s), w # "PROBE" PROVE NoProbe(Append(s, w))
    <2>1. PICK v : v = Append(s, w)
      OBVIOUS
    <2>2. NoProbe(v)
      BY <1>1, <1>2, <1>3, <2>1 DEF NoProbe
    <2> QED
      BY <2>1, <2>2
  <1>4. ASSUME NoProbe(s) PROVE OneProbe(Append(s, "PROBE"))
    <2>1. PICK v : v = Append(s, "PROBE")
      OBVIOUS
    <2>2. Len(v) = Len(s) + 1 /\ v[Len(s) + 1] = "PROBE" /\ \A k \in 1 .. Len(s) : v[k] = s[k]
      BY <1>2, <2>1 DEF Word
    <2>3. \A i \in 1 .. Len(v) : v[i] = "PROBE" <=> i = Len(s) + 1
      BY <1>1, <1>4, <2>2 DEF NoProbe
    <2>4. Len(s) + 1 \in 1 .. Len(v)
      BY <1>1, <2>2
    <2>5. OneProbe(v)
      BY <2>3, <2>4 DEF OneProbe
    <2> QED
      BY <2>1, <2>5
  <1>5. ASSUME s # <<>>
        PROVE  /\ NoProbe(s) => NoProbe(Tail(s)) /\ Head(s) # "PROBE"
               /\ OneProbe(s) /\ Head(s) = "PROBE" => NoProbe(Tail(s))
               /\ OneProbe(s) /\ Head(s) # "PROBE" => OneProbe(Tail(s))
    <2>1. PICK v : v = Tail(s)
      OBVIOUS
    <2>2. /\ Len(v) = Len(s) - 1 /\ Len(s) > 0 /\ Head(s) = s[1]
          /\ \A k \in 1 .. Len(v) : v[k] = s[k + 1]
      BY <1>5, <2>1
    <2>3. NoProbe(s) => NoProbe(v) /\ Head(s) # "PROBE"
      BY <1>1, <2>2 DEF NoProbe
    <2>4. ASSUME OneProbe(s)
          PROVE  /\ Head(s) = "PROBE" => NoProbe(v)
                 /\ Head(s) # "PROBE" => OneProbe(v)
      <3>1. PICK k \in 1 .. Len(s) : \A i \in 1 .. Len(s) : s[i] = "PROBE" <=> i = k
        BY <2>4 DEF OneProbe
      <3>2. Head(s) = "PROBE" <=> k = 1
        BY <1>1, <2>2, <3>1
      <3>3. \A i \in 1 .. Len(v) : v[i] = "PROBE" <=> i + 1 = k
        BY <1>1, <2>2, <3>1
      <3>4. k = 1 => NoProbe(v)
        BY <3>3 DEF NoProbe
      <3>5. ASSUME k # 1 PROVE OneProbe(v)
        <4>1. k - 1 \in 1 .. Len(v)
          BY <1>1, <2>2, <3>5
        <4>2. \A i \in 1 .. Len(v) : v[i] = "PROBE" <=> i = k - 1
          BY <1>1, <2>2, <3>3
        <4> QED
          BY <4>1, <4>2 DEF OneProbe
      <3> QED
        BY <3>2, <3>4, <3>5
    <2> QED
      BY <2>1, <2>3, <2>4
  <1> QED
    BY <1>3, <1>4, <1>5

\* A running helper has said at least what has been heard of it, and exactly that
\* when its pipe is empty.
LEMMA SaidHeard ==
    ASSUME PhaseInv, NEW c \in Child, Now(c) \in Proc, Orderly(c), Live(Now(c))
    PROVE  /\ Heard(c) \in Nat /\ Said(Now(c)) \in Nat
           /\ Heard(c) <= Said(Now(c)) /\ Said(Now(c)) <= Len(Opening(c))
           /\ up[Now(c)] = <<>> => Said(Now(c)) = Heard(c)
  <1>1. Now(c)[1] = c
    BY DEF Now
  <1>2. Said(Now(c)) \in 0 .. Len(Opening(c)) /\ Heard(c) \in Nat /\ Len(Opening(c)) \in Nat
    BY <1>1, Bounds
  <1>3. Holds(c, up[Now(c)], Heard(c), Said(Now(c)))
    BY DEF Orderly
  <1>4. Heard(c) <= Said(Now(c)) /\ Said(Now(c)) - Heard(c) <= Len(up[Now(c)])
    BY <1>3 DEF Holds
  <1>5. up[Now(c)] = <<>> => Len(up[Now(c)]) = 0
    OBVIOUS
  <1> QED
    BY <1>2, <1>4, <1>5

\* A helper that is to read the daemon's ACK, or has just been started, has only
\* come to be so by itself if it has taken nothing from its pipe.
LEMMA AckedHelper ==
    ASSUME IInv, NEW p \in Proc, Helper(p),
           NEW c \in Child, Acked(c), Now(c) \in Proc
    PROVE  Acked(c)'
  <1> USE DEF IInv, TypeOK, KernelTypeOK
  <1>1. UNCHANGED <<dpc, who, cur>>
    BY HelperSettled DEF Helper, rosterVars
  <1>2. Heard(c)' = Heard(c) /\ Now(c)' = Now(c)
    BY <1>1 DEF Heard, Now
  <1>3. down'[Now(c)] = down[Now(c)] \/ (down[Now(c)] # <<>> /\ pc'[Now(c)] \notin {"boot", "acked"})
    BY DEF Helper, ChildStep, ChildEvent, SendAck, GetAck, Acknowledged,
       ReportBackupTimer, ReportTransferTimer, OpenLog, InitializeSignals, InitializeInotify,
       ServeDaemon, TakeSigTerm, HandlerReturns, TimerFires, Crash, Send, Exits, Corpse
  <1>4. pc'[Now(c)] \in {"boot", "acked"} => pc[Now(c)] \in {"boot", "acked"}
    BY DEF Helper, ChildStep, ChildEvent, SendAck, GetAck, Acknowledged,
       ReportBackupTimer, ReportTransferTimer, OpenLog, InitializeSignals, AfterSignals,
       InitializeInotify, ServeDaemon, TakeSigTerm, HandlerReturns, TimerFires, Crash, Send,
       Exits, Corpse
  <1> QED
    BY <1>2, <1>3, <1>4 DEF Acked

\* What a helper that goes on, and is not deaf, does with its two pipes: it says
\* the next word of its opening, drops a word that is no probe, answers a probe,
\* or touches neither.
HelperPairs(p) ==
    \/ /\ up' = [up EXCEPT ![p] = Append(@, Opening(p[1])[Said(p) + 1])]
       /\ Said(p) < Len(Opening(p[1])) /\ Said(p)' = Said(p) + 1
       /\ down' = down
    \/ up' = up /\ down' = down /\ Said(p)' = Said(p)
    \/ /\ up' = up /\ Said(p)' = Said(p)
       /\ down[p] # <<>> /\ Head(down[p]) # "PROBE" /\ down' = [down EXCEPT ![p] = Tail(@)]
    \/ /\ up' = [up EXCEPT ![p] = Append(@, "ACK")] /\ Said(p)' = Said(p)
       /\ down[p] # <<>> /\ Head(down[p]) = "PROBE" /\ down' = [down EXCEPT ![p] = Tail(@)]

LEMMA HelperPairing ==
    ASSUME SilentFaults, TypeOK, PcInv, NEW p \in Proc, Helper(p), Live(p)', ~Deaf(p)',
           pc[p] = "acked" /\ down[p] # <<>> => Head(down[p]) = "ACK"
    PROVE  HelperPairs(p) /\ ~Deaf(p)
  <1> USE DEF TypeOK, KernelTypeOK
  <1>1. p[1] \in Child /\ up[p] \in Seq(Word)
    BY DEF Proc
  <1>2. HelperWord(p)
    BY HelperSpeaks
  <1>3. ~Exits(p)
    BY DEF Exits, Live, Corpse, RunningPc
  <1>4. up' = up => Said(p)' = Said(p)
    <2>1. ASSUME NEW w, up' = up, up' = [up EXCEPT ![p] = Append(@, w)] PROVE FALSE
      <3>1. up[p] = Append(up[p], w)
        BY <2>1
      <3>2. Len(Append(up[p], w)) = Len(up[p]) + 1 /\ Len(up[p]) \in Nat
        BY <1>1
      <3> QED
        BY <3>1, <3>2
    <2> QED
      BY <1>2, <2>1 DEF HelperWord
  <1>5. CASE SendAck(p) \/ ReportBackupTimer(p) \/ ReportTransferTimer(p)
    <2>1. Said(p) # Len(Opening(p[1]))
      <3>1. CASE SendAck(p)
        BY <1>1, <3>1, OpeningIs DEF SendAck, Said, Child
      <3>2. CASE ReportBackupTimer(p) \/ ReportTransferTimer(p)
        <4>1. p[1] = "fm"
          BY <1>1, <3>2 DEF ReportBackupTimer, ReportTransferTimer, PcInv, Child
        <4> QED
          BY <3>2, <4>1, OpeningIs DEF ReportBackupTimer, ReportTransferTimer, Said
      <3> QED
        BY <1>5, <3>1, <3>2
    <2>2. down' = down
      BY <1>5 DEF SendAck, ReportBackupTimer, ReportTransferTimer
    <2>3. ~Deaf(p)
      BY <1>5 DEF SendAck, ReportBackupTimer, ReportTransferTimer, Deaf
    <2> QED
      BY <1>2, <2>1, <2>2, <2>3 DEF HelperWord, HelperPairs
  <1>6. CASE GetAck(p)
    <2>1. up' = up /\ ~Deaf(p)
      BY <1>6 DEF GetAck, Deaf
    <2>2. \/ down' = down
          \/ /\ down[p] # <<>> /\ down' = [down EXCEPT ![p] = Tail(@)]
             /\ Head(down[p]) # "PROBE"
      BY <1>6 DEF GetAck
    <2> QED
      BY <1>4, <2>1, <2>2 DEF HelperPairs
  <1>7. CASE OpenLog(p) \/ InitializeSignals(p) \/ InitializeInotify(p)
    <2>1. down' = down
      BY <1>7 DEF OpenLog, InitializeSignals, InitializeInotify
    <2>2. ~Deaf(p)
      <3>1. CASE OpenLog(p) \/ InitializeSignals(p)
        BY <3>1 DEF OpenLog, InitializeSignals, Deaf
      <3>2. CASE InitializeInotify(p)
        <4>1. pc'[p] = "loop" /\ mask' = mask
          BY <1>3, <3>2 DEF InitializeInotify, Send
        <4> QED
          BY <4>1 DEF Deaf
      <3> QED
        BY <1>7, <3>1, <3>2
    <2>3. up' = up
      <3>1. CASE OpenLog(p) \/ InitializeInotify(p)
        BY <1>3, <3>1 DEF OpenLog, InitializeInotify, SilentFaults, Happens
      <3>2. CASE InitializeSignals(p)
        <4>1. CASE mask' = [mask EXCEPT ![p] = "blocked"] /\ Send(p, "PANIC", AfterSignals(p))
          <5>1. pc'[p] \in {"watch", "loop"} /\ mask'[p] = "blocked"
            BY <1>3, <4>1 DEF Send, AfterSignals
          <5> QED
            BY <5>1 DEF Deaf
        <4> QED
          BY <3>2, <4>1 DEF InitializeSignals
      <3> QED
        BY <1>7, <3>1, <3>2
    <2> QED
      BY <1>4, <2>1, <2>2, <2>3 DEF HelperPairs
  <1>8. CASE ServeDaemon(p)
    <2>1. /\ down[p] # <<>> /\ down' = [down EXCEPT ![p] = Tail(@)]
          /\ pc[p] = "loop" /\ pc'[p] = "loop" /\ mask' = mask
      BY <1>3, <1>8 DEF ServeDaemon, Send
    <2>2. ~Deaf(p) /\ Said(p)' = Said(p)
      BY <2>1 DEF Deaf, Said
    <2>3. CASE Head(down[p]) = "PROBE"
      BY <1>3, <1>8, <2>1, <2>2, <2>3 DEF ServeDaemon, Send, HelperPairs
    <2>4. CASE Head(down[p]) # "PROBE"
      BY <1>3, <1>8, <2>1, <2>2, <2>4 DEF ServeDaemon, HelperPairs
    <2> QED
      BY <2>3, <2>4
  <1>9. CASE TimerFires(p) \/ HandlerReturns(p)
    <2>1. up' = up /\ down' = down /\ mask' = mask
      BY <1>9 DEF TimerFires, HandlerReturns
    <2>2. pc[p] \in {"loop", "handler"} /\ pc'[p] \in {"loop", "handler"}
      BY <1>3, <1>9 DEF TimerFires, HandlerReturns
    <2>3. ~Deaf(p)
      BY <2>1, <2>2 DEF Deaf
    <2> QED
      BY <1>4, <2>1, <2>3 DEF HelperPairs
  <1>10. CASE TakeSigTerm(p) \/ Crash(p)
    BY <1>3, <1>10 DEF TakeSigTerm, Crash
  <1> QED
    BY <1>5, <1>6, <1>7, <1>8, <1>9, <1>10 DEF Helper, ChildStep, ChildEvent

\* So probe and answer stay paired, whatever the helper does.
LEMMA PairedHelper ==
    ASSUME SilentFaults, IInv, PcInv, NEW p \in Proc, Helper(p), NEW c \in Child,
           Now(c) \in Proc, Orderly(c), Acked(c), Paired(c)
    PROVE  Paired(c)'
  <1> USE DEF IInv
  <1>1. UNCHANGED <<dpc, who, cur>> /\ Settled /\ OthersAlone(p)
    BY HelperSettled, HelperAlone DEF Helper, rosterVars
  <1>2. /\ Heard(c)' = Heard(c) /\ Now(c)' = Now(c) /\ Awaits(c)' = Awaits(c)
        /\ Live(Now(c))' => Live(Now(c))
    BY <1>1 DEF Heard, Now, Awaits, Settled, Live
  <1>3. CASE Now(c) # p
    <2>1. /\ pc'[Now(c)] = pc[Now(c)] /\ mask'[Now(c)] = mask[Now(c)]
          /\ up'[Now(c)] = up[Now(c)] /\ down'[Now(c)] = down[Now(c)]
      BY <1>1, <1>3 DEF OthersAlone
    <2>2. Said(Now(c))' = Said(Now(c)) /\ Deaf(Now(c))' = Deaf(Now(c))
      BY <1>2, <2>1 DEF Said, Deaf
    <2> QED
      BY <1>2, <2>1, <2>2 DEF Paired, OneProbe, NoProbe
  <1>4. CASE Now(c) = p
    <2>1. SUFFICES ASSUME Live(p)', ~Deaf(p)'
                   PROVE  IF Awaits(c)
                          THEN \/ OneProbe(down'[p]) /\ up'[p] = <<>>
                               \/ NoProbe(down'[p]) /\ up'[p] = <<"ACK">>
                          ELSE NoProbe(down'[p]) /\ Len(up'[p]) + Heard(c) = Said(p)'
      BY <1>2, <1>4 DEF Paired, OneProbe, NoProbe
    <2>2. p[1] = c /\ up[p] \in Seq(Word) /\ down[p] \in Seq(Word) /\ Live(p)
      BY <1>2, <1>4, <2>1 DEF Now, TypeOK, KernelTypeOK
    <2>3. /\ Heard(c) \in Nat /\ Said(p) \in Nat /\ Len(Opening(c)) \in Nat
          /\ Heard(c) <= Said(p) /\ Said(p) <= Len(Opening(c))
          /\ up[p] = <<>> => Said(p) = Heard(c)
      BY <1>4, <2>2, SaidHeard, Bounds
    <2>4. pc[p] = "acked" /\ down[p] # <<>> => Head(down[p]) = "ACK"
      <3>1. Heard(c) = 0 => down[p] = <<>>
        BY <1>4 DEF Acked
      <3>2. Heard(c) > 0 /\ pc[p] = "acked" => Head(down[p]) = "ACK"
        BY <1>4 DEF Acked
      <3> QED
        BY <2>3, <3>1, <3>2
    <2>5. HelperPairs(p) /\ ~Deaf(p)
      BY <2>1, <2>4, HelperPairing
    <2>6. IF Awaits(c)
          THEN \/ OneProbe(down[p]) /\ up[p] = <<>>
               \/ NoProbe(down[p]) /\ up[p] = <<"ACK">>
          ELSE NoProbe(down[p]) /\ Len(up[p]) + Heard(c) = Said(p)
      BY <1>4, <2>2, <2>5 DEF Paired
    <2>7. CASE /\ up' = [up EXCEPT ![p] = Append(@, Opening(p[1])[Said(p) + 1])]
               /\ Said(p) < Len(Opening(p[1])) /\ Said(p)' = Said(p) + 1
               /\ down' = down
      <3>1. ~Awaits(c)
        BY <2>2, <2>3, <2>7 DEF Awaits, Heard
      <3>2. Len(up'[p]) = Len(up[p]) + 1 /\ Len(up[p]) \in Nat
        BY <2>2, <2>7 DEF TypeOK, KernelTypeOK
      <3> QED
        BY <2>3, <2>6, <2>7, <3>1, <3>2
    <2>8. CASE up' = up /\ down' = down /\ Said(p)' = Said(p)
      BY <2>6, <2>8
    <2>9. CASE /\ up' = up /\ Said(p)' = Said(p)
               /\ down[p] # <<>> /\ Head(down[p]) # "PROBE"
               /\ down' = [down EXCEPT ![p] = Tail(@)]
      <3>1. down'[p] = Tail(down[p])
        BY <2>9 DEF TypeOK, KernelTypeOK
      <3> QED
        BY <2>2, <2>6, <2>9, <3>1, ProbeSeqs
    <2>10. CASE /\ up' = [up EXCEPT ![p] = Append(@, "ACK")] /\ Said(p)' = Said(p)
                /\ down[p] # <<>> /\ Head(down[p]) = "PROBE"
                /\ down' = [down EXCEPT ![p] = Tail(@)]
      <3>1. down'[p] = Tail(down[p]) /\ up'[p] = Append(up[p], "ACK")
        BY <2>10 DEF TypeOK, KernelTypeOK
      <3>2. ~NoProbe(down[p])
        BY <2>2, <2>10, ProbeSeqs
      <3>3. Awaits(c) /\ OneProbe(down[p]) /\ up[p] = <<>>
        BY <2>6, <3>2
      <3>4. NoProbe(down'[p])
        BY <2>2, <2>10, <3>1, <3>3, ProbeSeqs
      <3>5. up'[p] = <<"ACK">>
        BY <3>1, <3>3
      <3> QED
        BY <3>3, <3>4, <3>5
    <2> QED
      BY <2>5, <2>7, <2>8, <2>9, <2>10 DEF HelperPairs
  <1> QED
    BY <1>3, <1>4

\* A helper that a step leaves alone stays as it is.
LEMMA PairKept ==
    ASSUME NEW c \in Child, Acked(c), Paired(c),
           cur'[c] = cur[c], Heard(c)' = Heard(c), Awaits(c)' <=> Awaits(c),
           up'[Now(c)] = up[Now(c)], down'[Now(c)] = down[Now(c)],
           mask'[Now(c)] = mask[Now(c)],
           Live(Now(c))' => pc'[Now(c)] = pc[Now(c)]
    PROVE  Acked(c)' /\ Paired(c)'
  <1>1. Now(c)' = Now(c)
    BY DEF Now
  <1>2. Acked(c)'
    BY <1>1 DEF Acked, Live, RunningPc
  <1>3. PICK p : p = Now(c)
    OBVIOUS
  <1>4. ASSUME Live(p)', ~Deaf(p)'
        PROVE  IF Awaits(c)'
               THEN \/ OneProbe(down'[p]) /\ up'[p] = <<>>
                    \/ NoProbe(down'[p]) /\ up'[p] = <<"ACK">>
               ELSE NoProbe(down'[p]) /\ Len(up'[p]) + Heard(c)' = Said(p)'
    <2>1. pc'[p] = pc[p] /\ mask'[p] = mask[p]
      BY <1>1, <1>3, <1>4 DEF Live
    <2>2. Live(p) /\ ~Deaf(p) /\ Said(p)' = Said(p)
      BY <1>4, <2>1 DEF Live, Said, Deaf
    <2>3. down'[p] = down[p] /\ up'[p] = up[p]
      BY <1>3
    <2> QED
      BY <1>3, <2>2, <2>3 DEF Paired
  <1>5. Paired(c)'
    BY <1>1, <1>3, <1>4 DEF Paired, OneProbe, NoProbe
  <1> QED
    BY <1>2, <1>5

\* The daemon's ACK, and the words of the opening that are read around it.
LEMMA PairedHandshake ==
    ASSUME IInv, NEW c \in Child, c = who, HandshakeStep, dpc' # "exited",
           Orderly(c), Acked(c), Paired(c)
    PROVE  Acked(c)' /\ Paired(c)'
  <1> USE DEF IInv, TypeOK, KernelTypeOK
  <1>1. /\ Now(c) \in Proc /\ UNCHANGED <<pc, mask, cur>>
        /\ Heard(c)' = Heard(c) + 1 /\ Heard(c) \in Nat
    BY Handshake, Bounds
  <1>2. Now(c)' = Now(c) /\ ~Awaits(c) /\ ~Awaits(c)'
    BY <1>1 DEF HandshakeStep, AcknowledgeClient, ReadBackupTimer, ReadTransferTimer,
       HasPostLaunch, Started, Resume, BrokenPipe, Ends, Awaits, Now
  <1>3. PICK p \in Proc : p = Now(c)
    BY <1>1
  <1>4. PICK w \in Word : ReadUp(p, w)
    BY <1>3, Handshake
  <1>5. up[p] \in Seq(Word) /\ down[p] \in Seq(Word)
    OBVIOUS
  <1>6. Acked(c)' /\ (NoProbe(down[p]) => NoProbe(down'[p]))
    <2>1. CASE AcknowledgeClient
      <3>1. Heard(c) = 0 /\ down[p] = <<>>
        BY <1>3, <2>1 DEF AcknowledgeClient, Heard, Acked
      <3>2. Live(p) /\ down' = [down EXCEPT ![p] = Append(@, "ACK")]
        BY <1>3, <2>1 DEF AcknowledgeClient, BrokenPipe, Ends
      <3>3. down'[p] = <<"ACK">>
        BY <3>1, <3>2
      <3>4. down'[p] # <<>> /\ Head(down'[p]) = "ACK" /\ NoProbe(down'[p])
        BY <3>3 DEF NoProbe
      <3>5. Heard(c)' = 1
        BY <1>1, <3>1
      <3> QED
        BY <1>2, <1>3, <3>4, <3>5 DEF Acked
    <2>2. CASE ReadBackupTimer \/ ReadTransferTimer
      <3>1. Heard(c) \in {1, 2} /\ UNCHANGED down
        BY <2>2 DEF ReadBackupTimer, ReadTransferTimer, Heard
      <3>2. Heard(c)' \in {2, 3}
        BY <1>1, <3>1
      <3> QED
        BY <1>1, <1>2, <3>1, <3>2 DEF Acked
    <2> QED
      BY <2>1, <2>2 DEF HandshakeStep
  <1>7. ASSUME Live(p)', ~Deaf(p)'
        PROVE  NoProbe(down'[p]) /\ Len(up'[p]) + Heard(c)' = Said(p)'
    <2>1. Live(p) /\ ~Deaf(p) /\ Said(p)' = Said(p) /\ Said(p) \in Nat
      BY <1>1, <1>3, <1>7, SaidHeard DEF Live, Deaf, Said
    <2>2. NoProbe(down[p]) /\ Len(up[p]) + Heard(c) = Said(p)
      BY <1>2, <1>3, <2>1 DEF Paired
    <2>3. up[p] # <<>> /\ up'[p] = Tail(up[p])
      BY <1>4, <2>1 DEF ReadUp
    <2>4. Len(up'[p]) = Len(up[p]) - 1 /\ Len(up[p]) \in Nat
      BY <1>5, <2>3
    <2>5. Len(up'[p]) + (Heard(c) + 1) = Said(p)
      BY <1>1, <2>2, <2>4
    <2> QED
      BY <1>1, <1>6, <2>1, <2>2, <2>5
  <1>8. Paired(c)'
    BY <1>2, <1>3, <1>7 DEF Paired, NoProbe
  <1> QED
    BY <1>6, <1>8

\* The loop's reads: nothing when it drains a helper that is well, the answer when
\* it waits for one.
LEMMA PairedLoop ==
    ASSUME IInv, NEW c \in Child, NEW d \in Child, LoopRead(d), ~Over',
           Now(c) \in Proc, Orderly(c), Acked(c), Paired(c)
    PROVE  Acked(c)' /\ Paired(c)'
  <1> USE DEF IInv, TypeOK, KernelTypeOK
  <1>1. /\ Now(d) \in Proc /\ UNCHANGED <<mask, down, cur>>
        /\ \/ \E w \in Word : ReadUp(Now(d), w)
           \/ NothingToRead(Now(d)) /\ UNCHANGED up
        /\ Heard(c) = Len(Opening(c)) /\ (Awaits(c) => d = c)
        /\ Heard(c)' = Heard(c) /\ ~Awaits(c)'
    BY Loop
  <1>2. UNCHANGED pc
    BY DEF LoopRead, HandleChild, Drain, GetAnswer, AnswerFrom
  <1>3. Now(c)' = Now(c)
    BY <1>1 DEF Now
  <1>4. Acked(c)'
    BY <1>1, <1>2, <1>3 DEF Acked
  <1>5. PICK p \in Proc : p = Now(c)
    OBVIOUS
  <1>6. ASSUME Live(p)', ~Deaf(p)'
        PROVE  NoProbe(down'[p]) /\ Len(up'[p]) + Heard(c)' = Said(p)'
    <2>1. Live(p) /\ ~Deaf(p) /\ Said(p)' = Said(p)
      BY <1>1, <1>2, <1>6 DEF Live, Deaf, Said
    <2>2. /\ Heard(c) \in Nat /\ Said(p) \in Nat /\ Said(p) = Heard(c)
      BY <1>1, <1>5, <2>1, SaidHeard
    <2>3. up[p] \in Seq(Word) /\ Len(up[p]) \in Nat
      OBVIOUS
    <2>4. NoProbe(down[p]) /\ up'[p] = <<>>
      <3>1. CASE Awaits(c)
        <4>1. d = c /\ dpc = "answer"
          BY <1>1, <3>1 DEF Awaits
        <4>2. PICK w \in Word : ReadUp(p, w)
          BY <1>5, <4>1 DEF LoopRead, HandleChild, Turn, Drain, GetAnswer, AnswerFrom
        <4>3. up[p] # <<>> /\ up'[p] = Tail(up[p])
          BY <2>1, <4>2 DEF ReadUp
        <4>4. NoProbe(down[p]) /\ up[p] = <<"ACK">>
          BY <1>5, <2>1, <3>1, <4>3 DEF Paired
        <4> QED
          BY <4>3, <4>4
      <3>2. CASE ~Awaits(c)
        <4>1. NoProbe(down[p]) /\ Len(up[p]) + Heard(c) = Said(p)
          BY <1>5, <2>1, <3>2 DEF Paired
        <4>2. up[p] = <<>>
          BY <2>2, <2>3, <4>1
        <4>3. up'[p] = up[p]
          <5>1. CASE d = c
            BY <1>1, <1>5, <2>1, <4>2, <5>1 DEF ReadUp
          <5>2. CASE d # c
            <6>1. Now(d) # p
              BY <1>5, <5>2 DEF Now
            <6>2. ASSUME NEW w \in Word, ReadUp(Now(d), w) PROVE up'[p] = up[p]
              BY <1>1, <6>1, <6>2, ReadOther
            <6> QED
              BY <1>1, <6>2
          <5> QED
            BY <5>1, <5>2
        <4> QED
          BY <4>1, <4>2, <4>3
      <3> QED
        BY <3>1, <3>2
    <2>5. Len(up'[p]) = 0
      BY <2>4
    <2> QED
      BY <1>1, <2>1, <2>2, <2>4, <2>5
  <1>7. Paired(c)'
    BY <1>1, <1>3, <1>5, <1>6 DEF Paired, NoProbe
  <1> QED
    BY <1>4, <1>7

\* What is written to a pipe comes behind what is in it.
LEMMA AppendHead ==
    ASSUME NEW s \in Seq(Word), s # <<>>, NEW w \in Word
    PROVE  Append(s, w) # <<>> /\ Head(Append(s, w)) = Head(s)
  <1>1. Len(s) \in Nat /\ Len(s) > 0
    OBVIOUS
  <1>2. /\ Append(s, w) \in Seq(Word)
        /\ Len(Append(s, w)) = Len(s) + 1 /\ Append(s, w)[1] = s[1]
    BY <1>1
  <1>3. PICK v : v = Append(s, w)
    OBVIOUS
  <1>4. v \in Seq(Word) /\ Len(v) > 0 /\ v[1] = s[1]
    BY <1>1, <1>2, <1>3
  <1>5. v # <<>> /\ Head(v) = v[1] /\ Head(s) = s[1]
    BY <1>1, <1>4
  <1> QED
    BY <1>3, <1>4, <1>5

\* The probe is sent when the pipes are empty but for the daemon's first ACK.
LEMMA PairedProbe ==
    ASSUME IInv, NEW c \in Child, c = who, SendProbe, ~Abandoned(c)',
           Now(c) \in Proc, Orderly(c), Acked(c), Paired(c)
    PROVE  Acked(c)' /\ Paired(c)'
  <1> USE DEF IInv, TypeOK, KernelTypeOK
  <1>1. UNCHANGED <<pc, mask, up, who, cur>> /\ dpc = "probe" /\ dpc' = "answer"
    BY DEF SendProbe, BrokenPipe, Ends, Abandoned, Over, Ending
  <1>2. PICK p \in Proc : p = Now(c)
    OBVIOUS
  <1>3. /\ Now(c)' = p /\ ~Awaits(c) /\ Awaits(c)'
        /\ Heard(c) = Len(Opening(c)) /\ Heard(c)' = Heard(c)
    BY <1>1, <1>2 DEF Now, Awaits, Heard
  <1>4. up[p] \in Seq(Word) /\ Len(up[p]) \in Nat /\ down[p] \in Seq(Word)
    OBVIOUS
  <1>5. /\ Live(p) => down' = [down EXCEPT ![p] = Append(@, "PROBE")]
        /\ ~Live(p) => down' = down
    BY <1>1, <1>2 DEF SendProbe, PidExists, Live, RunningPc
  <1>6. Acked(c)'
    <2>1. Heard(c) > 0 /\ Heard(c)' # 0
      BY <1>3, OpeningIs DEF Child
    <2>2. ASSUME pc[p] \in {"boot", "acked"}
          PROVE  down'[p] # <<>> /\ Head(down'[p]) = "ACK"
      <3>1. down[p] # <<>> /\ Head(down[p]) = "ACK" /\ Live(p)
        BY <1>2, <2>1, <2>2 DEF Acked, Live, RunningPc
      <3>2. down'[p] = Append(down[p], "PROBE")
        BY <1>5, <3>1
      <3> QED
        BY <1>4, <3>1, <3>2, AppendHead DEF Word
    <2> QED
      BY <1>1, <1>3, <2>1, <2>2 DEF Acked
  <1>7. ASSUME Live(p)', ~Deaf(p)'
        PROVE  OneProbe(down'[p]) /\ up'[p] = <<>>
    <2>1. Live(p) /\ ~Deaf(p)
      BY <1>1, <1>7 DEF Live, Deaf
    <2>2. NoProbe(down[p]) /\ Len(up[p]) + Heard(c) = Said(p)
      BY <1>2, <1>3, <2>1 DEF Paired
    <2>3. Heard(c) \in Nat /\ Said(p) = Heard(c)
      BY <1>2, <1>3, <2>1, SaidHeard
    <2>4. Len(up[p]) = 0
      BY <1>4, <2>2, <2>3
    <2>5. up[p] = <<>>
      BY <1>4, <2>4
    <2>6. down'[p] = Append(down[p], "PROBE")
      BY <1>5, <2>1
    <2> QED
      BY <1>1, <1>4, <2>2, <2>5, <2>6, ProbeSeqs
  <1>8. Paired(c)'
    BY <1>3, <1>7 DEF Paired, OneProbe
  <1> QED
    BY <1>6, <1>8

\* Every step keeps the pairing of all helpers.
LEMMA PairStep ==
    ASSUME SilentFaults, IInv, PipeInv, AckInv, PairInv, [Next]_vars
    PROVE  AckInv' /\ PairInv'
  <1> USE DEF IInv, PipeInv
  <1> SUFFICES ASSUME NEW c \in Child, cur'[c] > 0, ~Abandoned(c)'
               PROVE  Acked(c)' /\ Paired(c)'
    BY DEF AckInv, PairInv
  <1>1. CASE \E p \in Proc : Helper(p)
    <2>1. PICK p \in Proc : Helper(p)
      BY <1>1
    <2>2. UNCHANGED <<cur, who, dpc>>
      BY <2>1, HelperSettled DEF Helper, rosterVars
    <2>3. cur[c] > 0 /\ ~Abandoned(c)
      BY <2>2 DEF Abandoned, Over
    <2>4. Orderly(c) /\ Acked(c) /\ Paired(c) /\ Now(c) \in Proc
      BY <2>3, CurType DEF OpeningInv, AckInv, PairInv
    <2> QED
      BY <2>1, <2>4, AckedHelper, PairedHelper
  <1>2. CASE CalmStep
    <2>1. Calm
      BY <1>2, CalmSteps
    <2>2. /\ cur[c] > 0 /\ ~Abandoned(c) /\ cur'[c] = cur[c]
          /\ Heard(c)' = Heard(c) /\ Awaits(c)' = Awaits(c)
          /\ UNCHANGED <<mask, up, down>>
      BY <2>1 DEF Calm
    <2>3. Acked(c) /\ Paired(c) /\ Now(c) \in Proc
      BY <2>2, CurType DEF AckInv, PairInv
    <2>4. Now(c)' = Now(c)
      BY <2>2 DEF Now
    <2>5. Live(Now(c))' => pc'[Now(c)] = pc[Now(c)]
      BY <2>1, <2>3, <2>4 DEF Calm, Live
    <2> QED
      BY <2>2, <2>3, <2>5, PairKept
  <1>3. CASE ChildSpawn
    <2>1. CASE c = who
      <3>1. PICK p \in Proc : p = Now(c)'
        BY <1>3, <2>1, Spawn
      <3>2. /\ pc'[p] = "boot" /\ up'[p] = <<>> /\ down'[p] = <<>>
            /\ Heard(c)' = 0 /\ ~Awaits(c)'
        BY <1>3, <2>1, <3>1, Spawn
      <3>3. Said(p)' = 0
        BY <3>2 DEF Said
      <3>4. Acked(c)'
        BY <3>1, <3>2 DEF Acked
      <3>5. Paired(c)'
        BY <3>1, <3>2, <3>3 DEF Paired, NoProbe
      <3> QED
        BY <3>4, <3>5
    <2>2. CASE c # who
      <3>1. who \in Child
        BY DEF TypeOK, DaemonTypeOK
      <3>2. /\ cur'[c] = cur[c] /\ ~Abandoned(c) /\ Heard(c)' = Heard(c)
            /\ UNCHANGED <<up, down>> /\ ~Awaits(c) /\ ~Awaits(c)'
            /\ \A i \in Inc : UNCHANGED <<pc[<<c, i>>], mask[<<c, i>>]>>
        BY <1>3, <2>2, <3>1, Spawn
      <3>3. Acked(c) /\ Paired(c) /\ Now(c) \in Proc
        BY <3>2, CurType DEF AckInv, PairInv
      <3>4. pc'[Now(c)] = pc[Now(c)] /\ mask'[Now(c)] = mask[Now(c)]
        BY <3>2, <3>3 DEF Now, Proc
      <3> QED
        BY <3>2, <3>3, <3>4, PairKept
    <2> QED
      BY <2>1, <2>2
  <1>4. CASE HandshakeStep
    <2>1. PICK d \in Child : d = who
      BY DEF TypeOK, DaemonTypeOK
    <2>2. dpc' # "exited"
      BY DEF Abandoned, Over, Ending
    <2>3. UNCHANGED <<pc, mask, cur>>
      BY <1>4, <2>1, Handshake
    <2>4. CASE c = d
      <3>1. Now(c) \in Proc /\ cur[c] > 0 /\ ~Abandoned(c)
        BY <1>4, <2>1, <2>4, Handshake
      <3> QED
        BY <1>4, <2>1, <2>2, <2>4, <3>1, PairedHandshake DEF OpeningInv, AckInv, PairInv
    <2>5. CASE c # d
      <3>1. ~Abandoned(c) /\ ~Awaits(c) /\ Heard(c)' = Heard(c)
        BY <1>4, <2>1, <2>2, <2>5, Handshake
      <3>2. ~Awaits(c)'
        BY <1>4 DEF HandshakeStep, AcknowledgeClient, ReadBackupTimer, ReadTransferTimer,
           HasPostLaunch, Started, Resume, BrokenPipe, Ends, Awaits
      <3>3. /\ Acked(c) /\ Paired(c)
            /\ Now(c) \in Proc /\ Now(d) \in Proc /\ Now(c) # Now(d)
        BY <1>4, <2>1, <2>3, <2>5, <3>1, CurType, Handshake DEF AckInv, PairInv, Now
      <3>4. up'[Now(c)] = up[Now(c)]
        <4>1. PICK w \in Word : ReadUp(Now(d), w)
          BY <1>4, <2>1, Handshake
        <4> QED
          BY <3>3, <4>1, ReadOther
      <3>5. down'[Now(c)] = down[Now(c)]
        BY <1>4, <2>1, <3>3
           DEF HandshakeStep, AcknowledgeClient, ReadBackupTimer, ReadTransferTimer,
               BrokenPipe, Ends, TypeOK, KernelTypeOK
      <3> QED
        BY <2>3, <3>1, <3>2, <3>3, <3>4, <3>5, PairKept
    <2> QED
      BY <2>4, <2>5
  <1>5. CASE \E d \in Child : LoopRead(d)
    <2>1. PICK d \in Child : LoopRead(d)
      BY <1>5
    <2>2. UNCHANGED cur /\ ~Abandoned(c) /\ ~Over'
      BY <2>1, Loop DEF Abandoned
    <2>3. Orderly(c) /\ Acked(c) /\ Paired(c) /\ Now(c) \in Proc
      BY <2>2, CurType DEF OpeningInv, AckInv, PairInv
    <2> QED
      BY <2>1, <2>2, <2>3, PairedLoop
  <1>6. CASE SendProbe
    <2>1. UNCHANGED <<pc, mask, up, cur, who>> /\ dpc = "probe"
      BY <1>6 DEF SendProbe
    <2>2. dpc' \in {"retry", "answer"}
      BY <1>6 DEF SendProbe, BrokenPipe, Ends, Abandoned, Over, Ending
    <2>3. ~Abandoned(c)
      BY <2>1 DEF Abandoned, Over, Ending
    <2>4. Orderly(c) /\ Acked(c) /\ Paired(c) /\ Now(c) \in Proc
      BY <2>1, <2>3, CurType DEF OpeningInv, AckInv, PairInv
    <2>5. CASE c = who
      BY <1>6, <2>4, <2>5, PairedProbe
    <2>6. CASE c # who
      <3>1. Heard(c)' = Heard(c) /\ ~Awaits(c) /\ ~Awaits(c)'
        BY <2>1, <2>6 DEF Heard, Awaits
      <3>2. down'[Now(c)] = down[Now(c)]
        BY <1>6, <2>4, <2>6 DEF SendProbe, Now, TypeOK, KernelTypeOK
      <3> QED
        BY <2>1, <2>4, <3>1, <3>2, PairKept
    <2> QED
      BY <2>5, <2>6
  <1> QED
    BY <1>1, <1>2, <1>3, <1>4, <1>5, <1>6, StepKinds
       DEF PipeStep, HandshakeStep, LoopRead, TypeOK, DaemonTypeOK

\* In the loop the helpers have been started and are not being replaced, and what
\* they opened with has been read.
LEMMA InLoop ==
    ASSUME IInv, NEW c \in Child,
           dpc \in {"poll", "dispatch", "session", "drain", "probe", "answer"}
    PROVE  cur[c] > 0 /\ ~Abandoned(c) /\ Heard(c) = Len(Opening(c))
  <1> USE DEF IInv
  <1>1. looping
    BY DEF PhaseInv
  <1>2. cur[c] = retries[c] + 1 /\ retries[c] \in Nat
    BY <1>1 DEF CountInv, TypeOK, DaemonTypeOK
  <1> QED
    BY <1>2 DEF Abandoned, Over, Ending, Heard

LEMMA PairInit == Init => AckInv /\ PairInv
  BY DEF Init, DaemonInit, AckInv, PairInv

LEMMA OneAnswer ==
    ASSUME NEW p \in Proc, TypeOK
    PROVE  /\ NoProbe(down[p]) => Cardinality(Probes(p)) = 0
           /\ OneProbe(down[p]) => Cardinality(Probes(p)) = 1
           /\ up[p] = <<>> => Cardinality(Answers(p)) = 0
           /\ up[p] = <<"ACK">> => Cardinality(Answers(p)) = 1
  <1>1. DOMAIN down[p] = 1 .. Len(down[p])
    BY DEF TypeOK, KernelTypeOK
  <1>2. ASSUME NoProbe(down[p]) PROVE Probes(p) = {}
    BY <1>1, <1>2 DEF NoProbe, Probes
  <1>3. ASSUME OneProbe(down[p]) PROVE \E k : Probes(p) = {k}
    <2>1. PICK k \in 1 .. Len(down[p]) :
            \A i \in 1 .. Len(down[p]) : down[p][i] = "PROBE" <=> i = k
      BY <1>3 DEF OneProbe
    <2>2. Probes(p) = {k}
      BY <1>1, <2>1 DEF Probes
    <2> QED
      BY <2>2
  <1>4. ASSUME up[p] = <<>> PROVE Answers(p) = {}
    <2>1. DOMAIN up[p] = {}
      BY <1>4
    <2> QED
      BY <2>1 DEF Answers
  <1>5. ASSUME up[p] = <<"ACK">> PROVE Answers(p) = {1}
    <2>1. DOMAIN up[p] = {1} /\ up[p][1] = "ACK"
      BY <1>5
    <2> QED
      BY <2>1 DEF Answers
  <1> QED
    BY <1>2, <1>3, <1>4, <1>5, FS_EmptySet, FS_Singleton

\* __ipc_send_wait() takes no answer for another probe's: of a helper that runs
\* and listens there is one probe or answer under way while the daemon waits for
\* it, and none at any other time in the loop.
THEOREM ProbesArePaired ==
    ASSUME SilentFaults
    PROVE  Spec => []ProbesPaired
  <1>1. Init => AckInv /\ PairInv
    BY PairInit
  <1>2. IInv /\ PipeInv /\ (AckInv /\ PairInv) /\ [Next]_vars => (AckInv /\ PairInv)'
    BY PairStep
  <1>3. IInv /\ PipeInv /\ (AckInv /\ PairInv) => ProbesPaired
    <2> SUFFICES ASSUME IInv, PipeInv, PairInv,
                        dpc \in {"poll", "dispatch", "session", "drain", "probe", "answer"},
                        NEW c \in Child, Live(Now(c)), ~Deaf(Now(c))
                 PROVE  Unanswered(Now(c)) = IF dpc = "answer" /\ who = c THEN 1 ELSE 0
      BY DEF ProbesPaired
    <2>1. cur[c] > 0 /\ ~Abandoned(c) /\ Heard(c) = Len(Opening(c))
      BY InLoop
    <2>2. Now(c) \in Proc /\ Orderly(c) /\ Paired(c)
      BY <2>1, CurType DEF IInv, PipeInv, OpeningInv, PairInv
    <2>3. PICK p \in Proc : p = Now(c)
      BY <2>2
    <2>4. CASE Awaits(c)
      <3>1. \/ OneProbe(down[p]) /\ up[p] = <<>>
            \/ NoProbe(down[p]) /\ up[p] = <<"ACK">>
        BY <2>2, <2>3, <2>4 DEF Paired
      <3>2. Unanswered(p) = 1
        BY <3>1, OneAnswer DEF Unanswered, IInv
      <3> QED
        BY <2>3, <2>4, <3>2 DEF Awaits
    <2>5. CASE ~Awaits(c)
      <3>1. NoProbe(down[p]) /\ Len(up[p]) + Heard(c) = Said(p)
        BY <2>2, <2>3, <2>5 DEF Paired
      <3>2. Heard(c) \in Nat /\ Said(p) = Heard(c)
        BY <2>1, <2>2, <2>3, SaidHeard DEF IInv
      <3>3. up[p] \in Seq(Word) /\ Len(up[p]) \in Nat
        BY DEF IInv, TypeOK, KernelTypeOK
      <3>4. up[p] = <<>>
        BY <3>1, <3>2, <3>3
      <3>5. Unanswered(p) = 0
        BY <3>1, <3>4, OneAnswer DEF Unanswered, IInv
      <3> QED
        BY <2>3, <2>5, <3>5 DEF Awaits
    <2> QED
      BY <2>4, <2>5
  <1> QED
    BY <1>1, <1>2, <1>3, PipesAreOrderly, PTL DEF Spec
=============================================================================
