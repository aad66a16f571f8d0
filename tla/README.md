# A TLA+ development of reportman

`reportman` keeps a daemon, `reportmand`, and two helper programs it starts,
`reportman_fm` (timed backups and transfers of report files) and
`reportman_mon` (logs changes to the report directories). A client,
`reportmanc`, talks to the daemon over TCP. The system has no tests; its hard
part is the supervision: three processes, two pipes per helper, signals,
timeouts, restarts and six ways for the daemon to end. This directory models
that part, the daily schedule, the moving of report files, the log of file
events, and what happens at the port between daemons and clients, checks them
with TLC and proves the central invariants of the supervision, the schedule,
the moving of files, the event log and the port with TLAPS.

Paths below are relative to the repository; `reportmand.c`, `reportman_fm.c`
and `reportman_mon.c` are in `src/`, `reportman.c`, `daemonize.c`,
`directory_tool.c` and `monitor_tool.c` in `src/libs/`.

## Inventory

| Component | State | Operations | Interacts through |
|---|---|---|---|
| supervisor (`reportmand.c` main, `__listen_to_clients`, `__health_probe_child_process`, `__clean_close`) | `__fm_process`, `__mon_process` (pid, pipes, retries), `__current_process`, the poll set `fds[]`, the uninitialised `command`, the two timer ids, `__client_request_close` | start-up, poll loop, probe, restart, end | pipes, SIGTERM, SIGPIPE, waitpid |
| process and pipe layer (`reportman.c` `ipc_*`, `start_child_process`, `r_initialize_signals`; `daemonize.c`) | two pipes per helper, signal masks, SIGCHLD disposition | send and read words, fork and exec, block SIGTERM | the kernel |
| `reportman_fm` | two POSIX timers, whether it runs a transfer | handshake, timer report, poll loop, timer handlers | pipes, SIGTERM, SIGRTMIN, the file system |
| `reportman_mon` | inotify instance, watches, log file | handshake, poll loop, event log | pipes, SIGTERM, inotify |
| client protocol (`__handle_command`, `reportmanc.c`) | the accepted socket, the client id | backup, transfer, get_timers, close | TCP |
| singleton (`d_acquire_singleton`, `__force_singleton`) | the bound port, the pid lsof finds | bind, lsof, `--force`, `--close` | TCP port, SIGTERM |
| file transfer (`directory_tool.c`) | three directory trees and their modes | copy, verify, remove, lock, unlock | file system, users |
| inotify event log (`monitor_tool.c`) | read buffer, watch table | walk, format | inotify |
| arguments and times (`reportman.c`) | none | parse flags, `get_hh_mm_str` | - |

What makes it hard:

* **Interleaving.** The daemon is one thread but the helpers run between any
  two of its calls; a helper can die between `kill(pid, 0)`, the probe and the
  answer; a timer signal can land on any system call of `fm`.
* **Stale state.** A restart changes `child->pipes`, not `fds[]`; the timer ids
  belong to one incarnation; a late answer could count for a later probe.
* **Signals.** SIGTERM's disposition differs before and after
  `r_initialize_signals`, in the daemon and in a child forked before or inside
  the loop. SIGCHLD is ignored after `become_daemon()` and not otherwise, which
  changes what `kill(pid, 0)`, `waitpid(0)` and a dead helper mean.
* **Undefined values.** `read()` returning 0 leaves `unsigned long msg`
  unwritten, and `ipc_get_*` use it; `command` is read before it is first set.
* **The port.** Two daemons meet there, and what a connection leaves behind
  (FIN_WAIT2, TIME_WAIT, a reset) decides about `bind()`; the process that
  `lsof` names may have forked itself away, ended, or be a client.
* **Ends.** `exit()` is called from a dozen places, not all after
  `__kill_children()`.

What makes each component correct: one process per helper role; each restart
paid for by a fault and counted; probes and answers paired; timer ids fresh; a
dead helper replaced; SIGTERM ends daemon and helpers without leaving anything
behind; words arrive as the kind they were sent as; a complete report is never
lost and reaches the archive; a schedule fires once per day at its time; one
daemon has the port and hands it over in order; replies answer their commands;
every file event is logged once.

## Modules

| Module | Models |
|---|---|
| `Words` | the words on the pipes by kind, and the three bit tests as predicates on kinds |
| `IpcWords` | the same words as sets of bits: encoding, decoding, bit tests, one exchange at a time |
| `Kernel` | process table, SIGTERM state, pipes, constants and their assumptions |
| `Children` | both helper programs: handshake, timer report, log, signals, inotify set-up, poll loop, timer handler, crash |
| `Reportmand` | the daemon: start-up, poll loop, sessions, probes, restarts, every end |
| `Supervision` | daemon, helpers and environment together; fairness; all properties |
| `Roster` | abstract: what the daemon promises about its helpers; `Supervision` implements it |
| `Schedule` | `get_hh_mm_str`, the periodic timers, nested handlers, EINTR, restarts, crashes, daylight saving |
| `Transfer` | moving files: both timer handlers, the daemon's copies, the command line, an uploader, crashes |
| `Reports` | abstract: what the movers promise to those who put reports there; `Transfer` implements it |
| `MonitorEvents` | the inotify queue, the read buffer as bytes, the walk, the log |
| `Loopback` | external: the port, and TCP connections to it over the loopback |
| `ClientSession` | extends `Loopback`: `reportmanc`, and the session the loop has with it, call by call |
| `Singleton` | extends `ClientSession`: bind, `lsof`, `--force`, `--close`, forks, the end of a daemon |
| `Port` | all reportmands and reportmancs at one port; fairness; the properties of the three modules above |
| `SupervisionProofs`, `EndingProofs`, `PipeProofs` | theorems about `Supervision` |
| `ScheduleProofs`, `TransferProofs`, `PortProofs`, `IpcWordsProofs`, `MonitorProofs` | theorems about the module of that name |
| `MC*` | values for the constants |

`Supervision` and `Port` describe the same loop from two sides: `Supervision`
keeps helpers and pipes and has a session begin and end; `Port` keeps sessions,
sockets and rival daemons, and of the helpers only how many are left. `Schedule` and
`Transfer` look into what is one event (`timer`) in `Supervision`,
`MonitorEvents` into what `reportman_mon` does between two words.

### How the model corresponds to the code

A process is `<<c, i>>`, the i-th incarnation of helper `c`, because a restart
gets a new pid and new pipes. `cur[c]` is the incarnation behind
`child_process_t.pid` and `.pipes`; `fds[c]` is the one in the poll set. `up`
and `down` are the pipes, sequences of words. `pc` is where a helper is in its
program, or `none`, `zombie`, `gone`.

`dpc` names the daemon's next call that can block or fail. The steps between
two values of it are one action, since nothing outside can tell them apart:

| `dpc` | the daemon is about to | code |
|---|---|---|
| `fork` | create pipes and fork | `reportman.c:445-529` |
| `ack` | read the child's ACK and send its own | `reportmand.c:822-861` |
| `timer_b`, `timer_t` | read `fm`'s two timer ids | `reportmand.c:761-816` |
| `enter` | set up the loop | `reportmand.c:191-265` |
| `poll`, `dispatch` | call `poll()`; look at the next of `revents` | `reportmand.c:269-393` |
| `session` | talk to the accepted client | `reportmand.c:332-372` |
| `drain` | read one word of each helper before the probe | `reportmand.c:405-414` |
| `probe`, `answer` | `kill(pid, 0)` and send the probe; read the answer | `reportmand.c:1049-1062` |
| `unfit`, `reap`, `retry` | `kill`, `waitpid`, count and start again | `reportmand.c:1063-1078` |
| `signalled`, `close`, `close_wait` | the `waitpid` of the signal branch; `__clean_close` up to its kill; its `waitpid` | `reportmand.c:297-304`, `700-725` |

`poll()` takes a snapshot: `rev` is the set of `revents` still to be looked at,
in the order of the code (`Rank`), so a word that arrives during a session is
not seen in the same turn. `who` is the helper being started, drained or
probed.

What the C code leaves undefined is nondeterministic: a read at end of file
yields any word in the constant `Garbage`, and an unset `command` may equal
PANIC if `Garbage` allows it.

`Transfer` is on its own: what it shares with the supervision is only that a
handler takes time and that `fm` may die in one, and both are events there. A
name leads to an inode and an open file holds one, so a file that is removed
while somebody writes to it goes on to exist for the writer. A mover's `pc` is
its next system call:

| `pc` | the mover is about to | code (`directory_tool.c`) |
|---|---|---|
| `lock`, `unlock` | walk a tree with chmod | `394-439` |
| `next` | stat and open the next source | `234-252`, `127` |
| `create` | open the destination, emptying it | `134` |
| `copy` | read the next block, or meet the end | `142-145` |
| `hash` | read the source again | `177`, `191-208` |
| `flush` | seek the destination, which writes its last block; compare; close | `178-180`, `147-157` |
| `remove` | remove the source by name | `161` |

`Schedule` keeps local time of day and, for every timer, how far its next
expiry is from now, so that behaviours go on from day to day. `stack` holds the
handlers that run: a signal interrupts the program or the other handler, never
its own. `fired`, `renewed` and `moved` are history: expiries since the time of
day last came, how often that very instant was taken for the next one
(`difftime < 0`, `reportman.c:433`), and whether local time was moved.

`MonitorEvents` encodes events as the kernel does and lets the walk read what
it finds: `WdAt`, `MaskAt`, `LenAt` and `NameAt` are a `struct inotify_event`
at any offset, and what an earlier read left behind the new bytes is still
there. `Start` opens the log or fails to; then `__log_event()` writes to NULL.
`present` and `source` are history: the events of the last read, and for every
line which of them begins where the walk stood when it wrote it (0 for none).

In `Port` a reportmand's `pc` is `bind`, `lsof`, `decide`, `rebind` (the second
try of `--force`), `acquired`, `boot`, then the loop: `poll`, `probe`
(waiting for a deaf helper that missed one), `select`, `read` (after a `select()`
that failed), `reply`, `bye`, `hangup`; then `told` (the wait of the signal
branch), `closing`, `reap` (the wait of `__clean_close()`), `release` (about to
close the socket), `dying`, `exited`. Of its helpers it is known whether they
were told to end (`helpers`), how many it has not waited for (`left`), and how
many of those have no signalfd (`deaf`). `waitpid(0)` takes one of them in the
foreground and returns when there is none in the background. Its pid
is `<<"reportmand", s, n>>` after `n` forks, so that `lsof`'s answer can be out
of date. `link` is the daemon's end of a connection (`lingers` is FIN_WAIT2 or
TIME_WAIT), `cend` the client's, `eof` what the client meets behind the unread
replies, `reset` whether the daemon's end got a RST. What TCP does there (a
reset for unread data at a close, the first write after a FIN succeeding, the
second raising SIGPIPE, bind refused for FIN_WAIT2 and TIME_WAIT but not after
a reset) was tried out on Linux.

`Roster` says of each role only whether it is vacant, running or dead and how
often it was filled. Under the mapping in `Supervision` a role is running when
its present incarnation lives, `starts` is `cur`, and the daemon is `over` from
`signalled`, `close` or `exited` on; forks are `Fill`, every other step is a
`Lose` of whoever died in it, or a stutter.

`Reports` is the reports directory as its users may think of it: a report is
replaced, grows by blocks, is closed when it is complete, and nothing else ever
happens to it. Under the mapping in `Transfer` its text is what the name leads
to (empty if there is no file) and it is open while the uploader has its file;
every step of a mover is a stutter.

### Abstractions, and what they cost

* Timeouts are events: `HandshakeTimeout` and `AnswerTimeout` need a `slow`
  event and an empty pipe of a live helper. A timeout in a read whose result
  the loop ignores (drain, dispatch) costs nothing and is always allowed.
* In `Supervision` a session is one begin and one end. Its commands change no supervision state
  except the request to close; `gone` says whether the client has left before
  the daemon's last writes.
* A helper serves `down` before or after SIGTERM in any order, while the code
  looks at its `revents` in a fixed order: more behaviours, not fewer.
* After the daemon closed its ends or exited, a helper's write either goes into
  the pipe (a sibling inherited the other end) or raises SIGPIPE; which of the
  two depends on who forked when and is left open.
* Process ids are not reused, pipes never fill (they hold a handful of words of
  8 bytes), and the fork itself runs in one step with the child's exec. An exec
  that fails is a `Crash`.
* A hung-up descriptor of a dead incarnation makes the real `poll()` return at
  once with nothing to do, again and again. The model's `Poll` needs something
  readable; the busy loop changes no state.
* The unused `__send_health_probe` is left out.
* In `Transfer` a block is one buffer of stdio: it is written when the next one
  comes, or at the seek. Reading a block and writing the one before are one
  step: no other step touches both files in a way that tells them apart. The
  hash of the source is decided by its first read, because the destination
  always reads as empty (`fopen` with `wb`).
* Subdirectories are left out (each is the same loop again), as is a `chmod`,
  `mkdir` or `fopen` that fails for another reason than a missing file; the
  movers are root. A walk that meets a file removed under it stops and leaves
  the directory's mode (`CutShort`).
* A day of `Schedule` has five instants; `Tick` does not pass over a timer that
  is due, since signals are delivered at once. Between finding a time and arming
  it at most `MaxLag` instants pass. `mktime()` normalises the second time with
  the offset of the first, so tomorrow is one day on also across a shift.
* An event of `MonitorEvents` has a mask of at most 31 bits and no cookie; it is
  merged with the last one in the queue if they are equal, as the kernel does. A
  name is its length and last character, the rest is filler. Lines hold what
  identifies an event, not date or wording. The buffer lies on the stack and is
  not cleared; the model starts it with zeros, and `NamesEndInRead` proves that
  no name runs on into bytes behind those just read.
* Reads, writes and closes of `Loopback` arrive when the call returns, as they
  do on the loopback interface; replies fit one segment and one `read()`.
* `start_child_process()` returns when `pipe()` fails, and no caller looks
  (`reportman.c:450-453`, `reportmand.c:1040`): the handshake then goes over the
  pipes of before. This return is not modelled.
* A signal sent to a process that belongs to somebody else (EPERM) is in `Kill` a
  refusal that can happen at any time, like the ESRCH of one that has gone.
* `become_daemon()`, optional in `Singleton`, stands for `--no-daemon` and for
  `__is_daemon()`. Between `acquired` and `boot` the helpers are started in one
  step; their life is `Supervision`'s.
* `--force` sleeps one second between its two steps; in the model others do much
  or little in between, so nothing is concluded from the second being enough.

## Runs

| Run | Question | Result |
|---|---|---|
| `supervise_daemonized` | SIGCHLD ignored, `max_retries` 0, two events of kinds crash, slow, timer, term, client, syscall, watch, signalfd; any garbage | 9 properties hold, no deadlock; 138 434 states |
| `supervise_systemd` | SIGCHLD at its default (systemd, `-nd`), `max_retries` 1, three events of every kind | 6 properties hold; 3.7 million states |
| `ipc_words` | every id made of 12 border bits, every command, every reader | 3 properties hold; 9 869 states |
| `schedule` | both timers, a day of five instants, `MaxLag` 1, `max_retries` 1, two crashes or shifts by one instant | 5 properties hold, no deadlock; 197 017 states |
| `move_reports` | two handlers nested in either order, the daemon's copies, a report of two blocks uploaded and uploaded again, one command or crash | 4 properties hold, no deadlock; 2.3 million states |
| `archive_reports` | the two handlers, the daemon's copies, an uploaded report of one block, two commands or crashes | 2 liveness properties hold; 384 498 states |
| `monitor_events` | two directories, three names of three padded lengths and no name, one mask, four events or crashes, a buffer of 112 bytes | 4 properties hold, no deadlock; 484 905 states |
| `port` | two reportmands and a client, or one reportmand and two clients with a full backlog; one fault or signal from outside | 7 properties hold, no deadlock; 586 267 states |
| `abandoned_helper` | the daemon never leaves a helper unsignalled | violated |
| `equal_files` | a copy equal to its source passes the verification | violated |
| `lost_events` | every named event that is read is logged | violated |
| `schedule_ends` | transfers and backups go on for ever, no fault happening | violated |

`supervise_systemd` turns deadlock checking off: there the daemon can wait for
ever for a helper whose SIGTERM stays blocked.

**Bounds.** `MaxEvents` bounds the faults of one behaviour; everything else
runs without bound. Two events are enough for a fault during the recovery from
another, three for one in each of a restart, the next probe and the shutdown.
`MaxRetries` 0 and 1 allow one and two restarts of each helper before
`exit(EXIT_FAILURE)`; the code's 3 repeats the same cycle, and the theorems
below hold for every value. `Garbage` is every word in the first run and the
second. The retry budget is reached in both runs.

Two blocks are the least with a partly written file, two uploads the least with
a report rewritten while it is copied (`move_reports`). `archive_reports` has one
block, one upload and a second event instead: the daemon's copy can be cut by a
crash, and liveness is checked on the whole graph. One name is enough: movers treat names
one after the other and share only the modes. `MaxInode` is the number of files
that exist or are open at once and is never reached (6). The uploader
ignores modes (`Privileged`), which allows more interleavings than modes would:
a group member is shut out after the first backup, because unlocking sets 0660
on directories too.

`MaxRetries` 1 and a day of five instants (times 1 and 4) let `Schedule` reach
every order of a time found before, at or after its instant, armed late, served
twice in one instant, and given up; a shift by one instant moves a time across
now in both directions. A buffer of 112 bytes holds three short events and not
always two; names of 1, 13 and 29 characters have one or two units of padded
length, last characters whose code is a plausible length (36, 48) and one that is
too long for what is left, so that the walk stops, goes on inside a name,
comes back to where an event begins, or leaves what was read. Four events are the
least with which a walk that has lost the grid of 16 bytes logs a line that no
event stands behind. `Backlog` 0 makes a
backlog full with two clients; a client asks for `get_timers`, `close` and
`backup` in one session, so that close is asked for before, after and between
other commands; the two reportmands start at any distance from each other.

**What the properties say.** `SoleLive`: no two copies of a helper, and a
replaced one has been reaped. `RestartBudget`: `retries` follows the forks,
giving up happens only at the limit. `RestartsArePaid`: no restart without a
fault. `TimersFresh`: the loop never serves a client with timer ids of a dead
`fm`, nor with the two swapped. `ProbesPaired`: exactly one probe or answer is
under way while the daemon waits, none otherwise; no log or inotify fails in its
run, since a helper that panics and works on has its PANIC taken for an answer
and answers late. `SignalExitReapsAll` and
`OrderlyExitSignalsAll`: what the ends through `__clean_close()` leave behind.
`HelperNeverCrashesDaemon`: the NULL dereference in `__handle_sigpipe` is out
of reach of a dying helper. `ShutdownCompletes` and `DeadChildReplaced`:
SIGTERM ends the daemon; a dead helper is replaced or the daemon ends; both
except that it may wait for ever for a helper whose `signalfd()` failed.
`FiledReportKept`: a complete report stays whole in the reports directory.
`KeepsReports`: the movers implement `Reports`, so that not a byte of a report,
complete or not, is theirs to change.
`ReportsLockedWhileCopied`: the transfer handler never unlocks what the backup
it interrupted has locked. `ReportsReopen`: a crash leaves the reports locked
until the next backup, not for good. `ReportsReachArchive`: a report left alone
is in the archive, whole, at some time after; if the transfer interrupts the
backup every day between opening and writing a file, it copies the emptied file
over the archive and removes it, so the property asks that from some time on
handlers do not overlap (by default they are an hour or more apart).
`PanicIsObeyed`: of the five reads that can meet a PANIC four close the daemon.
`KeepsRoster`: the supervisor implements `Roster`. `ArmedForItsTime`: a running
timer is set for its time of day, whatever restarts came before.
`OncePerTime`: a transfer runs twice at its time only if `fm` was started again
within the instant. `NoTimeMissed`: a time passes without the handler only
while no timer runs. `ComesAgain`: backups and transfers recur until the daemon
ends. `NothingInvented`: a line written where an event begins tells of that
event and was written once, in the order of the events; other lines come only
from offsets off the grid of 16 bytes on which events lie.
`HeadsAreLogged`: the first named event of each read has its line.
`QueueIsRead`: the walk always ends. `LoopHasPort`: who is in the loop listens,
unless `popen()` failed (it reports that as `IS_SINGLETON`).
`OrderlyHandover`: the port of a daemon that ends by a signal, a close or a PANIC
is another's only when its helpers are told and waited for; a foreground daemon
that was not signalled waits for one of the two. It depends on the order of
`__clean_close()`, which closes the socket last. `AnsweredInTurn`: what `reportmanc` prints for a command
answers that command; only the last may lack one. `OnlyDesertedPipesBreak`:
SIGPIPE comes only over a client that was killed before it read an answer.
`CloseIsObeyed`: an accepted close ends the daemon, unless it waits for ever for a
deaf helper, or, after a `select()` that failed, for a client that says nothing
and stays. `ClientsFinish`: if clients go on, each comes to its end, unless it is
in the queue of a daemon that waits for a deaf helper, whose listening socket is
still open. TLC finds each of the two violated without any of its exceptions.
`SmallUlongsArrive`, `KindsStayApart`: what the encoding carries and keeps
apart. `WordsImplemented`: the predicates of `Words`, which the supervision
model uses, are those of the bits.

**Fairness.** Every process is scheduled, so each helper's and the daemon's
enabled steps are taken (WF). The health timer is periodic and stays readable
until it is handled, so a `poll()` that finds it expired happens again and
again (SF on `Poll({"tick"})`). A session ends: the client's `select()` budget
of 10 s runs down on Linux. A timer handler returns. In `Transfer` the timers are periodic and an upload
that was begun ends (WF); a handler makes progress although it may be
interrupted (SF), since the other timer fires once a day. In `Schedule`
time passes, due timers expire, handlers return and the periodic probe finds a
dead `fm` (WF). In `MonitorEvents` mon is scheduled and restarted. In `Port`
every reportmand is scheduled and the ten seconds of a session pass; nobody need
ever start or connect, and no minute of TIME_WAIT need pass. No fault, timeout,
client, shift or signal is assumed to happen. Clients are not scheduled by
`Port`'s specification: that they go on is the hypothesis of `ClientsFinish`
alone, and `CloseIsObeyed` does without it.

## Findings

1. `directory_tool.c:134` - the destination is opened for writing only, so its
   hash is that of an empty file: the verification fails for every non-empty
   file, and a transfer moves nothing but empty ones (`equal_files`).
2. `reportmand.c:789, 801, 811, 845, 852, 857, 1070` - these exits leave the
   other helper running and unsignalled (`abandoned_helper`).
3. `monitor_tool.h:29` - `IN_EVENT_NEXT` does not count the header. TLC's trace
   (`lost_events`): two named events come in one read of 64 bytes; the walk logs
   the first, steps 16 bytes to that event's own name, reads a length of 0 there,
   and `IN_EVENT_OK` ends it: one line for two events. An event without a name (of the directory itself) is never logged, not even as
   the first: `IN_EVENT_OK` wants `len >= 16`, although `mt_event_process` has a
   branch for `len == 0`. When the walk has come into a name of 13 characters
   (mod 16), it takes the last one for a length; if that fits (TLC: `$`, 36) it
   goes on off the grid of 16 bytes and may log a line no event stands behind,
   which is why `NothingInvented` speaks of the others.
4. `reportmand.c:1067`, `reportman_fm.c:106` - a timer signal that interrupts
   `poll()` ends `fm` and costs one of its restarts; they never come back, and
   after `max_retries + 2` of them the daemon ends (`schedule_ends`).

Met on the way, part of the models, and stated by what the passing properties
except:

* The probe takes any command for an answer, so a PANIC that arrives after the
  drain is dropped (`reportmand.c:1058`; `PanicIsObeyed` has `dpc # "answer"`).
* `fds[]` is never renewed after a restart: what the new helper sends does not
  wake the daemon, which spins on the old pipe's hang-up (`258-262`).
* `__handle_sigpipe` dereferences `__current_process`, NULL before the first
  probe and after each restart; a client that leaves early enough crashes the
  daemon (`1046`; `HelperNeverCrashesDaemon`, `OnlyDesertedPipesBreak`). A build
  of the daemon does crash this way.
* SIGTERM stays blocked when `signalfd()` fails, and the daemon's `waitpid(0)`
  never returns (`reportman.c:551-566`; `WaitsForDeaf`). It comes before the
  listening socket is closed (`reportmand.c:708`, `723`), so clients go on to
  connect to a daemon that accepts nobody, and wait for ever (`Forsaken`).
* `select()` returning -1 counts as ready, and the `read()` behind it has no time
  limit (`reportmand.c:333-335`): a client that says nothing then holds the
  daemon for as long as it stays (`WaitsForClient`).
* Where SIGCHLD has its default action a dead helper is a zombie, its pid exists
  and its pipe is at end of file. If the unset word read there is a command each
  time, the zombie answers every probe and is never replaced: `DeadChildReplaced`
  is checked with SIGCHLD ignored, and is violated without.
* `__get_other_pid` returns 0, that is `IS_SINGLETON`, when `popen()` fails
  (`490`), and a reportmand goes on without the port (`LoopHasPort`).
* `realloc()` is given an uninitialised pointer when lsof's list is read (`545`).
* `--force` can end with no daemon at all: the port stays taken for a minute
  when a session was open (no `SO_REUSEADDR`), and the process killed may have
  been a client, or a launcher that had already forked. `--close` reports
  success in those cases.
* A client whose session timed out meanwhile prints the farewell in place of
  an answer, and nothing for what it sends after that.
* `fm` restarted within the instant of its time serves it again (`OncePerTime`).
* `retries` is never reset; `max_retries` 3 allows four restarts; `__directories`
  has no NULL terminator; the daemon asks its own process for `fm`'s timer ids
  (`661`); `reportman_fm -t`, which moves out of the reports directory, removes a
  report that was still empty when it was hashed and has been filled since
  (with `"manual"` among `Movers`, `FiledReportKept` is violated).

## Proofs

Nothing is assumed but the named ASSUMEs of the modules: of `Kernel`, any
`MaxRetries` and `MaxEvents` in Nat, both values of `SigchldIgnored`, any
`Faults` and `Garbage`; of `IpcWords`, any set of ids; of `Schedule`, a day of
any length, any two times of day, a `MaxLag` below a day, any shifts below a
day; of `Transfer`, at least one name, any movers, at least one block, any
bounds; of `Loopback`, `ClientSession` and `Port`, any reportmands and clients,
any backlog, any scripts of commands and any number of faults. Four theorems
have one hypothesis more, and without it are false, as TLC shows: three about
`Transfer`, that nobody runs `reportman_fm -t` by hand (`"manual" \notin
Movers`), and `ProbesArePaired`, that no helper sends a PANIC and works on
(`SilentFaults`: neither `"logfile"` nor `"inotify"` among `Faults`). Of
`MonitorEvents`: watch descriptors of one byte, any names of at most 255
characters, masks of at most 31 bits, a buffer of any size.

`SupervisionProofs`: the inductive invariant `IInv` is `TypeOK` and four parts.

* `PhaseInv` - which places of the daemon belong to start-up and which to the
  loop, who is being handled there, and that `__current_process` is set
  throughout a probe. Without it nothing says for whom a fork is.
* `CountInv` - `cur[c] = retries[c] + 1` except between the count and the fork,
  and `retries[c] <= MaxRetries + 1` while the daemon runs. Without it the next
  incarnation could be out of range, so not even `TypeOK` is inductive.
* `GaveUpInv` - giving up is final and happens at the limit.
* `RosterInv` - incarnations to come have no process, past ones are gone, the
  present one is gone whenever the daemon is at `retry` or `fork`. `SoleLive`
  follows, but is not inductive: only the last clause makes the fork safe.

Steps that are not forks are `Settled`: nothing becomes a process, nothing
reaped or exited comes back. One lemma shows this for every step of a helper,
so that the invariants about the daemon need not look at them again.

| Theorem | Establishes |
|---|---|
| `Invariant` | `IInv` |
| `TypeCorrect` | `TypeOK`: never more than `MaxRetries + 2` forks per helper |
| `RolesAreSole` | `SoleLive` |
| `RestartsAreBudgeted` | `RestartBudget` |
| `HelperNeverCrashes` | `HelperNeverCrashesDaemon` |
| `OrderlyExitsSignal` | `OrderlyExitSignalsAll` (`EndingProofs`) |
| `SignalExitsReap` | `SignalExitReapsAll` (`EndingProofs`) |
| `SupervisionKeepsRoster` | `KeepsRoster`: `Supervision` implements `Roster` (`EndingProofs`) |
| `PipesAreOrderly` | `PipeInv`: what the pipes hold (`PipeProofs`) |
| `PanicsAreObeyed` | the action property `PanicIsObeyed` (`PipeProofs`) |
| `TimersAreFresh` | `TimersFresh` (`PipeProofs`) |
| `RestartsCostFaults` | `RestartsArePaid`, for any faults and limits (`PipeProofs`) |
| `ProbesArePaired` | `ProbesPaired`, without log and inotify failures (`PipeProofs`) |
| `ScheduleTypes` | `Schedule`'s `TypeOK` |
| `TimersKeepTime` | `ArmedForItsTime` |
| `FiresOncePerTime` | `OncePerTime` |
| `NoTimePasses` | the action property `NoTimeMissed` |
| `TransferTypes` | `Transfer`'s `TypeOK`: no file outgrows a complete report |
| `BackupReadsLocked` | `ReportsLockedWhileCopied`, without movers by hand |
| `ReportsAreKept` | `FiledReportKept`, without movers by hand |
| `TransferKeepsReports` | `KeepsReports`: `Transfer` implements `Reports`, without movers by hand |
| `PortTypes` | `Port`'s `TypeOK` |
| `WorkersHavePort` | `LoopHasPort` |
| `HandoverIsOrderly` | `OrderlyHandover` |
| `AnswersInTurn` | `AnsweredInTurn`, for any number of clients and commands |
| `PipesBreakDeserted` | `OnlyDesertedPipesBreak` |
| `UlongsArrive` | `SmallUlongsArrive`, for every set of ids (`IpcWordsProofs`) |
| `CommandsAndIdsStayApart` | `KindsStayApart`, for every set of ids (`IpcWordsProofs`) |
| `KindsAreBits` | `WordsImplemented`, for every set of ids (`IpcWordsProofs`) |
| `MonitorTypes` | `MonitorEvents`' `TypeOK` |
| `NothingIsInvented` | `NothingInvented`, for every set of names and every buffer |
| `HeadsLogged` | `HeadsAreLogged` |
| `NamesEndInRead` | `NamesEnd`: no name that is logged runs on into stale bytes |

`EndingProofs` adds two parts to `IInv`: once the daemon has called
`kill(0, SIGTERM)` everybody alive has been told (`ToldInv`), and each of the
two waits accounts for one helper (`ReapedInv`): by `RosterInv` a helper has at
most one process that is neither gone nor to come, so the zombie the first wait
reaps is all its role has left, and the second wait finds the other one.

It also maps the daemon's places and the process table to `Roster`: a
fork is a `Fill` (by `RosterInv` the role's last process is gone, by `CountInv`
there is budget left and `fm` has been started), and every other step is a
`Lose` of the helpers that died in it (by `Settled` none comes to life; `RolesKept`
shows that only a fork moves `cur` and that no way out is left again).

`PipeProofs`: everything the daemon reads depends on whose words come in which
order, so the invariant is about the pipes' contents. A helper opens with
`Opening` (ACK, and for `fm` its two timer words); `Said` of it is written and
`Heard` of it read, which its place and the daemon's tell. `Orderly`: as long as
the daemon cares for the helper its pipe `Holds` the words in between, and behind
the last of them commands only. `EmptyInv` and `DownInv`: a helper starts with
empty pipes, and nothing the daemon writes ends it. So a word is read as what it
was sent as, also in the handshake of a restarted helper while the old one's pipe
is still in `fds[]`; the two timer ids and the PANICs follow. Steps of the
daemon that touch none of this are `Calm`.

* `TimersAreFresh` adds `TimerInv`: an id that has been heard is the present
  `fm`'s, and the right one of the two as long as that `fm` runs; one that died
  may have left any word in its place.
* `RestartsCostFaults` adds two parts. `TermInv`: without a SIGTERM from outside
  only the unfit helper is told to end. `PaidInv` is the account: restarts plus
  helpers that are certain to be replaced (`Doomed`) never exceed the faults;
  once SIGTERM has come, those that may be replaced before the daemon looks at it
  (`Exposed`) take the place of the doomed, with one more to spend.
* `ProbesArePaired` adds two parts. `AckInv`: the first word a helper is to read
  is the daemon's ACK, never a probe. `PairInv`, of a helper that runs and
  listens: while the daemon waits, one probe and an empty pipe, or no probe and
  one answer; otherwise no probe and the unread rest of the opening, so nothing
  once that is over. Only a PANIC could add to that.

`ScheduleProofs`: `OncePerTime` is not inductive, because it does not say what
a timer will still do. The invariant adds that armed timers are found ones
(`ArmedInv`), that *every* time found, not only an armed one, is the next date
of its own time of day (`TimeInv`), that a timer which is due for the present
instant has not been counted for it yet (`OnceInv`), and that one set a whole
day ahead at its own time has been served (`ServedInv`). The arithmetic of the
clock (`tod + left` is `At` or one day from it) is what makes a tick and a
shift keep `TimeInv`, and it needs `MaxLag` to be less than a day.

`TransferProofs`: `TypeInv` adds to `TypeOK` which files a mover has open at
which `pc`; `StackInv` says that fm's stack holds each running handler once, so
that only the innermost one runs; `WalkInv` that the walks left to a handler are
a tail of those it has to do, so that a backup which reads has done all its
walks. With these, `ReportsLockedWhileCopied` is inductive: the transfer's walks
never name the reports, and the backup's last one cannot be cut short, since
what is removed is never a report (`RemovesNoReport`). `FiledReportKept` needs
two parts more. `ApartInv`: the inode of a report has no second name and is open
for writing with the uploader only; otherwise a copy could write into it, or a
freed and reused inode could be taken for it. `UploadInv`: the file being
uploaded still has its name and consists of the blocks written so far, so that
it is complete when it is closed. Every step of a
mover then is `Quiet` (`OthersQuiet`): it leaves the names and contents of the
reports as they are. That keeps the invariant and makes the step a stutter of
`Reports`; the three steps of the uploader are its `Replace`, `Write` and `Close`.

`PortProofs`: `HoldInv` extends `LoopHasPort` to all of the code between
`d_acquire_singleton()` and the last line of `__clean_close()`: a daemon in any
of its waits has the port. `WayOutInv` follows the way out of a daemon that ends
by a signal, a close or a PANIC: at which calls it can be, that the helpers are
told before the wait of `__clean_close()`, that it runs in the foreground or after
two forks, and how many helpers are left after the first and the second wait.
`OrderlyHandover` needs both: if another has the port the daemon is past the
close of its socket (`HoldInv`), and what holds there was done before it
(`WayOutInv`). `AnsweredInTurn` needs the whole conversation of each client
(`TalkInv`): a client that is served or waits has at most one command without a
printed answer, and either the command, the answer or neither is under way
(`PreInv`); once something that is not the answer is on its way, nothing can
follow it (`ClientInv`); the backlog holds each waiting client once
(`QueueInv`); no two reportmands serve the same client, and between a command
and its reply nothing else is under way (`ServeInv`). It holds although the
client goes on writing after a timeout, and a daemon may die at any point.

`MonitorProofs`: neither property of the log is inductive, because they speak of
what was written and not of the bytes the next line is made of. `IInv` adds that
the buffer holds the encoding of `present` from its start and `length` is
what is left of it (`Held`), that these events are the last of `taken`
(`Recent`), that a line of one of them comes from an offset the walk is past
(`InOrder`), and that the first of them has its line, if it has a name, or is the
walk's next (`HeadsKept`). The work is in the layout: `EventIsRead` says that at the
offset where an event begins the walk reads that event, `LaterIsFurther` that two
events never share one, and `BlockEndsWalk` that at any other multiple of 16 no
line is written: there it stands in a name, and four bytes of a name that read as
a watch descriptor end in NULs, so the name is over and the length behind them
reads 0. `NothingInvented` follows. `NamesEnd` rests on the last byte of every
read being zero (`LastIsNul`).

The offsets are a recursive sum over the events of a read, so these lemmas need
induction over data. The library's induction theorems take an operator as a
parameter and cannot be used; `UpTo` states induction for a *set* of numbers
instead (a set that holds 0 and hands on to n + 1 below N holds up to N, from
`WFMin` and the well-foundedness of `<` on Nat), and each use gives the property
as the set of the numbers that have it.

Model-checked only: all liveness properties and the fairness they rest on
(out of the prover's reach); `ProbesPaired` where a helper panics and works on
(it is false there).

## Not modelled

Left out for good: flag and path parsing and log formatting (sequential string
work without state), the Makefile and the service file, `fm`'s debug mode,
`setsid` and the closing of descriptors in `daemonize`, `get_timers`' dates,
subdirectories and failing `chmod`, `mkdir` and `fopen` in a transfer.

## Running

    tlc -config supervise_daemonized.cfg MCSupervision.tla
    tlc -config ipc_words.cfg MCWords.tla
    tlc -config move_reports.cfg MCTransfer.tla
    tlc -config schedule.cfg MCSchedule.tla
    tlc -config monitor_events.cfg MCMonitorEvents.tla
    tlc -config port.cfg MCPort.tla
    tlapm SupervisionProofs.tla
    tlapm EndingProofs.tla
    tlapm PipeProofs.tla
    tlapm IpcWordsProofs.tla
    tlapm ScheduleProofs.tla
    tlapm TransferProofs.tla
    tlapm PortProofs.tla
    tlapm MonitorProofs.tla
