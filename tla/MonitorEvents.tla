--------------------------- MODULE MonitorEvents ---------------------------
(***************************************************************************)
(* The event log of reportman_mon: the kernel's queue of inotify events,   *)
(* the read of as many of them as the buffer holds, the walk over the      *)
(* buffer with IN_EVENT_OK and IN_EVENT_NEXT, and the lines it logs.       *)
(*                                                                         *)
(* The walk loses its place, so the buffer is kept as bytes: what it meets *)
(* where no event begins is whatever is there.                             *)
(***************************************************************************)
EXTENDS Naturals, Sequences

CONSTANTS
    Wd,          \* the watch descriptors of the monitored directories
    Mask,        \* masks of events that happen: one event bit, IN_ISDIR or not
    Name,        \* file names, as <<length, last character>>
    BufferSize,  \* INOTIFY_BUFFER_SIZE (8192 in the code)
    MaxEvents    \* bound: file events, crashes and restarts in one behaviour

ASSUME WdAssumption     == Wd \subseteq 1 .. 255
ASSUME MaskAssumption   == \A m \in Mask : m \in Nat /\ m <= 2147483647
ASSUME NameAssumption   == Name \subseteq (1 .. 255) \X (33 .. 126)
ASSUME BufferAssumption == BufferSize \in Nat /\ MaxEvents \in Nat

VARIABLES
    pc,       \* mon is down, in poll(), or in the walk
    file,     \* the log file is open: __log_file_fd is not NULL
    queue,    \* the kernel's queue of events, oldest first
    buffer,   \* the bytes of buffer[] written so far
    event,    \* the walk's pointer, as an offset into buffer
    length,   \* the walk's length
    log,      \* the lines of the log file
    events,   \* how many file events and crashes have happened
    taken,    \* history: every event that was read, in order
    present,  \* history: those of them that are in the buffer since the last read
    source,   \* history: for each line of the log, the offset it was read from
              \* and which event begins there (0 for none)
    heads     \* history: which events were the first of their read and had a
              \* name, and whose turn in the walk was not cut off

walkVars    == <<buffer, event, length>>
historyVars == <<taken, present, source, heads>>
vars == <<pc, file, queue, walkVars, log, events, historyVars>>

-----------------------------------------------------------------------------
(* What the kernel writes (inotify(7)).                                    *)

IN_EVENT_DATA_LEN == 16

\* An event of the directory itself has no name.
NoName == <<0, 0>>
FileEvent == [wd : Wd, mask : Mask, name : Name \cup {NoName}]

\* A name gets at least one NUL and fills a multiple of the header's size.
NameLen(name) == IF name = NoName THEN 0
                 ELSE IN_EVENT_DATA_LEN * (name[1] \div IN_EVENT_DATA_LEN + 1)

Filler == 120
NameBytes(name) ==
    [i \in 1 .. NameLen(name) |-> IF i < name[1] THEN Filler
                                  ELSE IF i = name[1] THEN name[2] ELSE 0]

\* Integers are little-endian; no event here is part of a rename (cookie 0).
Bytes(n) == <<n % 256, (n \div 256) % 256, (n \div 65536) % 256, n \div 16777216>>
Encoded(e) ==
    Bytes(e.wd) \o Bytes(e.mask) \o Bytes(0) \o Bytes(NameLen(e.name)) \o NameBytes(e.name)

\* The bytes of the first events of q: of none, of one, ...
Images(q) ==
    LET image[i \in 0 .. Len(q)] == IF i = 0 THEN <<>> ELSE image[i - 1] \o Encoded(q[i])
    IN  image

\* read() brings as many whole events as fit.
Brings(n) ==
    /\ n \in 1 .. Len(queue)
    /\ Len(Images(queue)[n]) <= BufferSize
    /\ n < Len(queue) => Len(Images(queue)[n + 1]) > BufferSize

-----------------------------------------------------------------------------
(* What the walk sees at an offset: a struct inotify_event, come what may.  *)

Byte(i)  == IF i < Len(buffer) THEN buffer[i + 1] ELSE 0
Number(i)   == Byte(i) + 256 * Byte(i + 1) + 65536 * Byte(i + 2) + 16777216 * Byte(i + 3)
WdAt(i)   == Number(i)
MaskAt(i) == Number(i + 4)
LenAt(i)  == Number(i + 12)

\* The C string at an offset: up to the first NUL.
NameAt(i) ==
    LET end == CHOOSE j \in i .. Len(buffer) : Byte(j) = 0 /\ \A k \in i .. (j - 1) : Byte(k) # 0
    IN  IF i >= Len(buffer) THEN <<>> ELSE SubSeq(buffer, i + 1, end)

\* Variants: a bound on len is missing or one too high.
IN_EVENT_OK_Unbounded == length >= IN_EVENT_DATA_LEN /\ LenAt(event) >= IN_EVENT_DATA_LEN
IN_EVENT_OK_Longer ==
    /\ length >= IN_EVENT_DATA_LEN
    /\ LenAt(event) > IN_EVENT_DATA_LEN
    /\ LenAt(event) <= length

IN_EVENT_OK ==
    /\ length >= IN_EVENT_DATA_LEN
    /\ LenAt(event) >= IN_EVENT_DATA_LEN
    /\ LenAt(event) <= length

\* IN_EVENT_NEXT: on by len, without the header.
Advance == LenAt(event)

event_masks == <<1, 4, 32, 8, 16, 256, 512, 1024, 2, 2048, 64, 128>>

\* __get_log_message(): the first entry of the table the mask has a bit of.
LogMessage(mask) ==
    LET Has(i) == (mask \div event_masks[i]) % 2 = 1
        hits   == {i \in DOMAIN event_masks : Has(i)}
    IN  IF hits = {} THEN 0
        ELSE event_masks[CHOOSE i \in hits : \A j \in hits : i <= j]

Line(wd, mask, name) == [dir |-> wd, message |-> LogMessage(mask), name |-> name]

-----------------------------------------------------------------------------
Init ==
    /\ pc = "down"
    /\ file = FALSE
    /\ queue = <<>>
    /\ buffer = <<>>
    /\ event = 0
    /\ length = 0
    /\ log = <<>>
    /\ events = 0
    /\ taken = <<>>
    /\ present = <<>>
    /\ source = <<>>
    /\ heads = {}

\* __monitor_paths() up to its loop: the log file is opened for appending, or
\* not; there is an inotify instance from here on.
Start ==
    /\ pc = "down"
    /\ pc' = "poll"
    /\ file' \in BOOLEAN
    /\ UNCHANGED <<queue, walkVars, log, events, historyVars>>

\* Something happens to a file of a watched directory, or to the directory. An
\* event like the last one in the queue is merged with it.
Happen(e) ==
    /\ pc # "down"
    /\ events < MaxEvents
    /\ events' = events + 1
    /\ queue' = IF queue # <<>> /\ queue[Len(queue)] = e THEN queue ELSE Append(queue, e)
    /\ UNCHANGED <<pc, file, walkVars, log, historyVars>>

\* POLLIN on the inotify descriptor. What an earlier read left behind the new
\* bytes stays in the buffer.
ReadEvents ==
    /\ pc = "poll"
    /\ \E n \in 1 .. Len(queue) :
        /\ Brings(n)
        /\ LET image == Images(queue)[n] IN
           /\ buffer' = image \o SubSeq(buffer, Len(image) + 1, Len(buffer))
           /\ length' = Len(image)
        /\ queue' = SubSeq(queue, n + 1, Len(queue))
        /\ present' = SubSeq(queue, 1, n)
    /\ taken' = taken \o present'
    /\ heads' = heads \cup IF queue[1].name = NoName THEN {} ELSE {Len(taken) + 1}
    /\ event' = 0
    /\ pc' = "walk"
    /\ UNCHANGED <<file, log, events, source>>

\* Variant: whatever comes through the inotify descriptor is of interest.
AnyMonitored(wd) == TRUE

\* The loop of mt_event_process(): is wd one of the monitors'?
Monitored(wd) == wd \in Wd

NoProcess == pc' = "down" /\ file' = FALSE /\ queue' = <<>>

\* The first event of the present read, and the one that begins at the pointer.
First == Len(taken) - Len(present) + 1
Begins(j) == j \in 1 .. Len(present) /\ Len(Images(present)[j - 1]) = event
EventHere == IF \E j \in 1 .. Len(present) : Begins(j)
             THEN Len(taken) - Len(present) + (CHOOSE j \in 1 .. Len(present) : Begins(j))
             ELSE 0

\* The process ends before the first event of the present read had its turn.
CutOff == heads' = IF pc = "walk" /\ event = 0 THEN heads \ {First} ELSE heads

\* __log_event() for what the pointer points at.
LogEvent ==
    /\ log' = Append(log, Line(WdAt(event), MaskAt(event), NameAt(event + IN_EVENT_DATA_LEN)))
    /\ source' = Append(source, [at |-> event, event |-> EventHere])

\* Variant: an event of no monitored directory is not stepped over.
WalkOnMonitored ==
    /\ pc = "walk"
    /\ IN_EVENT_OK
    /\ IF ~Monitored(WdAt(event)) THEN UNCHANGED <<event, length, log, source>>
       ELSE /\ event' = event + Advance
            /\ length' = length - Advance
            /\ LogEvent
    /\ UNCHANGED <<pc, file, queue, heads, buffer, events, taken, present>>

\* mt_event_process() and IN_EVENT_NEXT for what the pointer points at. Without
\* a log file __log_event() complains, and writes to the NULL stream.
WalkOn ==
    /\ pc = "walk"
    /\ IN_EVENT_OK
    /\ event' = event + Advance
    /\ length' = length - Advance
    /\ IF ~Monitored(WdAt(event)) THEN UNCHANGED <<pc, file, queue, log, source, heads>>
       ELSE IF file
            THEN LogEvent /\ UNCHANGED <<pc, file, queue, heads>>
            ELSE NoProcess /\ CutOff /\ UNCHANGED <<log, source>>
    /\ UNCHANGED <<buffer, events, taken, present>>

WalkEnds ==
    /\ pc = "walk"
    /\ ~IN_EVENT_OK
    /\ pc' = "poll"
    /\ UNCHANGED <<file, queue, walkVars, log, events, historyVars>>

\* mon dies; its inotify instance dies with it, the log file remains.
Crash ==
    /\ pc # "down"
    /\ events < MaxEvents
    /\ events' = events + 1
    /\ NoProcess
    /\ CutOff
    /\ UNCHANGED <<walkVars, log, taken, present, source>>

\* Nothing is left to happen; mon waits in poll().
Idle == pc = "poll" /\ queue = <<>> /\ events = MaxEvents /\ UNCHANGED vars

Next == Start \/ (\E e \in FileEvent : Happen(e)) \/ ReadEvents \/ WalkOn \/ WalkEnds
        \/ Crash \/ Idle

\* mon is scheduled and the daemon starts it again. Files need never change.
Fairness == WF_vars(Start) /\ WF_vars(ReadEvents) /\ WF_vars(WalkOn \/ WalkEnds)

Spec == Init /\ [][Next]_vars /\ Fairness

-----------------------------------------------------------------------------
TypeOK ==
    /\ pc \in {"down", "poll", "walk"}
    /\ file \in BOOLEAN
    /\ queue \in Seq(FileEvent)
    /\ buffer \in Seq(0 .. 255)
    /\ event \in Nat
    /\ length \in Nat
    /\ log \in Seq([dir : Nat, message : Nat, name : Seq(1 .. 255)])
    /\ events \in 0 .. MaxEvents
    /\ taken \in Seq(FileEvent)
    /\ present \in Seq(FileEvent) /\ Len(present) <= Len(taken)
    /\ source \in Seq([at : Nat, event : 0 .. Len(taken)]) /\ Len(source) = Len(log)
    /\ heads \subseteq 1 .. Len(taken)

LineOf(e) == Line(e.wd, e.mask, [i \in 1 .. e.name[1] |-> NameBytes(e.name)[i]])

\* A line that is read from where an event begins tells of that event, such lines
\* are in the order of the events, and no event has two. A line that is read from
\* where none begins tells of nothing that happened: the walk comes there only
\* when it has taken a letter for a length, so never at a multiple of the header's
\* size, where a header or a whole block of a name could stand.
NothingInvented ==
    \A i \in DOMAIN log :
        LET e == source[i].event IN
        /\ e # 0 => log[i] = LineOf(taken[e])
        /\ e # 0 => \A k \in 1 .. i - 1 : source[k].event < e
        /\ e = 0 => source[i].at % IN_EVENT_DATA_LEN # 0

\* The first event of every read is logged, if it has a name, whatever follows
\* it in the buffer: nothing is lost for as long as mon reads each event before
\* the next one comes.
HeadsAreLogged == pc = "poll" => \A h \in heads : \E i \in DOMAIN source : source[i].event = h

\* The walk always comes to its end and the queue is emptied: no length read
\* from the wrong place can keep the pointer where it is.
QueueIsRead == (queue # <<>>) ~> (queue = <<>>)

-----------------------------------------------------------------------------
(* What a comment says and the code does not do.                           *)

\* When the walk over a read of nothing but named events has come to its end,
\* undisturbed, each of them has its line.
EveryEventLogged ==
    /\ pc = "walk" /\ ~IN_EVENT_OK
    /\ \A j \in DOMAIN present : present[j].name # NoName
    => \A j \in DOMAIN present : \E i \in DOMAIN source : source[i].event = First + j - 1
=============================================================================
