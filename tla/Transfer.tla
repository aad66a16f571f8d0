------------------------------- MODULE Transfer -------------------------------
(***************************************************************************)
(* Moving reports between the three directories, one system call at a      *)
(* time: the two timer handlers of reportman_fm, which may interrupt each  *)
(* other, the daemon's copies for a client, and reportman_fm run by hand,  *)
(* against somebody who uploads reports.                                   *)
(*                                                                         *)
(* A name leads to an inode and open files hold inodes, because a file may *)
(* be removed while it is being written.  Contents are sequences of        *)
(* blocks, a block being one buffer of stdio; it holds the number of the   *)
(* upload it comes from.  The shell of a directory tree (mkdir, recursion) *)
(* is left out: every name is in the same directory.                       *)
(***************************************************************************)
EXTENDS Naturals, Sequences

CONSTANTS
    Name,         \* names of reports
    Movers,       \* who moves files in this instance
    MaxInode,     \* bound: files that exist or are open at one time
    Blocks,       \* blocks of a complete report
    Privileged,   \* the uploader may ignore modes
    MaxUploads,   \* bound: uploads in one behaviour
    MaxEvents     \* bound: crashes and commands by hand or client

Handler == {"backup", "transfer"}
Mover   == Handler \cup {"client", "manual"}
Dir     == {"reports", "dashboard", "archive"}

ASSUME NameAssumption == Name # {}
ASSUME MoversAssumption == Movers \subseteq Mover
ASSUME BoundsAssumption ==
    /\ MaxInode \in Nat /\ MaxUploads \in Nat /\ MaxEvents \in Nat
    /\ Blocks \in Nat \ {0}
ASSUME PrivilegedAssumption == Privileged \in BOOLEAN

VARIABLES
    dir,     \* name -> inode in each directory, 0 for no file
    data,    \* blocks of each inode
    mode,    \* made (0770), locked (0440) or unlocked (0660)
    job,     \* what each mover is doing
    stack,   \* the handlers running in fm, the innermost last
    user,    \* the uploader's open file
    uploads, \* uploads begun so far
    filed,   \* the upload each report consists of, 0 while it is rewritten
    events

vars == <<dir, data, mode, job, stack, user, uploads, filed, events>>

Inode == 1 .. MaxInode
Block == 0 .. MaxUploads     \* 0 is a hole

Copy(from, to) == [move |-> FALSE, from |-> from, to |-> to]   \* BACKUP
Move(from, to) == [move |-> TRUE,  from |-> from, to |-> to]   \* TRANSFER

\* Variant: the daemon moves for both commands.
OrderAlwaysMoving(m) ==
    CASE m = "backup"   -> {Copy("reports", "dashboard")}
      [] m = "transfer" -> {Move("dashboard", "archive")}
      [] m = "client"   -> {Move("reports", "archive"), Move("dashboard", "archive")}
      [] m = "manual"   -> {Copy("dashboard", "archive"), Move("reports", "dashboard")}

Order(m) ==
    CASE m = "backup"   -> {Copy("reports", "dashboard")}
      [] m = "transfer" -> {Move("dashboard", "archive")}
      [] m = "client"   -> {Copy("reports", "archive"), Move("dashboard", "archive")}
      [] m = "manual"   -> {Copy("dashboard", "archive"), Move("reports", "dashboard")}

\* The nftw() walks of a handler, over the directory as a whole.
LockWalks(m) ==
    CASE m = "backup"   -> <<<<"dashboard", "locked">>, <<"reports", "locked">>>>
      [] m = "transfer" -> <<<<"dashboard", "locked">>>>
      [] OTHER          -> <<>>

\* Variants: the transfer unlocks the other tree; unlocking locks again.
UnlockWalksOfSource(m) ==
    CASE m = "backup"   -> <<<<"dashboard", "locked">>, <<"reports", "unlocked">>>>
      [] m = "transfer" -> <<<<"reports", "unlocked">>>>
      [] OTHER          -> <<>>
UnlockWalksLocking(m) == LockWalks(m)

UnlockWalks(m) ==
    CASE m = "backup"   -> <<<<"dashboard", "locked">>, <<"reports", "unlocked">>>>
      [] m = "transfer" -> <<<<"dashboard", "unlocked">>>>
      [] OTHER          -> <<>>

Closed == [in |-> 0, out |-> 0, pos |-> 0, buf |-> <<>>, match |-> FALSE]
Idle   == [pc |-> "idle", order |-> Copy("reports", "archive"),
           walks |-> <<>>, left |-> {}, name |-> CHOOSE n \in Name : TRUE, file |-> Closed]
NoUser == [name |-> CHOOSE n \in Name : TRUE, ino |-> 0, pos |-> 0]

Complete(v) == [k \in 1 .. Blocks |-> v]

\* A block written at position k, after a hole if the file is shorter.
Put(s, k, b) ==
    [i \in 1 .. (IF k > Len(s) THEN k ELSE Len(s)) |->
        IF i = k THEN b ELSE IF i <= Len(s) THEN s[i] ELSE 0]

Linked == {dir[d][n] : d \in Dir, n \in Name}
Open   == {user.ino} \cup {job[m].file.in : m \in Movers}
                     \cup {job[m].file.out : m \in Movers}

\* The contents after a step: an inode without name and open file is freed.
\* To be used after dir', job' and user' are known.
Store(d) == data' = [i \in Inode |-> IF i \in Linked' \cup Open' THEN d[i] ELSE <<>>]

Free    == Inode \ (Linked \cup Open)
NewFile == CHOOSE i \in Free : TRUE

\* fopen(path, "wb"): create the file or cut it to nothing.
Truncated(d, n, i) ==
    /\ IF dir[d][n] = 0 THEN Free # {} /\ i = NewFile ELSE i = dir[d][n]
    /\ dir' = [dir EXCEPT ![d][n] = i]

\* fm is one thread: only the innermost handler runs.
Runs(m) ==
    /\ job[m].pc # "idle"
    /\ m \in Handler => stack[Len(stack)] = m

Holding(m, pc) == Runs(m) /\ job[m].pc = pc

Become(m, j) == job' = [job EXCEPT ![m] = j]

\* The next file of the directory, with the last one's descriptors closed.
NextFile(m) == Become(m, [job[m] EXCEPT !.pc = "next", !.file = Closed])

Goto(m, pc) == Become(m, [job[m] EXCEPT !.pc = pc])

-----------------------------------------------------------------------------
\* init_directories() has made the directories; they are empty.
Init ==
    /\ dir = [d \in Dir |-> [n \in Name |-> 0]]
    /\ data = [i \in Inode |-> <<>>]
    /\ mode = [d \in Dir |-> "made"]
    /\ job = [m \in Movers |-> Idle]
    /\ stack = <<>>
    /\ user = NoUser
    /\ uploads = 0
    /\ filed = [n \in Name |-> 0]
    /\ events = 0

-----------------------------------------------------------------------------
(* The uploader, one report at a time.  Modes are looked at by open() only. *)

MayEnter(d) == Privileged \/ mode[d] = "made"

BeginUpload(n) ==
    /\ user.ino = 0 /\ uploads < MaxUploads /\ MayEnter("reports")
    /\ \E i \in Inode :
          /\ Truncated("reports", n, i)
          /\ user' = [name |-> n, ino |-> i, pos |-> 0]
          /\ UNCHANGED job
          /\ Store([data EXCEPT ![i] = <<>>])
    /\ uploads' = uploads + 1
    /\ filed' = [filed EXCEPT ![n] = 0]
    /\ UNCHANGED <<mode, stack, events>>

UploadBlock ==
    /\ user.ino # 0 /\ user.pos < Blocks
    /\ user' = [user EXCEPT !.pos = @ + 1]
    /\ UNCHANGED <<dir, job>>
    /\ Store([data EXCEPT ![user.ino] = Put(@, user.pos + 1, uploads)])
    /\ UNCHANGED <<mode, stack, uploads, filed, events>>

EndUpload ==
    /\ user.ino # 0 /\ user.pos = Blocks
    /\ filed' = [filed EXCEPT ![user.name] = uploads]
    /\ user' = NoUser
    /\ UNCHANGED <<dir, job>>
    /\ Store(data)
    /\ UNCHANGED <<mode, stack, uploads, events>>

-----------------------------------------------------------------------------
(* Starting, locking and unlocking.                                        *)

\* readdir() will return every name that is still there when its turn comes.
Started(m, o) ==
    Become(m, [Idle EXCEPT !.pc = IF LockWalks(m) = <<>> THEN "next" ELSE "lock",
                           !.order = o, !.walks = LockWalks(m), !.left = Name])

\* Variant: SA_NODEFER, the handler's own signal interrupts it too.
FireNoDefer(h) ==
    /\ Become(h, [Idle EXCEPT !.pc = "lock", !.order = CHOOSE o \in Order(h) : TRUE,
                              !.walks = LockWalks(h), !.left = Name])
    /\ stack' = Append(stack, h)
    /\ UNCHANGED <<dir, data, mode, user, uploads, filed, events>>

\* A timer signal; its own signal is blocked while a handler runs, the other
\* one is not (sa_mask is empty).
Fire(h) ==
    /\ job[h].pc = "idle"
    /\ \E o \in Order(h) : Started(h, o)
    /\ stack' = Append(stack, h)
    /\ UNCHANGED <<dir, data, mode, user, uploads, filed, events>>

\* A client's BACKUP or TRANSFER, or reportman_fm -b or -t.
Command(m) ==
    /\ job[m].pc = "idle" /\ events < MaxEvents
    /\ \E o \in Order(m) : Started(m, o)
    /\ events' = events + 1
    /\ UNCHANGED <<dir, data, mode, stack, user, uploads, filed>>

\* A file that vanishes during a walk ends it; the directory comes last.
CutShort(m, d) ==
    \E k \in Movers \ {m} : Holding(k, "remove") /\ job[k].order.from = d

Walk(m) ==
    LET w == Head(job[m].walks) IN
    mode' \in {[mode EXCEPT ![w[1]] = w[2]]} \cup (IF CutShort(m, w[1]) THEN {mode} ELSE {})

Lock(m) ==
    /\ Holding(m, "lock")
    /\ Walk(m)
    /\ Become(m, [job[m] EXCEPT !.walks = Tail(@),
                                !.pc = IF Tail(job[m].walks) = <<>> THEN "next" ELSE @])
    /\ UNCHANGED <<dir, data, stack, user, uploads, filed, events>>

\* The mover is done; a handler returns to what it interrupted.
Return(m) ==
    /\ Become(m, Idle)
    /\ stack' = IF m \in Handler THEN SubSeq(stack, 1, Len(stack) - 1) ELSE stack

CloseDir(m) ==
    /\ Holding(m, "next") /\ job[m].left = {}
    /\ IF UnlockWalks(m) = <<>>
       THEN Return(m)
       ELSE /\ Become(m, [job[m] EXCEPT !.pc = "unlock", !.walks = UnlockWalks(m)])
            /\ UNCHANGED stack
    /\ UNCHANGED <<dir, data, mode, user, uploads, filed, events>>

Unlock(m) ==
    /\ Holding(m, "unlock")
    /\ Walk(m)
    /\ IF Tail(job[m].walks) = <<>>
       THEN Return(m)
       ELSE Become(m, [job[m] EXCEPT !.walks = Tail(@)]) /\ UNCHANGED stack
    /\ UNCHANGED <<dir, data, user, uploads, filed, events>>

-----------------------------------------------------------------------------
(* transact_transfer_file().                                               *)

\* stat() and fopen(source_path, "rb"); a name that is gone is skipped.
OpenSource(m) ==
    /\ Holding(m, "next")
    /\ \E n \in job[m].left :
          LET i == dir[job[m].order.from][n]
              j == [job[m] EXCEPT !.left = @ \ {n}]
          IN  Become(m, IF i = 0 THEN j
                        ELSE [j EXCEPT !.pc = "create", !.name = n, !.file.in = i])
    /\ UNCHANGED <<dir, data, mode, stack, user, uploads, filed, events>>

\* fopen(dest_path, "wb")
CreateDest(m) ==
    /\ Holding(m, "create")
    /\ \E i \in Inode :
          /\ Truncated(job[m].order.to, job[m].name, i)
          /\ Become(m, [job[m] EXCEPT !.pc = "copy", !.file.out = i])
          /\ UNCHANGED user
          /\ Store([data EXCEPT ![i] = <<>>])
    /\ UNCHANGED <<mode, stack, uploads, filed, events>>

\* Variant: the block goes where the next one belongs.
FlushedAhead(f) ==
    IF f.buf = <<>> THEN data
    ELSE [data EXCEPT ![f.out] = Put(@, f.pos + 1, f.buf[1])]

\* What the destination holds once the buffered block is written out.
Flushed(f) ==
    IF f.buf = <<>> THEN data
    ELSE [data EXCEPT ![f.out] = Put(@, f.pos, f.buf[1])]

\* One block from fread() to fwrite(); the block before it leaves the buffer.
CopyBlock(m) ==
    LET f == job[m].file IN
    /\ Holding(m, "copy") /\ f.pos < Len(data[f.in])
    /\ Become(m, [job[m] EXCEPT !.file.pos = @ + 1,
                                !.file.buf = <<data[f.in][f.pos + 1]>>])
    /\ UNCHANGED <<dir, user>>
    /\ Store(Flushed(f))
    /\ UNCHANGED <<mode, stack, uploads, filed, events>>

EndOfSource(m) ==
    /\ Holding(m, "copy") /\ job[m].file.pos >= Len(data[job[m].file.in])
    /\ Goto(m, "hash")
    /\ UNCHANGED <<dir, data, mode, stack, user, uploads, filed, events>>

\* What fread() gets from a stream opened with "wb": an error at once.
ReadBack(s) == <<>>

\* hash_file(source), to be compared with the hash of what can be read of the
\* destination.  Both are decided by the first read of the source.
SameHash(f) == data[f.in] = ReadBack(data[f.out])

HashSource(m) ==
    /\ Holding(m, "hash")
    /\ Become(m, [job[m] EXCEPT !.pc = "flush", !.file.match = SameHash(job[m].file)])
    /\ UNCHANGED <<dir, data, mode, stack, user, uploads, filed, events>>

\* Variant: whatever has been verified is removed, also after a mere copy.
CloseFilesAndRemove(m) ==
    LET f == job[m].file IN
    /\ Holding(m, "flush")
    /\ IF f.match
       THEN Become(m, [job[m] EXCEPT !.pc = "remove", !.file = Closed])
       ELSE NextFile(m)
    /\ UNCHANGED <<dir, user>>
    /\ Store(Flushed(f))
    /\ UNCHANGED <<mode, stack, uploads, filed, events>>

\* hash_file(dest) seeks and so writes the last block; then both are closed,
\* and only a verified move goes on to remove().
CloseFiles(m) ==
    LET f == job[m].file IN
    /\ Holding(m, "flush")
    /\ IF f.match /\ job[m].order.move
       THEN Become(m, [job[m] EXCEPT !.pc = "remove", !.file = Closed])
       ELSE NextFile(m)
    /\ UNCHANGED <<dir, user>>
    /\ Store(Flushed(f))
    /\ UNCHANGED <<mode, stack, uploads, filed, events>>

\* remove(source_path): whatever has the name by now.
RemoveSource(m) ==
    /\ Holding(m, "remove")
    /\ dir' = [dir EXCEPT ![job[m].order.from][job[m].name] = 0]
    /\ NextFile(m)
    /\ UNCHANGED user
    /\ Store(data)
    /\ UNCHANGED <<mode, stack, uploads, filed, events>>

-----------------------------------------------------------------------------
\* fm dies in a handler: both handlers are gone, what they locked stays locked.
CrashFm ==
    /\ stack # <<>> /\ events < MaxEvents
    /\ job' = [m \in Movers |-> IF m \in Handler THEN Idle ELSE job[m]]
    /\ stack' = <<>>
    /\ events' = events + 1
    /\ UNCHANGED <<dir, user>>
    /\ Store(data)
    /\ UNCHANGED <<mode, uploads, filed>>

\* The daemon, or reportman_fm run by hand, dies in a copy.
CrashMover(m) ==
    /\ job[m].pc # "idle" /\ events < MaxEvents
    /\ Become(m, Idle)
    /\ events' = events + 1
    /\ UNCHANGED <<dir, user>>
    /\ Store(data)
    /\ UNCHANGED <<mode, stack, uploads, filed>>

\* One step of a mover at work.
Step(m) ==
    \/ Lock(m) \/ CloseDir(m) \/ Unlock(m)
    \/ OpenSource(m) \/ CreateDest(m) \/ CopyBlock(m) \/ EndOfSource(m)
    \/ HashSource(m) \/ CloseFiles(m) \/ RemoveSource(m)

Upload == UploadBlock \/ EndUpload

Next ==
    \/ \E n \in Name : BeginUpload(n)
    \/ Upload
    \/ \E h \in Movers \cap Handler : Fire(h)
    \/ \E m \in Movers \ Handler : Command(m) \/ CrashMover(m)
    \/ \E m \in Movers : Step(m)
    \/ CrashFm

\* An upload that was begun is finished, each timer fires again and again, and
\* a handler is not interrupted for ever: the timers are a day apart.
Spec ==
    /\ Init /\ [][Next]_vars
    /\ WF_vars(Upload)
    /\ \A h \in Movers \cap Handler : WF_vars(Fire(h))
    /\ \A h \in Movers \cap Handler : SF_vars(Step(h))
    /\ \A m \in Movers \ Handler : WF_vars(Step(m))

-----------------------------------------------------------------------------
FileState == [in : 0 .. MaxInode, out : 0 .. MaxInode, pos : 0 .. Blocks,
              buf : {<<>>} \cup {<<b>> : b \in Block}, match : BOOLEAN]

JobPc == {"idle", "lock", "next", "create", "copy", "hash", "flush", "remove", "unlock"}

\* The type of the state: no file ever grows beyond a complete report, and the
\* two handlers are on the stack exactly while they run, each once.
TypeOK ==
    /\ dir \in [Dir -> [Name -> 0 .. MaxInode]]
    /\ \A i \in Inode : Len(data[i]) <= Blocks /\ \A k \in 1 .. Len(data[i]) : data[i][k] \in Block
    /\ mode \in [Dir -> {"made", "locked", "unlocked"}]
    /\ \A m \in Movers :
          /\ job[m].pc \in JobPc
          /\ job[m].pc # "idle" => job[m].order \in Order(m)
          /\ job[m].left \subseteq Name /\ job[m].name \in Name
          /\ job[m].file \in FileState
          /\ m \in Handler => (job[m].pc # "idle") = (\E k \in 1 .. Len(stack) : stack[k] = m)
    /\ Len(stack) <= 2
    /\ user \in [name : Name, ino : 0 .. MaxInode, pos : 0 .. Blocks]
    /\ uploads \in 0 .. MaxUploads /\ events \in 0 .. MaxEvents
    /\ filed \in [Name -> Block]

Whole(d, n, v) == dir[d][n] # 0 /\ data[dir[d][n]] = Complete(v)

\* A report that was uploaded completely stays in the reports directory, whole,
\* whatever the handlers, the daemon's copies and crashes do to its copies.
FiledReportKept ==
    \A n \in Name : filed[n] # 0 => Whole("reports", n, filed[n])

\* While the backup reads the reports nobody new can open one, even if the
\* transfer handler has run inside it and unlocked what it had locked.
ReportsLockedWhileCopied ==
    "backup" \in Movers =>
       (job["backup"].pc \in JobPc \ {"idle", "lock", "unlock"} => mode["reports"] = "locked")

\* The reports directory is never left locked for good: a crash inside the
\* backup leaves it so only until a later backup ends.
ReportsReopen == (mode["reports"] = "locked") ~> (mode["reports"] # "locked")

\* If the handlers stop running inside each other, every report that stays as
\* it was uploaded reaches the archive whole, in spite of crashes, of interrupted
\* copies and of the daemon writing to the same files.
ReportsReachArchive ==
    <>[](Len(stack) <= 1) =>
        \A n \in Name : \A v \in 1 .. MaxUploads :
            (filed[n] = v) ~> (Whole("archive", n, v) \/ filed[n] # v)

-----------------------------------------------------------------------------
(* The movers do what Reports says.                                        *)

Texts == [n \in Name |-> IF dir["reports"][n] = 0 THEN <<>> ELSE data[dir["reports"][n]]]
Uploading == IF user.ino = 0 THEN {} ELSE {user.name}

Promised == INSTANCE Reports WITH
    Size  <- Blocks,
    text  <- Texts,
    open  <- Uploading,
    count <- uploads

\* Nobody but the uploader changes a byte of the reports directory, not of a
\* report that is still being written either: the copies, verifications and
\* removals of directory_tool.c, in any order and with any crash, implement Reports.
KeepsReports == Promised!Spec

-----------------------------------------------------------------------------
(* What a comment says and the code does not do.                           *)

\* "Compares two files SHA256 hash values": a destination that holds what the
\* source holds passes the verification.
EqualFilesVerify ==
    [][\A m \in Movers :
          /\ job[m].pc = "hash" /\ job'[m].pc = "flush"
          /\ Flushed(job[m].file)[job[m].file.out] = data[job[m].file.in]
          => job'[m].file.match]_vars
=============================================================================
