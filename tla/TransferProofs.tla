--------------------------- MODULE TransferProofs ---------------------------
(***************************************************************************)
(* Proofs about the moving of reports, for any number of reports, of any   *)
(* number of blocks, with any uploads, crashes and commands.               *)
(***************************************************************************)
EXTENDS Transfer, SequenceTheorems, TLAPS

USE NameAssumption, MoversAssumption, BoundsAssumption, PrivilegedAssumption

Text == {s \in Seq(Block) : Len(s) <= Blocks}
Walking == Dir \X {"locked", "unlocked"}

Job == [pc : JobPc, order : [move : BOOLEAN, from : Dir, to : Dir], walks : Seq(Walking),
        left : SUBSET Name, name : Name, file : FileState]

\* What the handlers can be on fm's stack: one inside the other.
Stacks == {<<>>} \cup {<<h>> : h \in Movers \cap Handler}
          \cup {<<h, k>> : h \in Movers \cap Handler, k \in Movers \cap Handler}

Running(m) == job[m].pc # "idle"

\* The types of the whole state, and which files a mover has open at which time.
TypeInv ==
    /\ dir \in [Dir -> [Name -> 0 .. MaxInode]]
    /\ data \in [Inode -> Text]
    /\ mode \in [Dir -> {"made", "locked", "unlocked"}]
    /\ job \in [Movers -> Job]
    /\ user \in [name : Name, ino : 0 .. MaxInode, pos : 0 .. Blocks]
    /\ uploads \in 0 .. MaxUploads /\ events \in 0 .. MaxEvents
    /\ filed \in [Name -> Block]
    /\ \A m \in Movers :
          /\ Running(m) => job[m].order \in Order(m)
          /\ job[m].pc \in {"create", "copy", "hash", "flush"} => job[m].file.in # 0
          /\ job[m].pc = "remove" => job[m].order.move

\* Each handler is on the stack once while it runs.
StackInv ==
    /\ stack \in Stacks
    /\ \A i, k \in 1 .. Len(stack) : stack[i] = stack[k] => i = k
    /\ \A h \in Movers \cap Handler : Running(h) <=> \E k \in 1 .. Len(stack) : stack[k] = h

\* What is left of the walks of a handler.
LockRest(m) ==
    CASE m = "backup"   -> {LockWalks(m), <<<<"reports", "locked">>>>}
      [] m = "transfer" -> {LockWalks(m)}
      [] OTHER          -> {}
UnlockRest(m) ==
    CASE m = "backup"   -> {UnlockWalks(m), <<<<"reports", "unlocked">>>>}
      [] m = "transfer" -> {UnlockWalks(m)}
      [] OTHER          -> {}

WalkInv ==
    \A m \in Movers :
        /\ job[m].pc = "lock" => job[m].walks \in LockRest(m)
        /\ job[m].pc = "unlock" => job[m].walks \in UnlockRest(m)

\* The files of the reports directory: no other name leads to one of them, and
\* nobody but the uploader has one open for writing.
Report == {dir["reports"][n] : n \in Name} \ {0}

ApartInv ==
    /\ \A d \in Dir \ {"reports"} : \A n \in Name : dir[d][n] \notin Report
    /\ \A m \in Movers : job[m].file.out \notin Report
    /\ \A n, k \in Name : dir["reports"][n] = dir["reports"][k] /\ dir["reports"][n] # 0 => n = k

\* What the uploader has written so far is in its file, which keeps its name.
UploadInv ==
    user.ino # 0 =>
        /\ dir["reports"][user.name] = user.ino
        /\ filed[user.name] = 0
        /\ uploads # 0
        /\ data[user.ino] = [k \in 1 .. user.pos |-> uploads]

-----------------------------------------------------------------------------
(* What the operators return.                                              *)

\* A block is written without a file growing beyond a report.
LEMMA PutText ==
    ASSUME NEW s \in Text, NEW k \in 1 .. Blocks, NEW b \in Block
    PROVE  Put(s, k, b) \in Text
  <1> DEFINE n == IF k > Len(s) THEN k ELSE Len(s)
  <1>1. s \in Seq(Block) /\ Len(s) \in Nat /\ Len(s) <= Blocks /\ \A i \in 1 .. Len(s) : s[i] \in Block
    BY DEF Text
  <1>2. n \in Nat /\ n <= Blocks /\ 0 \in Block
    BY <1>1 DEF Block
  <1>3. Put(s, k, b) = [i \in 1 .. n |-> IF i = k THEN b ELSE IF i <= Len(s) THEN s[i] ELSE 0]
    BY DEF Put
  <1> HIDE DEF n
  <1>4. \A i \in 1 .. n : (IF i = k THEN b ELSE IF i <= Len(s) THEN s[i] ELSE 0) \in Block
    BY <1>1, <1>2
  <1>5. Put(s, k, b) \in Seq(Block) /\ Len(Put(s, k, b)) = n
    BY <1>2, <1>3, <1>4
  <1> QED
    BY <1>2, <1>5 DEF Text

\* A file is cut to nothing in its place or made where no file is open.
LEMMA TruncatedFile ==
    ASSUME dir \in [Dir -> [Name -> 0 .. MaxInode]], NEW d \in Dir, NEW n \in Name, NEW i \in Inode,
           Truncated(d, n, i)
    PROVE  /\ dir' \in [Dir -> [Name -> 0 .. MaxInode]]
           /\ dir'[d][n] = i
           /\ \A e \in Dir, k \in Name : e # d \/ k # n => dir'[e][k] = dir[e][k]
           /\ dir[d][n] = i \/ (dir[d][n] = 0 /\ i \notin Linked \cup Open)
  <1>1. dir' = [dir EXCEPT ![d][n] = i] /\ i \in 0 .. MaxInode
    BY DEF Truncated, Inode
  <1>2. Free # {} => NewFile \in Free
    BY DEF NewFile
  <1>3. dir[d][n] = i \/ (dir[d][n] = 0 /\ i \notin Linked \cup Open)
    BY <1>2 DEF Truncated, Free
  <1> QED
    BY <1>1, <1>3

\* What is written is in the file as long as the file is there.
LEMMA StoreText ==
    ASSUME NEW d, Store(d)
    PROVE  /\ d \in [Inode -> Text] => data' \in [Inode -> Text]
           /\ \A i \in Inode : i \in Linked' \cup Open' => data'[i] = d[i]
  <1>1. <<>> \in Text
    BY DEF Text
  <1> QED
    BY <1>1 DEF Store

\* What a job consists of has its type.
LEMMA JobTypes ==
    ASSUME TypeInv, NEW m \in Movers
    PROVE  /\ Idle \in Job /\ Closed \in FileState
           /\ \A o \in Order(m) : o \in [move : BOOLEAN, from : Dir, to : Dir]
           /\ LockWalks(m) \in Seq(Walking) /\ UnlockWalks(m) \in Seq(Walking)
  <1>1. Closed \in FileState
    BY DEF Closed, FileState
  <1>2. (CHOOSE n \in Name : TRUE) \in Name
    OBVIOUS
  <1>3. Copy("reports", "archive") \in [move : BOOLEAN, from : Dir, to : Dir] /\ <<>> \in Seq(Walking)
    BY DEF Copy, Dir
  <1>4. Idle \in Job
    BY <1>1, <1>2, <1>3 DEF Idle, Job, JobPc
  <1>5. \A o \in Order(m) : o \in [move : BOOLEAN, from : Dir, to : Dir]
    <2>1. \A from, to \in Dir : /\ Copy(from, to) \in [move : BOOLEAN, from : Dir, to : Dir]
                                /\ Move(from, to) \in [move : BOOLEAN, from : Dir, to : Dir]
      BY DEF Copy, Move
    <2>2. m \in {"backup", "transfer", "client", "manual"} /\ {"reports", "dashboard", "archive"} \subseteq Dir
      BY DEF Mover, Handler, Dir
    <2>3. CASE m = "backup"
      BY <2>1, <2>2, <2>3 DEF Order
    <2>4. CASE m = "transfer"
      BY <2>1, <2>2, <2>4 DEF Order
    <2>5. CASE m = "client"
      BY <2>1, <2>2, <2>5 DEF Order
    <2>6. CASE m = "manual"
      BY <2>1, <2>2, <2>6 DEF Order
    <2> QED
      BY <2>2, <2>3, <2>4, <2>5, <2>6
  <1>6. LockWalks(m) \in Seq(Walking) /\ UnlockWalks(m) \in Seq(Walking)
    <2>1. /\ <<"dashboard", "locked">> \in Walking /\ <<"reports", "locked">> \in Walking
          /\ <<"dashboard", "unlocked">> \in Walking /\ <<"reports", "unlocked">> \in Walking
      BY DEF Walking, Dir
    <2> HIDE DEF Walking
    <2>2. \A v, w \in Walking : <<v, w>> \in Seq(Walking) /\ <<v>> \in Seq(Walking)
      OBVIOUS
    <2> QED
      BY <2>1, <2>2 DEF LockWalks, UnlockWalks
  <1> QED
    BY <1>1, <1>4, <1>5, <1>6

-----------------------------------------------------------------------------
(* Each action keeps the types.                                            *)

\* A mover goes on, to a state of its own that has its type.
LEMMA BecomeType ==
    ASSUME TypeInv, NEW m \in Movers, NEW j \in Job, Become(m, j),
           j.pc # "idle" => j.order \in Order(m),
           j.pc \in {"create", "copy", "hash", "flush"} => j.file.in # 0,
           j.pc = "remove" => j.order.move,
           dir' \in [Dir -> [Name -> 0 .. MaxInode]],
           data' \in [Inode -> Text],
           mode' \in [Dir -> {"made", "locked", "unlocked"}],
           events' \in 0 .. MaxEvents,
           UNCHANGED <<user, uploads, filed>>
    PROVE  TypeInv'
  <1>1. job' = [job EXCEPT ![m] = j] /\ job \in [Movers -> Job]
    BY DEF Become, TypeInv
  <1>2. job' \in [Movers -> Job] /\ job'[m] = j /\ \A k \in Movers \ {m} : job'[k] = job[k]
    BY <1>1
  <1> QED
    BY <1>2 DEF TypeInv, Running

\* The fields of a mover's state, before and after.
LEMMA JobFields ==
    ASSUME NEW j \in Job
    PROVE  /\ j.pc \in JobPc /\ j.order \in [move : BOOLEAN, from : Dir, to : Dir]
           /\ j.walks \in Seq(Walking) /\ j.left \subseteq Name /\ j.name \in Name
           /\ j.file \in FileState
           /\ j.file.in \in 0 .. MaxInode /\ j.file.out \in 0 .. MaxInode
           /\ j.file.pos \in 0 .. Blocks
           /\ \A pc \in JobPc : /\ [j EXCEPT !.pc = pc] \in Job
                                /\ [j EXCEPT !.pc = pc, !.file = Closed] \in Job
  <1>1. Closed \in FileState
    BY DEF Closed, FileState
  <1>2. j.file \in FileState
    BY DEF Job
  <1>3. /\ j.file.in \in 0 .. MaxInode /\ j.file.out \in 0 .. MaxInode
        /\ j.file.pos \in 0 .. Blocks
    BY <1>2 DEF FileState
  <1> HIDE DEF FileState
  <1> QED
    BY <1>1, <1>2, <1>3 DEF Job

\* The files of a mover, before and after.
LEMMA FileFields ==
    ASSUME NEW f \in FileState
    PROVE  /\ \A i \in 0 .. MaxInode : /\ [f EXCEPT !.in = i] \in FileState
                                       /\ [f EXCEPT !.out = i] \in FileState
           /\ \A p \in 0 .. Blocks, b \in Block : [f EXCEPT !.pos = p, !.buf = <<b>>] \in FileState
  <1> DEFINE Buffer == {<<>>} \cup {<<b>> : b \in Block}
  <1>1. FileState = [in : 0 .. MaxInode, out : 0 .. MaxInode, pos : 0 .. Blocks,
                     buf : Buffer, match : BOOLEAN]
    BY DEF FileState
  <1>2. \A b \in Block : <<b>> \in Buffer
    OBVIOUS
  <1> HIDE DEF Buffer
  <1> QED
    BY <1>1, <1>2

LEMMA UploadType ==
    ASSUME TypeInv, Upload \/ \E n \in Name : BeginUpload(n)
    PROVE  TypeInv'
  <1>0. /\ dir \in [Dir -> [Name -> 0 .. MaxInode]] /\ data \in [Inode -> Text]
        /\ user \in [name : Name, ino : 0 .. MaxInode, pos : 0 .. Blocks]
        /\ uploads \in 0 .. MaxUploads /\ filed \in [Name -> Block] /\ "reports" \in Dir
    BY DEF TypeInv, Dir
  <1>1. ASSUME UNCHANGED <<job, mode, events>>, dir' \in [Dir -> [Name -> 0 .. MaxInode]],
               data' \in [Inode -> Text], user' \in [name : Name, ino : 0 .. MaxInode, pos : 0 .. Blocks],
               uploads' \in 0 .. MaxUploads, filed' \in [Name -> Block]
        PROVE  TypeInv'
    BY <1>1 DEF TypeInv, Running
  <1>2. ASSUME NEW n \in Name, BeginUpload(n) PROVE TypeInv'
    <2> PICK i \in Inode : /\ Truncated("reports", n, i)
                           /\ user' = [name |-> n, ino |-> i, pos |-> 0]
                           /\ Store([data EXCEPT ![i] = <<>>])
      BY <1>2 DEF BeginUpload
    <2>1. dir' \in [Dir -> [Name -> 0 .. MaxInode]]
      BY <1>0, TruncatedFile
    <2>2. data' \in [Inode -> Text]
      <3>1. [data EXCEPT ![i] = <<>>] \in [Inode -> Text]
        BY <1>0 DEF Text
      <3> QED
        BY <3>1, StoreText
    <2>3. user' \in [name : Name, ino : 0 .. MaxInode, pos : 0 .. Blocks]
      BY DEF Inode
    <2>4. uploads' \in 0 .. MaxUploads /\ filed' \in [Name -> Block]
      BY <1>0, <1>2 DEF BeginUpload, Block
    <2> QED
      BY <1>1, <1>2, <2>1, <2>2, <2>3, <2>4 DEF BeginUpload
  <1>3. CASE UploadBlock
    <2>1. user.pos + 1 \in 1 .. Blocks /\ user.ino \in Inode /\ uploads \in Block
      BY <1>0, <1>3 DEF UploadBlock, Inode, Block
    <2>2. Put(data[user.ino], user.pos + 1, uploads) \in Text
      BY <1>0, <2>1, PutText
    <2>3. [data EXCEPT ![user.ino] = Put(@, user.pos + 1, uploads)] \in [Inode -> Text]
      BY <1>0, <2>2
    <2>4. data' \in [Inode -> Text]
      BY <1>3, <2>3, StoreText DEF UploadBlock
    <2>5. user' \in [name : Name, ino : 0 .. MaxInode, pos : 0 .. Blocks]
      BY <1>0, <1>3, <2>1 DEF UploadBlock
    <2> QED
      BY <1>0, <1>1, <1>3, <2>4, <2>5 DEF UploadBlock
  <1>4. CASE EndUpload
    <2>1. data' \in [Inode -> Text]
      BY <1>0, <1>4, StoreText DEF EndUpload
    <2>2. NoUser \in [name : Name, ino : 0 .. MaxInode, pos : 0 .. Blocks]
      <3>1. (CHOOSE n \in Name : TRUE) \in Name
        OBVIOUS
      <3> QED
        BY <3>1 DEF NoUser
    <2>3. filed' \in [Name -> Block]
      BY <1>0, <1>4 DEF EndUpload, Block
    <2> QED
      BY <1>0, <1>1, <1>4, <2>1, <2>2, <2>3 DEF EndUpload
  <1> QED
    BY <1>2, <1>3, <1>4 DEF Upload

\* Starting, locking and unlocking.
LEMMA HandlerType ==
    ASSUME TypeInv, NEW m \in Movers, Fire(m) \/ Command(m) \/ Lock(m) \/ CloseDir(m) \/ Unlock(m) \/ CrashMover(m),
           WalkInv
    PROVE  TypeInv'
  <1>0. /\ job[m] \in Job /\ dir \in [Dir -> [Name -> 0 .. MaxInode]] /\ data \in [Inode -> Text]
        /\ mode \in [Dir -> {"made", "locked", "unlocked"}] /\ events \in 0 .. MaxEvents
        /\ job[m].pc # "idle" => job[m].order \in Order(m)
        /\ Idle \in Job /\ Idle.pc = "idle"
    BY JobTypes DEF TypeInv, Running, Idle
  <1>1. ASSUME NEW o \in Order(m), Started(m, o), UNCHANGED <<dir, data, mode, user, uploads, filed>>,
               events' \in 0 .. MaxEvents
        PROVE  TypeInv'
    <2> DEFINE j == [Idle EXCEPT !.pc = IF LockWalks(m) = <<>> THEN "next" ELSE "lock",
                           !.order = o, !.walks = LockWalks(m), !.left = Name]
    <2>1. o \in [move : BOOLEAN, from : Dir, to : Dir] /\ LockWalks(m) \in Seq(Walking)
      BY JobTypes
    <2>2. j \in Job /\ j.pc \in {"next", "lock"} /\ j.order = o
      BY <1>0, <2>1 DEF Job, JobPc
    <2>3. Become(m, j)
      BY <1>1 DEF Started
    <2> HIDE DEF j
    <2> QED
      BY <1>0, <1>1, <2>2, <2>3, BecomeType
  <1>2. CASE Fire(m)
    BY <1>0, <1>1, <1>2 DEF Fire
  <1>3. CASE Command(m)
    <2>1. events' \in 0 .. MaxEvents
      BY <1>0, <1>3 DEF Command
    <2> QED
      BY <1>1, <1>3, <2>1 DEF Command
  <1>4. ASSUME Walk(m), job[m].pc \in {"lock", "unlock"}
        PROVE  mode' \in [Dir -> {"made", "locked", "unlocked"}]
               /\ job[m].walks # <<>> /\ Tail(job[m].walks) \in Seq(Walking)
    <2>1. job[m].walks \in Seq(Walking) /\ job[m].walks # <<>>
      <3>1. job[m].walks \in LockRest(m) \cup UnlockRest(m)
        BY <1>4 DEF WalkInv
      <3>2. <<>> \notin LockRest(m) \cup UnlockRest(m)
        BY DEF LockRest, UnlockRest, LockWalks, UnlockWalks, Mover, Handler
      <3> QED
        BY <1>0, <3>1, <3>2, JobFields
    <2>2. Head(job[m].walks) \in Walking /\ Tail(job[m].walks) \in Seq(Walking)
      BY <2>1
    <2>3. Head(job[m].walks)[1] \in Dir /\ Head(job[m].walks)[2] \in {"locked", "unlocked"}
      BY <2>2 DEF Walking
    <2> QED
      BY <1>0, <1>4, <2>1, <2>2, <2>3 DEF Walk
  <1>5. CASE Lock(m)
    <2> DEFINE j == [job[m] EXCEPT !.walks = Tail(@), !.pc = IF Tail(job[m].walks) = <<>> THEN "next" ELSE @]
    <2>1. job[m].pc = "lock" /\ Walk(m) /\ Become(m, j)
      BY <1>5 DEF Lock, Holding
    <2>2. Tail(job[m].walks) \in Seq(Walking) /\ mode' \in [Dir -> {"made", "locked", "unlocked"}]
      BY <1>4, <2>1
    <2>3. j \in Job /\ j.order = job[m].order /\ j.pc \in {"next", "lock"}
      BY <1>0, <2>1, <2>2 DEF Job, JobPc
    <2> HIDE DEF j
    <2> QED
      BY <1>0, <1>5, <2>1, <2>2, <2>3, BecomeType DEF Lock
  <1>6. CASE CloseDir(m)
    <2>1. CASE Become(m, Idle)
      BY <1>0, <1>6, <2>1, BecomeType DEF CloseDir
    <2>2. CASE Become(m, [job[m] EXCEPT !.pc = "unlock", !.walks = UnlockWalks(m)])
      <3> DEFINE j == [job[m] EXCEPT !.pc = "unlock", !.walks = UnlockWalks(m)]
      <3>1. j \in Job /\ j.order = job[m].order /\ j.pc = "unlock" /\ job[m].pc = "next"
        BY <1>0, <1>6, JobTypes DEF Job, JobPc, CloseDir, Holding
      <3>2. Become(m, j)
        BY <2>2
      <3> HIDE DEF j
      <3> QED
        BY <1>0, <1>6, <3>1, <3>2, BecomeType DEF CloseDir
    <2> QED
      BY <1>6, <2>1, <2>2 DEF CloseDir, Return
  <1>7. CASE Unlock(m)
    <2>1. job[m].pc = "unlock" /\ Walk(m)
      BY <1>7 DEF Unlock, Holding
    <2>2. Tail(job[m].walks) \in Seq(Walking) /\ mode' \in [Dir -> {"made", "locked", "unlocked"}]
      BY <1>4, <2>1
    <2>3. CASE Become(m, Idle)
      BY <1>0, <1>7, <2>2, <2>3, BecomeType DEF Unlock
    <2>4. CASE Become(m, [job[m] EXCEPT !.walks = Tail(@)])
      <3> DEFINE j == [job[m] EXCEPT !.walks = Tail(@)]
      <3>1. j \in Job /\ j.order = job[m].order /\ j.pc = "unlock"
        BY <1>0, <2>1, <2>2 DEF Job
      <3>2. Become(m, j)
        BY <2>4
      <3> HIDE DEF j
      <3> QED
        BY <1>0, <1>7, <2>1, <2>2, <3>1, <3>2, BecomeType DEF Unlock
    <2> QED
      BY <1>7, <2>3, <2>4 DEF Unlock, Return
  <1>8. CASE CrashMover(m)
    <2>1. data' \in [Inode -> Text] /\ events' \in 0 .. MaxEvents
      BY <1>0, <1>8, StoreText DEF CrashMover
    <2> QED
      BY <1>0, <1>8, <2>1, BecomeType DEF CrashMover
  <1> QED
    BY <1>2, <1>3, <1>5, <1>6, <1>7, <1>8

\* A block in the buffer is written where it belongs, in a file that is open.
LEMMA FlushedText ==
    ASSUME TypeInv, NEW f \in FileState
    PROVE  Flushed(f) \in [Inode -> Text]
  <1>0. data \in [Inode -> Text]
    BY DEF TypeInv
  <1>1. CASE f.buf = <<>> \/ f.out \notin Inode \/ f.pos = 0
    <2>1. CASE f.buf = <<>> \/ f.out \notin Inode
      BY <1>0, <2>1 DEF Flushed
    <2>2. CASE f.buf # <<>> /\ f.pos = 0 /\ f.out \in Inode
      <3>1. f.buf[1] \in Block
        BY <2>2 DEF FileState
      <3>2. data[f.out] \in Text /\ Len(data[f.out]) \in Nat
        BY <1>0, <2>2 DEF Text
      <3>3. Put(data[f.out], 0, f.buf[1]) \in Text
        <4>1. data[f.out] \in Seq(Block) /\ Len(data[f.out]) <= Blocks
          BY <3>2 DEF Text
        <4>2. Put(data[f.out], 0, f.buf[1]) = [i \in 1 .. Len(data[f.out]) |-> data[f.out][i]]
          BY <3>2 DEF Put
        <4> QED
          BY <4>1, <4>2 DEF Text
      <3> QED
        BY <1>0, <2>2, <3>3 DEF Flushed
    <2> QED
      BY <1>1, <2>1, <2>2
  <1>2. CASE f.buf # <<>> /\ f.out \in Inode /\ f.pos # 0
    <2>1. f.buf[1] \in Block /\ f.pos \in 1 .. Blocks
      BY <1>2 DEF FileState
    <2>2. Put(data[f.out], f.pos, f.buf[1]) \in Text
      BY <1>0, <1>2, <2>1, PutText
    <2> QED
      BY <1>0, <1>2, <2>2 DEF Flushed
  <1> QED
    BY <1>1, <1>2

LEMMA CopyType ==
    ASSUME TypeInv, NEW m \in Movers,
           OpenSource(m) \/ CreateDest(m) \/ CopyBlock(m) \/ EndOfSource(m) \/ HashSource(m)
           \/ CloseFiles(m) \/ RemoveSource(m)
    PROVE  TypeInv'
  <1>0. /\ job[m] \in Job /\ dir \in [Dir -> [Name -> 0 .. MaxInode]] /\ data \in [Inode -> Text]
        /\ mode \in [Dir -> {"made", "locked", "unlocked"}] /\ events \in 0 .. MaxEvents
        /\ job[m].pc # "idle" => job[m].order \in Order(m)
        /\ job[m].pc \in {"create", "copy", "hash", "flush"} => job[m].file.in # 0
        /\ job[m].file \in FileState /\ job[m].order.from \in Dir /\ job[m].order.to \in Dir
        /\ job[m].name \in Name
        /\ job[m].file.in \in 0 .. MaxInode /\ job[m].file.out \in 0 .. MaxInode
        /\ job[m].file.pos \in 0 .. Blocks
    BY JobFields DEF TypeInv, Running
  <1>1. ASSUME NEW j \in Job, Become(m, j), j.order = job[m].order, job[m].pc # "idle",
               j.pc \in {"create", "copy", "hash", "flush"} => j.file.in # 0,
               j.pc = "remove" => j.order.move,
               dir' \in [Dir -> [Name -> 0 .. MaxInode]], data' \in [Inode -> Text],
               UNCHANGED <<mode, events, user, uploads, filed>>
        PROVE  TypeInv'
    BY <1>0, <1>1, BecomeType
  <1>2. CASE OpenSource(m)
    <2> PICK n \in job[m].left :
          Become(m, IF dir[job[m].order.from][n] = 0 THEN [job[m] EXCEPT !.left = @ \ {n}]
                    ELSE [[job[m] EXCEPT !.left = @ \ {n}] EXCEPT !.pc = "create", !.name = n,
                                            !.file.in = dir[job[m].order.from][n]])
      BY <1>2 DEF OpenSource
    <2>0. n \in Name
      BY <1>0, JobFields
    <2>1. n \in Name /\ dir[job[m].order.from][n] \in 0 .. MaxInode /\ job[m].pc = "next"
      BY <1>0, <1>2, <2>0 DEF OpenSource, Holding
    <2>2. CASE dir[job[m].order.from][n] = 0
      <3> DEFINE j == [job[m] EXCEPT !.left = @ \ {n}]
      <3>1. j \in Job /\ j.pc = "next" /\ j.order = job[m].order
        BY <1>0, <2>1 DEF Job
      <3>2. Become(m, j)
        BY <2>2
      <3> HIDE DEF j
      <3> QED
        BY <1>0, <1>1, <1>2, <2>1, <3>1, <3>2 DEF OpenSource
    <2>3. CASE dir[job[m].order.from][n] # 0
      <3> DEFINE i == dir[job[m].order.from][n]
                 j == [[job[m] EXCEPT !.left = @ \ {n}] EXCEPT !.pc = "create", !.name = n, !.file.in = i]
      <3>1. [job[m].file EXCEPT !.in = i] \in FileState
        BY <1>0, <2>1 DEF FileState
      <3>2. j \in Job /\ j.pc = "create" /\ j.order = job[m].order /\ j.file.in = i
        BY <1>0, <2>1, <3>1 DEF Job, JobPc, FileState
      <3>3. Become(m, j)
        BY <2>3
      <3> HIDE DEF j
      <3> QED
        BY <1>0, <1>1, <1>2, <2>1, <2>3, <3>2, <3>3 DEF OpenSource
    <2> QED
      BY <2>2, <2>3
  <1>3. CASE CreateDest(m)
    <2> PICK i \in Inode : /\ Truncated(job[m].order.to, job[m].name, i)
                           /\ Become(m, [job[m] EXCEPT !.pc = "copy", !.file.out = i])
                           /\ Store([data EXCEPT ![i] = <<>>])
      BY <1>3 DEF CreateDest
    <2> DEFINE j == [job[m] EXCEPT !.pc = "copy", !.file.out = i]
    <2>1. job[m].pc = "create"
      BY <1>3 DEF CreateDest, Holding
    <2>2. [job[m].file EXCEPT !.out = i] \in FileState /\ [job[m].file EXCEPT !.out = i].in = job[m].file.in
      <3>0. i \in 0 .. MaxInode
        BY DEF Inode
      <3>1. [job[m].file EXCEPT !.out = i] \in FileState
        BY <1>0, <3>0, FileFields
      <3> QED
        BY <1>0, <3>1 DEF FileState
    <2>3. j \in Job /\ j.pc = "copy" /\ j.order = job[m].order /\ j.file.in = job[m].file.in
      BY <1>0, <2>2 DEF Job, JobPc
    <2>4. [data EXCEPT ![i] = <<>>] \in [Inode -> Text]
      BY <1>0 DEF Text
    <2>5. data' \in [Inode -> Text] /\ dir' \in [Dir -> [Name -> 0 .. MaxInode]]
      BY <1>0, <2>4, StoreText, TruncatedFile
    <2>6. Become(m, j)
      OBVIOUS
    <2> HIDE DEF j
    <2> QED
      BY <1>0, <1>1, <1>3, <2>1, <2>3, <2>5, <2>6 DEF CreateDest
  <1>4. CASE CopyBlock(m)
    <2> DEFINE f == job[m].file
               j == [job[m] EXCEPT !.file.pos = @ + 1, !.file.buf = <<data[f.in][f.pos + 1]>>]
    <2>1. job[m].pc = "copy" /\ f.pos < Len(data[f.in]) /\ f.in \in Inode
      BY <1>0, <1>4 DEF CopyBlock, Holding, Inode
    <2>2. data[f.in] \in Seq(Block) /\ Len(data[f.in]) <= Blocks
      BY <1>0, <2>1 DEF Text
    <2> DEFINE b == data[f.in][f.pos + 1]
    <2>3. f.pos + 1 \in 0 .. Blocks /\ b \in Block
      <3>1. f.pos \in Nat /\ Len(data[f.in]) \in Nat
        BY <1>0, <2>2
      <3>2. f.pos + 1 \in 1 .. Len(data[f.in]) /\ f.pos + 1 <= Blocks
        BY <2>1, <2>2, <3>1
      <3> QED
        BY <2>2, <3>1, <3>2
    <2> HIDE DEF b
    <2>4. [f EXCEPT !.pos = f.pos + 1, !.buf = <<b>>] \in FileState
          /\ [f EXCEPT !.pos = f.pos + 1, !.buf = <<b>>].in = f.in
      <3>1. [f EXCEPT !.pos = f.pos + 1, !.buf = <<b>>] \in FileState
        BY <1>0, <2>3, FileFields
      <3> QED
        BY <1>0, <3>1 DEF FileState
    <2>5. j \in Job /\ j.pc = "copy" /\ j.order = job[m].order /\ j.file.in = f.in
      BY <1>0, <2>1, <2>4 DEF Job, b
    <2>6. data' \in [Inode -> Text]
      BY <1>0, <1>4, StoreText, FlushedText DEF CopyBlock
    <2>7. Become(m, j)
      BY <1>4 DEF CopyBlock
    <2> HIDE DEF j
    <2> QED
      BY <1>0, <1>1, <1>4, <2>1, <2>5, <2>6, <2>7 DEF CopyBlock, Inode
  <1>5. CASE EndOfSource(m)
    <2>1. [job[m] EXCEPT !.pc = "hash"] \in Job
      BY <1>0 DEF Job, JobPc
    <2> QED
      BY <1>0, <1>1, <1>5, <2>1 DEF EndOfSource, Goto, Holding, Job
  <1>6. CASE HashSource(m)
    <2> DEFINE j == [job[m] EXCEPT !.pc = "flush", !.file.match = SameHash(job[m].file)]
    <2>1. SameHash(job[m].file) \in BOOLEAN
      BY DEF SameHash
    <2>2. [job[m].file EXCEPT !.match = SameHash(job[m].file)] \in FileState
          /\ [job[m].file EXCEPT !.match = SameHash(job[m].file)].in = job[m].file.in
      BY <1>0, <2>1 DEF FileState
    <2>3. j \in Job /\ j.pc = "flush" /\ j.order = job[m].order /\ j.file.in = job[m].file.in
      BY <1>0, <2>2 DEF Job, JobPc
    <2>4. Become(m, j) /\ job[m].pc = "hash"
      BY <1>6 DEF HashSource, Holding
    <2> HIDE DEF j
    <2> QED
      BY <1>0, <1>1, <1>6, <2>3, <2>4 DEF HashSource
  <1>7. ASSUME NEW pc \in {"next", "remove"}, pc = "remove" => job[m].order.move, job[m].pc # "idle",
               Become(m, [job[m] EXCEPT !.pc = pc, !.file = Closed]),
               dir' \in [Dir -> [Name -> 0 .. MaxInode]], data' \in [Inode -> Text],
               UNCHANGED <<mode, events, user, uploads, filed>>
        PROVE  TypeInv'
    <2> DEFINE j == [job[m] EXCEPT !.pc = pc, !.file = Closed]
    <2>1. j \in Job /\ j.pc = pc /\ j.order = job[m].order
      BY <1>0, JobTypes DEF Job, JobPc
    <2>2. Become(m, j)
      BY <1>7
    <2> HIDE DEF j
    <2> QED
      BY <1>1, <1>7, <2>1, <2>2
  <1>8. CASE CloseFiles(m)
    <2>1. data' \in [Inode -> Text] /\ UNCHANGED dir /\ job[m].pc = "flush"
      BY <1>0, <1>8, StoreText, FlushedText DEF CloseFiles, Holding
    <2>2. \E pc \in {"next", "remove"} : /\ Become(m, [job[m] EXCEPT !.pc = pc, !.file = Closed])
                                         /\ pc = "remove" => job[m].order.move
      BY <1>8 DEF CloseFiles, NextFile
    <2> QED
      BY <1>0, <1>7, <1>8, <2>1, <2>2 DEF CloseFiles
  <1>9. CASE RemoveSource(m)
    <2>1. data' \in [Inode -> Text] /\ job[m].pc = "remove"
      BY <1>0, <1>9, StoreText DEF RemoveSource, Holding
    <2>2. dir' \in [Dir -> [Name -> 0 .. MaxInode]]
      BY <1>0, <1>9 DEF RemoveSource
    <2> QED
      BY <1>0, <1>7, <1>9, <2>1, <2>2 DEF RemoveSource, NextFile
  <1> QED
    BY <1>2, <1>3, <1>4, <1>5, <1>6, <1>8, <1>9

LEMMA CrashFmType == TypeInv /\ CrashFm => TypeInv'
  <1> SUFFICES ASSUME TypeInv, CrashFm PROVE TypeInv'
    OBVIOUS
  <1>0. \A m \in Movers : Idle \in Job /\ job[m] \in Job
    BY JobTypes DEF TypeInv
  <1>1. job' = [m \in Movers |-> IF m \in Handler THEN Idle ELSE job[m]]
    BY DEF CrashFm
  <1>2. job' \in [Movers -> Job] /\ \A m \in Movers : job'[m] \in {job[m], Idle}
    BY <1>0, <1>1
  <1>3. data' \in [Inode -> Text]
    BY StoreText DEF CrashFm, TypeInv
  <1>4. events' \in 0 .. MaxEvents
    BY DEF CrashFm, TypeInv
  <1>5. Idle.pc = "idle"
    BY DEF Idle
  <1> QED
    BY <1>2, <1>3, <1>4, <1>5 DEF TypeInv, CrashFm, Running

-----------------------------------------------------------------------------
(* The handlers on the stack, and what they have locked.                   *)

LEMMA ShortStacks ==
    ASSUME NEW S, NEW a \in S, NEW b \in S
    PROVE  /\ Append(<<>>, a) = <<a>> /\ Append(<<a>>, b) = <<a, b>>
           /\ SubSeq(<<a>>, 1, 0) = <<>> /\ SubSeq(<<a, b>>, 1, 1) = <<a>>
  <1>1. Append(<<>>, a) = <<a>> /\ SubSeq(<<a>>, 1, 0) = <<>>
    OBVIOUS
  <1>2. Append(<<a>>, b) = <<a, b>>
    <2>1. <<a, b>> \in Seq(S) /\ Append(<<a>>, b) \in Seq(S)
      OBVIOUS
    <2>2. Len(Append(<<a>>, b)) = 2 /\ Len(<<a, b>>) = 2
      OBVIOUS
    <2>3. \A i \in 1 .. 2 : Append(<<a>>, b)[i] = <<a, b>>[i]
      OBVIOUS
    <2> QED
      BY <2>1, <2>2, <2>3, SeqEqual
  <1>3. SubSeq(<<a, b>>, 1, 1) = <<a>>
    <2>1. <<a>> \in Seq(S) /\ SubSeq(<<a, b>>, 1, 1) \in Seq(S)
      OBVIOUS
    <2>2. Len(SubSeq(<<a, b>>, 1, 1)) = 1 /\ Len(<<a>>) = 1
      OBVIOUS
    <2>3. \A i \in 1 .. 1 : SubSeq(<<a, b>>, 1, 1)[i] = <<a>>[i]
      OBVIOUS
    <2> QED
      BY <2>1, <2>2, <2>3, SeqEqual
  <1> QED
    BY <1>1, <1>2, <1>3

\* A handler begins only if it does not run; so at most the other one does.
LEMMA PushStack ==
    ASSUME StackInv, NEW h \in Movers \cap Handler, ~Running(h), stack' = Append(stack, h),
           Running(h)', \A k \in (Movers \cap Handler) \ {h} : Running(k)' <=> Running(k)
    PROVE  StackInv'
  <1> DEFINE S == Movers \cap Handler
  <1>0. \A k \in 1 .. Len(stack) : stack[k] # h
    BY DEF StackInv
  <1>1. CASE stack = <<>>
    <2>1. stack' = <<h>>
      BY <1>1, ShortStacks
    <2> QED
      BY <1>1, <2>1 DEF StackInv, Stacks
  <1>2. ASSUME NEW a \in S, stack = <<a>> PROVE StackInv'
    <2>1. stack' = <<a, h>> /\ a # h
      BY <1>0, <1>2, ShortStacks
    <2>2. \A k \in S : Running(k)' <=> k \in {a, h}
      BY <1>2, <2>1 DEF StackInv
    <2>3. stack' \in Stacks
      <3>1. <<a, h>> \in {<<i, k>> : i \in S, k \in S}
        OBVIOUS
      <3> QED
        BY <2>1, <3>1 DEF Stacks
    <2>4. 1 .. Len(stack') = {1, 2} /\ stack'[1] = a /\ stack'[2] = h
      BY <2>1
    <2> QED
      BY <2>1, <2>2, <2>3, <2>4 DEF StackInv
  <1>3. ASSUME NEW a \in S, NEW b \in S, stack = <<a, b>> PROVE FALSE
    <2>1. a # b /\ a # h /\ b # h
      BY <1>0, <1>3 DEF StackInv
    <2> QED
      BY <2>1 DEF Handler
  <1> QED
    BY <1>1, <1>2, <1>3 DEF StackInv, Stacks

\* The innermost handler returns to the other one, or to the loop.
LEMMA PopStack ==
    ASSUME StackInv, NEW h \in Movers \cap Handler, Running(h), stack[Len(stack)] = h,
           stack' = SubSeq(stack, 1, Len(stack) - 1),
           ~Running(h)', \A k \in (Movers \cap Handler) \ {h} : Running(k)' <=> Running(k)
    PROVE  StackInv'
  <1> DEFINE S == Movers \cap Handler
  <1>1. stack # <<>>
    BY DEF StackInv
  <1>2. ASSUME NEW a \in S, stack = <<a>> PROVE StackInv'
    <2>1. stack' = <<>> /\ a = h
      BY <1>2, ShortStacks
    <2>2. \A k \in S : ~Running(k)'
      BY <1>2, <2>1 DEF StackInv
    <2> QED
      BY <2>1, <2>2 DEF StackInv, Stacks
  <1>3. ASSUME NEW a \in S, NEW b \in S, stack = <<a, b>> PROVE StackInv'
    <2>1. stack' = <<a>> /\ b = h /\ a # b
      BY <1>3, ShortStacks DEF StackInv
    <2>2. \A k \in S : Running(k)' <=> k = a
      BY <1>3, <2>1 DEF StackInv
    <2>3. stack' \in Stacks
      <3>1. <<a>> \in {<<i>> : i \in S}
        OBVIOUS
      <3>2. {<<i>> : i \in S} \subseteq Stacks
        BY DEF Stacks
      <3> QED
        BY <2>1, <3>1, <3>2
    <2>4. 1 .. Len(stack') = {1} /\ stack'[1] = a
      <3>1. Len(<<a>>) = 1 /\ <<a>>[1] = a /\ 1 .. 1 = {1}
        OBVIOUS
      <3> QED
        BY <2>1, <3>1
    <2> QED
      BY <2>2, <2>3, <2>4 DEF StackInv
  <1> QED
    BY <1>1, <1>2, <1>3 DEF StackInv, Stacks

\* The walks of a handler are done one after the other; the last of a backup's
\* locks the reports, and the transfer has nothing to do with those.
LEMMA Walks ==
    ASSUME NEW m \in Mover
    PROVE  /\ LockWalks(m) # <<>> => LockWalks(m) \in LockRest(m)
           /\ UnlockWalks(m) # <<>> => UnlockWalks(m) \in UnlockRest(m)
           /\ \A w \in LockRest(m) : Tail(w) # <<>> => Tail(w) \in LockRest(m)
           /\ \A w \in UnlockRest(m) : Tail(w) # <<>> => Tail(w) \in UnlockRest(m)
           /\ m = "backup" => \A w \in LockRest(m) : Tail(w) = <<>> => Head(w) = <<"reports", "locked">>
           /\ m # "backup" => \A w \in LockRest(m) \cup UnlockRest(m) : Head(w)[1] = "dashboard"
  <1> DEFINE D == <<"dashboard", "locked">>
             U == <<"dashboard", "unlocked">>
             L == <<"reports", "locked">>
             R == <<"reports", "unlocked">>
  <1>1. D[1] = "dashboard" /\ U[1] = "dashboard"
    OBVIOUS
  <1>2. CASE m = "backup"
    <2>1. /\ LockWalks(m) = <<D, L>> /\ UnlockWalks(m) = <<D, R>>
          /\ LockRest(m) = {<<D, L>>, <<L>>} /\ UnlockRest(m) = {<<D, R>>, <<R>>}
      BY <1>2 DEF LockWalks, UnlockWalks, LockRest, UnlockRest
    <2> HIDE DEF D, L, R
    <2>2. /\ Tail(<<D, L>>) = <<L>> /\ Tail(<<L>>) = <<>> /\ Head(<<L>>) = L
          /\ Tail(<<D, R>>) = <<R>> /\ Tail(<<R>>) = <<>> /\ <<L>> # <<>>
      OBVIOUS
    <2>3. L = <<"reports", "locked">>
      BY DEF L
    <2> QED
      BY <1>2, <2>1, <2>2, <2>3
  <1>3. CASE m = "transfer"
    <2>1. /\ LockWalks(m) = <<D>> /\ UnlockWalks(m) = <<U>>
          /\ LockRest(m) = {<<D>>} /\ UnlockRest(m) = {<<U>>}
      BY <1>3 DEF LockWalks, UnlockWalks, LockRest, UnlockRest
    <2> HIDE DEF D, U
    <2>2. /\ Tail(<<D>>) = <<>> /\ Tail(<<U>>) = <<>> /\ Head(<<D>>) = D /\ Head(<<U>>) = U
      OBVIOUS
    <2> QED
      BY <1>1, <1>3, <2>1, <2>2
  <1>4. CASE m \notin Handler
    BY <1>4 DEF LockWalks, UnlockWalks, LockRest, UnlockRest, Handler
  <1> QED
    BY <1>2, <1>3, <1>4 DEF Handler

Work == {"next", "create", "copy", "hash", "flush", "remove"}
CopyStep(m) ==
    \/ OpenSource(m) \/ CreateDest(m) \/ CopyBlock(m) \/ EndOfSource(m) \/ HashSource(m)
    \/ CloseFiles(m) \/ RemoveSource(m)

\* While a mover copies it changes nothing but files, and nothing of the others.
LEMMA CopyMoves ==
    ASSUME TypeInv, NEW m \in Movers, CopyStep(m)
    PROVE  /\ job[m].pc \in Work /\ job'[m].pc \in Work
           /\ \A k \in Movers \ {m} : job'[k] = job[k]
           /\ UNCHANGED <<mode, stack, user, uploads, filed>>
           /\ job'[m].file.out \in {job[m].file.out, 0} \/ CreateDest(m)
  <1>0. job[m] \in Job /\ job \in [Movers -> Job] /\ job[m].file \in FileState
    BY JobFields DEF TypeInv
  <1>1. ASSUME NEW j, Become(m, j) PROVE job'[m] = j /\ \A k \in Movers \ {m} : job'[k] = job[k]
    BY <1>0, <1>1 DEF Become
  <1> USE DEF Work, Holding
  <1>2. UNCHANGED <<mode, stack, user, uploads, filed>> /\ job[m].pc \in Work
    BY DEF CopyStep, OpenSource, CreateDest, CopyBlock, EndOfSource, HashSource, CloseFiles, RemoveSource
  <1>3. ASSUME NEW j, Become(m, j), j.pc \in Work,
               j.file.out \in {job[m].file.out, 0} \/ CreateDest(m)
        PROVE  /\ job'[m].pc \in Work
               /\ \A k \in Movers \ {m} : job'[k] = job[k]
               /\ job'[m].file.out \in {job[m].file.out, 0} \/ CreateDest(m)
    BY <1>1, <1>3
  <1>4. CASE OpenSource(m)
    <2> PICK n \in job[m].left :
          Become(m, IF dir[job[m].order.from][n] = 0 THEN [job[m] EXCEPT !.left = @ \ {n}]
                    ELSE [[job[m] EXCEPT !.left = @ \ {n}] EXCEPT !.pc = "create", !.name = n,
                                            !.file.in = dir[job[m].order.from][n]])
      BY <1>4 DEF OpenSource
    <2>1. CASE dir[job[m].order.from][n] = 0
      <3> DEFINE j == [job[m] EXCEPT !.left = @ \ {n}]
      <3>1. j.pc \in Work /\ j.file = job[m].file /\ Become(m, j)
        BY <1>0, <1>2, <2>1 DEF Job
      <3> HIDE DEF j
      <3> QED
        BY <1>2, <1>3, <3>1
    <2>2. CASE dir[job[m].order.from][n] # 0
      <3> DEFINE i == dir[job[m].order.from][n]
                 j == [[job[m] EXCEPT !.left = @ \ {n}] EXCEPT !.pc = "create", !.name = n, !.file.in = i]
      <3>1. j.pc = "create" /\ j.file = [job[m].file EXCEPT !.in = i]
        BY <1>0 DEF Job
      <3>2. j.file.out = job[m].file.out
        BY <1>0, <3>1 DEF FileState
      <3>3. Become(m, j)
        BY <2>2
      <3> HIDE DEF j
      <3> QED
        BY <1>2, <1>3, <3>1, <3>2, <3>3
    <2> QED
      BY <2>1, <2>2
  <1>5. CASE CreateDest(m)
    <2> PICK i \in Inode : Become(m, [job[m] EXCEPT !.pc = "copy", !.file.out = i])
      BY <1>5 DEF CreateDest
    <2>1. [job[m] EXCEPT !.pc = "copy", !.file.out = i].pc = "copy"
      BY <1>0 DEF Job
    <2> QED
      BY <1>2, <1>3, <1>5, <2>1
  <1>6. CASE CopyBlock(m)
    <2> DEFINE f == job[m].file
               b == data[f.in][f.pos + 1]
               j == [job[m] EXCEPT !.file.pos = @ + 1, !.file.buf = <<b>>]
    <2>1. j.pc = job[m].pc /\ j.file = [f EXCEPT !.pos = @ + 1, !.buf = <<b>>]
      BY <1>0 DEF Job
    <2>2. j.file.out = f.out
      BY <1>0, <2>1 DEF FileState
    <2>3. Become(m, j)
      BY <1>6 DEF CopyBlock
    <2> HIDE DEF j
    <2> QED
      BY <1>2, <1>3, <2>1, <2>2, <2>3
  <1>7. CASE EndOfSource(m)
    <2>1. [job[m] EXCEPT !.pc = "hash"].pc = "hash" /\ [job[m] EXCEPT !.pc = "hash"].file = job[m].file
      BY <1>0 DEF Job
    <2> QED
      BY <1>2, <1>3, <1>7, <2>1 DEF EndOfSource, Goto
  <1>8. CASE HashSource(m)
    <2> DEFINE j == [job[m] EXCEPT !.pc = "flush", !.file.match = SameHash(job[m].file)]
    <2>1. j.pc = "flush" /\ j.file = [job[m].file EXCEPT !.match = SameHash(job[m].file)]
      BY <1>0 DEF Job
    <2>2. j.file.out = job[m].file.out
      BY <1>0, <2>1 DEF FileState
    <2>3. Become(m, j)
      BY <1>8 DEF HashSource
    <2> HIDE DEF j
    <2> QED
      BY <1>2, <1>3, <2>1, <2>2, <2>3
  <1>9. CASE CloseFiles(m) \/ RemoveSource(m)
    <2>1. \A pc \in Work : /\ [job[m] EXCEPT !.pc = pc, !.file = Closed].pc = pc
                           /\ [job[m] EXCEPT !.pc = pc, !.file = Closed].file.out = 0
      BY <1>0 DEF Job, Closed
    <2>2. \E pc \in Work : Become(m, [job[m] EXCEPT !.pc = pc, !.file = Closed])
      BY <1>9 DEF CloseFiles, RemoveSource, NextFile
    <2> QED
      BY <1>2, <1>3, <2>1, <2>2
  <1> QED
    BY <1>2, <1>4, <1>5, <1>6, <1>7, <1>8, <1>9 DEF CopyStep

\* A timer starts a handler; a person starts another mover, and it may die.
Begins(m) == IF m \in Handler THEN Fire(m) ELSE Command(m) \/ CrashMover(m)
HandlerStep(m) == Begins(m) \/ Lock(m) \/ CloseDir(m) \/ Unlock(m)

\* Where a mover goes when it starts, locks, unlocks or ends: it opens no file, and
\* the walks that are left are the last of those it has to do.
LEMMA HandlerMoves ==
    ASSUME TypeInv, WalkInv, NEW m \in Movers, HandlerStep(m)
    PROVE  /\ \A k \in Movers \ {m} : job'[k] = job[k]
           /\ job'[m].pc \in {"idle", "lock", "next", "unlock"}
           /\ job'[m].file.out \in {job[m].file.out, 0}
           /\ job'[m].pc = "lock" => job'[m].walks \in LockRest(m)
           /\ job'[m].pc = "unlock" => job'[m].walks \in UnlockRest(m)
  <1>0. job[m] \in Job /\ job \in [Movers -> Job] /\ m \in Mover /\ Idle \in Job
    BY JobTypes DEF TypeInv
  <1>1. ASSUME NEW j, Become(m, j) PROVE job'[m] = j /\ \A k \in Movers \ {m} : job'[k] = job[k]
    BY <1>0, <1>1 DEF Become
  <1>2. Idle.pc = "idle" /\ Idle.file.out = 0
    BY DEF Idle, Closed
  <1>3. ASSUME Become(m, Idle)
        PROVE  /\ \A k \in Movers \ {m} : job'[k] = job[k]
               /\ job'[m].pc = "idle" /\ job'[m].file.out = 0
    BY <1>1, <1>2, <1>3
  <1>4. CASE Fire(m) \/ Command(m)
    <2> PICK o \in Order(m) : Started(m, o)
      BY <1>4 DEF Fire, Command
    <2> DEFINE j == [Idle EXCEPT !.pc = IF LockWalks(m) = <<>> THEN "next" ELSE "lock",
                           !.order = o, !.walks = LockWalks(m), !.left = Name]
    <2>1. /\ j.pc = IF LockWalks(m) = <<>> THEN "next" ELSE "lock"
          /\ j.walks = LockWalks(m) /\ j.file = Idle.file
      BY <1>0 DEF Job
    <2>2. Become(m, j)
      BY DEF Started
    <2> HIDE DEF j
    <2> QED
      BY <1>0, <1>1, <1>2, <2>1, <2>2, Walks
  <1>5. CASE Lock(m)
    <2> DEFINE j == [job[m] EXCEPT !.walks = Tail(@), !.pc = IF Tail(job[m].walks) = <<>> THEN "next" ELSE @]
    <2>1. job[m].pc = "lock" /\ Become(m, j)
      BY <1>5 DEF Lock, Holding
    <2>2. /\ j.pc = IF Tail(job[m].walks) = <<>> THEN "next" ELSE "lock"
          /\ j.walks = Tail(job[m].walks) /\ j.file = job[m].file
      BY <1>0, <2>1 DEF Job
    <2>3. job[m].walks \in LockRest(m)
      BY <2>1 DEF WalkInv
    <2> HIDE DEF j
    <2> QED
      BY <1>0, <1>1, <2>1, <2>2, <2>3, Walks
  <1>6. CASE CloseDir(m)
    <2> DEFINE j == [job[m] EXCEPT !.pc = "unlock", !.walks = UnlockWalks(m)]
    <2>1. j.pc = "unlock" /\ j.walks = UnlockWalks(m) /\ j.file = job[m].file
      BY <1>0 DEF Job
    <2>2. Become(m, Idle) \/ (UnlockWalks(m) # <<>> /\ Become(m, j))
      BY <1>6 DEF CloseDir, Return
    <2> HIDE DEF j
    <2> QED
      BY <1>0, <1>1, <1>3, <2>1, <2>2, Walks
  <1>7. CASE Unlock(m)
    <2> DEFINE j == [job[m] EXCEPT !.walks = Tail(@)]
    <2>1. job[m].pc = "unlock" /\ (Become(m, Idle) \/ (Tail(job[m].walks) # <<>> /\ Become(m, j)))
      BY <1>7 DEF Unlock, Return, Holding
    <2>2. j.pc = job[m].pc /\ j.walks = Tail(job[m].walks) /\ j.file = job[m].file
      BY <1>0 DEF Job
    <2>3. job[m].walks \in UnlockRest(m)
      BY <2>1 DEF WalkInv
    <2> HIDE DEF j
    <2> QED
      BY <1>0, <1>1, <1>3, <2>1, <2>2, <2>3, Walks
  <1>8. CASE CrashMover(m)
    BY <1>3, <1>8 DEF CrashMover
  <1> QED
    BY <1>4, <1>5, <1>6, <1>7, <1>8 DEF HandlerStep, Begins

\* The kinds of steps.
LEMMA StepKinds ==
    ASSUME [Next]_vars
    PROVE  \/ Upload \/ \E n \in Name : BeginUpload(n)
           \/ \E m \in Movers : HandlerStep(m)
           \/ \E m \in Movers : CopyStep(m)
           \/ CrashFm
           \/ UNCHANGED vars
  <1>1. CASE (\E h \in Movers \cap Handler : Fire(h))
             \/ (\E m \in Movers \ Handler : Command(m) \/ CrashMover(m))
    BY <1>1 DEF HandlerStep, Begins
  <1>2. ASSUME NEW m \in Movers, Step(m) PROVE HandlerStep(m) \/ CopyStep(m)
    BY <1>2 DEF Step, HandlerStep, CopyStep
  <1> QED
    BY <1>1, <1>2 DEF Next

LEMMA TypeStep == TypeInv /\ WalkInv /\ [Next]_vars => TypeInv'
  <1> SUFFICES ASSUME TypeInv, WalkInv, [Next]_vars PROVE TypeInv'
    OBVIOUS
  <1>1. CASE UNCHANGED vars
    BY <1>1 DEF vars, TypeInv, Running
  <1> QED
    BY <1>1, StepKinds, UploadType, HandlerType, CopyType, CrashFmType
       DEF HandlerStep, Begins, CopyStep

LEMMA WalkStep == TypeInv /\ WalkInv /\ [Next]_vars => WalkInv'
  <1> SUFFICES ASSUME TypeInv, WalkInv, [Next]_vars PROVE WalkInv'
    OBVIOUS
  <1>1. CASE Upload \/ (\E n \in Name : BeginUpload(n)) \/ UNCHANGED vars
    BY <1>1 DEF Upload, BeginUpload, UploadBlock, EndUpload, vars, WalkInv
  <1>2. ASSUME NEW m \in Movers, HandlerStep(m) PROVE WalkInv'
    <2>1. /\ \A k \in Movers \ {m} : job'[k] = job[k]
          /\ job'[m].pc = "lock" => job'[m].walks \in LockRest(m)
          /\ job'[m].pc = "unlock" => job'[m].walks \in UnlockRest(m)
      BY <1>2, HandlerMoves
    <2> QED
      BY <2>1 DEF WalkInv
  <1>3. ASSUME NEW m \in Movers, CopyStep(m) PROVE WalkInv'
    <2>1. job'[m].pc \in Work /\ \A k \in Movers \ {m} : job'[k] = job[k]
      BY <1>3, CopyMoves
    <2> QED
      BY <2>1 DEF WalkInv, Work
  <1>4. CASE CrashFm
    BY <1>4 DEF CrashFm, WalkInv, Idle
  <1> QED
    BY <1>1, <1>2, <1>3, <1>4, StepKinds

LEMMA StackStep == TypeInv /\ WalkInv /\ StackInv /\ [Next]_vars => StackInv'
  <1> SUFFICES ASSUME TypeInv, WalkInv, StackInv, [Next]_vars PROVE StackInv'
    OBVIOUS
  <1>1. ASSUME UNCHANGED stack, \A h \in Movers \cap Handler : Running(h)' <=> Running(h)
        PROVE  StackInv'
    BY <1>1 DEF StackInv
  <1>2. CASE Upload \/ (\E n \in Name : BeginUpload(n)) \/ UNCHANGED vars
    <2>1. UNCHANGED <<stack, job>>
      BY <1>2 DEF Upload, BeginUpload, UploadBlock, EndUpload, vars
    <2> QED
      BY <1>1, <2>1 DEF Running
  <1>3. ASSUME NEW m \in Movers, CopyStep(m) PROVE StackInv'
    <2>1. UNCHANGED stack /\ job[m].pc \in Work /\ job'[m].pc \in Work
          /\ \A k \in Movers \ {m} : job'[k] = job[k]
      BY <1>3, CopyMoves
    <2> QED
      BY <1>1, <2>1 DEF Running, Work
  <1>4. ASSUME NEW m \in Movers, HandlerStep(m) PROVE StackInv'
    <2>0. \A k \in Movers \ {m} : job'[k] = job[k]
      BY <1>4, HandlerMoves
    <2>1. job \in [Movers -> Job] /\ job[m] \in Job /\ Idle \in Job /\ Idle.pc = "idle"
      BY JobTypes DEF TypeInv, Idle
    <2>2. CASE m \in Handler /\ Fire(m)
      <3>1. ~Running(m) /\ stack' = Append(stack, m)
        BY <2>2 DEF Fire, Running
      <3>2. PICK o \in Order(m) : Started(m, o)
        BY <2>2 DEF Fire
      <3>3. job'[m].pc \in {"next", "lock"}
        BY <2>1, <3>2 DEF Started, Become, Job
      <3> QED
        BY <2>0, <2>2, <3>1, <3>3, PushStack DEF Running
    <2>3. CASE m \notin Handler
      <3>1. UNCHANGED stack
        BY <1>4, <2>3 DEF HandlerStep, Begins, Command, CrashMover, Lock, CloseDir, Unlock, Return
      <3> QED
        BY <1>1, <2>0, <2>3, <3>1 DEF Running
    <2>4. CASE m \in Handler /\ (Lock(m) \/ CloseDir(m) \/ Unlock(m))
      <3>1. Runs(m) /\ Running(m) /\ stack[Len(stack)] = m
        BY <2>4 DEF Lock, CloseDir, Unlock, Holding, Runs, Running
      <3>2. CASE Return(m)
        <4>1. ~Running(m)' /\ stack' = SubSeq(stack, 1, Len(stack) - 1)
          BY <2>1, <2>4, <3>2 DEF Return, Become, Running
        <4> QED
          BY <2>0, <2>4, <3>1, <4>1, PopStack DEF Running
      <3>3. CASE ~Return(m)
        <4>1. UNCHANGED stack
          BY <2>4, <3>3 DEF Lock, CloseDir, Unlock
        <4>2. job'[m].pc # "idle"
          <5>1. [job[m] EXCEPT !.pc = "unlock", !.walks = UnlockWalks(m)].pc = "unlock"
            BY <2>1 DEF Job
          <5>2. CASE Lock(m)
            BY <2>1, <5>2 DEF Lock, Holding, Become, Job
          <5>3. CASE CloseDir(m)
            <6>1. Become(m, [job[m] EXCEPT !.pc = "unlock", !.walks = UnlockWalks(m)])
              BY <3>3, <5>3 DEF CloseDir
            <6>2. job'[m] = [job[m] EXCEPT !.pc = "unlock", !.walks = UnlockWalks(m)]
              BY <2>1, <6>1 DEF Become
            <6> QED
              BY <5>1, <6>2
          <5>4. CASE Unlock(m)
            BY <2>1, <3>3, <5>4 DEF Unlock, Holding, Become, Job
          <5> QED
            BY <2>4, <5>2, <5>3, <5>4
        <4> QED
          BY <1>1, <2>0, <3>1, <4>1, <4>2 DEF Running
      <3> QED
        BY <3>2, <3>3
    <2> QED
      BY <1>4, <2>2, <2>3, <2>4 DEF HandlerStep, Begins
  <1>5. CASE CrashFm
    <2>1. stack' = <<>> /\ \A h \in Movers \cap Handler : job'[h].pc = "idle"
      BY <1>5 DEF CrashFm, Idle
    <2> QED
      BY <2>1 DEF StackInv, Stacks, Running
  <1> QED
    BY <1>1, <1>2, <1>3, <1>4, <1>5, StepKinds

LEMMA BaseInvariant == Spec => [](TypeInv /\ WalkInv /\ StackInv)
  <1>1. ASSUME Init PROVE TypeInv /\ WalkInv /\ StackInv
    <2>1. \A m \in Movers : job[m] = Idle /\ Idle.pc = "idle" /\ Idle \in Job
      <3>1. Closed \in FileState
        BY DEF Closed, FileState
      <3>2. (CHOOSE n \in Name : TRUE) \in Name
        OBVIOUS
      <3>3. Copy("reports", "archive") \in [move : BOOLEAN, from : Dir, to : Dir] /\ <<>> \in Seq(Walking)
        BY DEF Copy, Dir
      <3>4. Idle \in Job
        BY <3>1, <3>2, <3>3 DEF Idle, Job, JobPc
      <3> QED
        BY <1>1, <3>4 DEF Init, Idle
    <2>2. NoUser \in [name : Name, ino : 0 .. MaxInode, pos : 0 .. Blocks]
      <3>1. (CHOOSE n \in Name : TRUE) \in Name
        OBVIOUS
      <3> QED
        BY <3>1 DEF NoUser
    <2>3. <<>> \in Text
      BY DEF Text
    <2>4. TypeInv
      BY <1>1, <2>1, <2>2, <2>3 DEF TypeInv, Init, Running, Block
    <2>5. WalkInv
      BY <2>1 DEF WalkInv
    <2>6. StackInv
      BY <1>1, <2>1 DEF StackInv, Stacks, Init, Running
    <2> QED
      BY <2>4, <2>5, <2>6
  <1>2. TypeInv /\ WalkInv /\ StackInv /\ [Next]_vars => (TypeInv /\ WalkInv /\ StackInv)'
    BY TypeStep, WalkStep, StackStep
  <1> QED
    BY <1>1, <1>2, PTL DEF Spec

\* Every variable has its type, whoever moves files: no file grows beyond a
\* report, and each handler of fm is on the stack exactly while it runs.
THEOREM TransferTypes == Spec => []TypeOK
  <1>1. ASSUME TypeInv, StackInv PROVE TypeOK
    <2>1. ASSUME NEW i \in Inode
          PROVE  Len(data[i]) <= Blocks /\ \A k \in 1 .. Len(data[i]) : data[i][k] \in Block
      <3>1. data[i] \in Seq(Block) /\ Len(data[i]) <= Blocks
        BY <1>1 DEF TypeInv, Text
      <3> QED
        BY <3>1
    <2>2. ASSUME NEW m \in Movers
          PROVE  /\ job[m].pc \in JobPc
                 /\ job[m].pc # "idle" => job[m].order \in Order(m)
                 /\ job[m].left \subseteq Name /\ job[m].name \in Name
                 /\ job[m].file \in FileState
                 /\ m \in Handler => (job[m].pc # "idle") = (\E k \in 1 .. Len(stack) : stack[k] = m)
      <3>1. job[m] \in Job
        BY <1>1 DEF TypeInv
      <3>2. m \in Handler => (job[m].pc # "idle") = (\E k \in 1 .. Len(stack) : stack[k] = m)
        BY <1>1 DEF StackInv, Running
      <3> QED
        BY <1>1, <3>1, <3>2, JobFields DEF TypeInv, Running
    <2>3. Len(stack) <= 2
      BY <1>1 DEF StackInv, Stacks
    <2> QED
      BY <1>1, <2>1, <2>2, <2>3 DEF TypeInv, TypeOK
  <1> QED
    BY <1>1, BaseInvariant, PTL

-----------------------------------------------------------------------------
(* The backup has the reports locked, unless they are moved by hand.       *)

Reading == job["backup"].pc \in JobPc \ {"idle", "lock", "unlock"}

\* What is moved, and so removed, is not in the reports directory.
LEMMA RemovesNoReport ==
    ASSUME "manual" \notin Movers, TypeInv, NEW k \in Movers, job[k].pc = "remove"
    PROVE  job[k].order.from = "dashboard"
  <1>1. job[k].order \in Order(k) /\ job[k].order.move /\ k \in {"backup", "transfer", "client"}
    BY DEF TypeInv, Running, Mover, Handler
  <1>2. ~Copy("reports", "dashboard").move /\ ~Copy("reports", "archive").move
        /\ Move("dashboard", "archive").from = "dashboard"
    BY DEF Copy, Move
  <1>3. Order(k) \subseteq {Copy("reports", "dashboard"), Copy("reports", "archive"), Move("dashboard", "archive")}
    BY <1>1 DEF Order
  <1> QED
    BY <1>1, <1>2, <1>3

\* A handler comes to read only with all its walks behind it.
LEMMA ReadsAfterLocking ==
    ASSUME TypeInv, NEW m \in Movers \cap Handler, HandlerStep(m), job'[m].pc = "next"
    PROVE  Lock(m) /\ Tail(job[m].walks) = <<>>
  <1>0. job \in [Movers -> Job] /\ job[m] \in Job /\ Idle \in Job /\ Idle.pc = "idle"
    BY JobTypes DEF TypeInv, Idle
  <1>1. ASSUME NEW j, Become(m, j) PROVE job'[m] = j
    BY <1>0, <1>1 DEF Become
  <1>2. ASSUME Fire(m) PROVE FALSE
    <2>1. LockWalks(m) # <<>>
      BY DEF LockWalks, Handler
    <2>2. PICK o \in Order(m) : Started(m, o)
      BY <1>2 DEF Fire
    <2>3. job'[m] = [Idle EXCEPT !.pc = "lock", !.order = o, !.walks = LockWalks(m), !.left = Name]
      BY <1>1, <2>1, <2>2 DEF Started
    <2> QED
      BY <1>0, <2>3 DEF Job
  <1>3. ASSUME CloseDir(m) PROVE FALSE
    <2>1. [job[m] EXCEPT !.pc = "unlock", !.walks = UnlockWalks(m)].pc = "unlock"
      BY <1>0 DEF Job
    <2>2. job'[m] \in {Idle, [job[m] EXCEPT !.pc = "unlock", !.walks = UnlockWalks(m)]}
      BY <1>1, <1>3 DEF CloseDir, Return
    <2> QED
      BY <1>0, <2>1, <2>2
  <1>4. ASSUME Unlock(m) PROVE FALSE
    <2>1. [job[m] EXCEPT !.walks = Tail(@)].pc = job[m].pc /\ job[m].pc = "unlock"
      BY <1>0, <1>4 DEF Job, Unlock, Holding
    <2>2. job'[m] \in {Idle, [job[m] EXCEPT !.walks = Tail(@)]}
      BY <1>1, <1>4 DEF Unlock, Return
    <2> QED
      BY <1>0, <2>1, <2>2
  <1>5. ASSUME Lock(m) PROVE Tail(job[m].walks) = <<>>
    <2> DEFINE j == [job[m] EXCEPT !.walks = Tail(@), !.pc = IF Tail(job[m].walks) = <<>> THEN "next" ELSE @]
    <2>1. j.pc = IF Tail(job[m].walks) = <<>> THEN "next" ELSE job[m].pc
      BY <1>0 DEF Job
    <2>2. job'[m] = j /\ job[m].pc = "lock"
      BY <1>1, <1>5 DEF Lock, Holding
    <2> HIDE DEF j
    <2> QED
      BY <2>1, <2>2
  <1> QED
    BY <1>2, <1>3, <1>4, <1>5 DEF HandlerStep, Begins

\* The transfer handler may run inside the backup, between any two of its steps,
\* and locks and unlocks what it does; it does not touch the reports.
LEMMA LockedStep ==
    "manual" \notin Movers /\ TypeInv /\ WalkInv /\ ReportsLockedWhileCopied /\ [Next]_vars
        => ReportsLockedWhileCopied'
  <1> SUFFICES ASSUME "manual" \notin Movers, TypeInv, WalkInv, ReportsLockedWhileCopied, [Next]_vars,
                      "backup" \in Movers, Reading'
               PROVE  mode'["reports"] = "locked"
    BY DEF ReportsLockedWhileCopied, Reading
  <1>0. mode \in [Dir -> {"made", "locked", "unlocked"}] /\ "reports" \in Dir
        /\ (Reading => mode["reports"] = "locked")
    BY DEF TypeInv, Dir, ReportsLockedWhileCopied, Reading
  <1>1. CASE Upload \/ (\E n \in Name : BeginUpload(n)) \/ UNCHANGED vars
    BY <1>0, <1>1 DEF Upload, BeginUpload, UploadBlock, EndUpload, vars, Reading
  <1>2. ASSUME NEW m \in Movers, CopyStep(m) PROVE mode'["reports"] = "locked"
    <2>1. UNCHANGED mode /\ job[m].pc \in Work /\ \A k \in Movers \ {m} : job'[k] = job[k]
      BY <1>2, CopyMoves
    <2> QED
      BY <1>0, <2>1 DEF Reading, Work, JobPc
  <1>3. ASSUME NEW m \in Movers, HandlerStep(m) PROVE mode'["reports"] = "locked"
    <2>1. /\ \A k \in Movers \ {m} : job'[k] = job[k]
          /\ job'[m].pc \in {"idle", "lock", "next", "unlock"} /\ m \in Mover
      BY <1>3, HandlerMoves
    <2>2. CASE m # "backup"
      <3>1. Reading /\ mode["reports"] = "locked"
        BY <1>0, <2>1, <2>2 DEF Reading
      <3>2. CASE Lock(m) \/ Unlock(m)
        <4>1. job[m].walks \in LockRest(m) \cup UnlockRest(m) /\ Walk(m)
          BY <3>2 DEF Lock, Unlock, Holding, WalkInv
        <4>2. Head(job[m].walks)[1] = "dashboard"
          BY <2>1, <2>2, <4>1, Walks
        <4> QED
          BY <1>0, <3>1, <4>1, <4>2 DEF Walk
      <3>3. CASE ~(Lock(m) \/ Unlock(m))
        BY <1>3, <3>1, <3>3 DEF HandlerStep, Begins, Fire, Command, CrashMover, CloseDir
      <3> QED
        BY <3>2, <3>3
    <2>3. CASE m = "backup"
      <3>1. job'[m].pc = "next"
        BY <2>1, <2>3 DEF Reading
      <3>2. Lock(m) /\ Tail(job[m].walks) = <<>>
        BY <1>3, <2>3, <3>1, ReadsAfterLocking DEF Handler
      <3>3. job[m].walks \in LockRest(m) /\ Walk(m)
        BY <3>2 DEF Lock, Holding, WalkInv
      <3>4. Head(job[m].walks) = <<"reports", "locked">>
        BY <2>1, <2>3, <3>2, <3>3, Walks
      <3>5. ~CutShort(m, "reports")
        BY RemovesNoReport DEF CutShort, Holding
      <3> QED
        BY <1>0, <3>3, <3>4, <3>5 DEF Walk
    <2> QED
      BY <2>2, <2>3
  <1>4. CASE CrashFm
    BY <1>4 DEF CrashFm, Reading, Idle, Handler
  <1> QED
    BY <1>1, <1>2, <1>3, <1>4, StepKinds

\* Nobody new can open a report while the backup reads them: the directory is
\* locked from before its first file to after its last, whatever the transfer does
\* inside the backup, and wherever fm dies.
THEOREM BackupReadsLocked ==
    ASSUME "manual" \notin Movers
    PROVE  Spec => []ReportsLockedWhileCopied
  <1>1. Init => ReportsLockedWhileCopied
    BY DEF Init, Idle, ReportsLockedWhileCopied
  <1>2. TypeInv /\ WalkInv /\ StackInv /\ ReportsLockedWhileCopied /\ [Next]_vars
            => ReportsLockedWhileCopied'
    BY LockedStep
  <1> QED
    BY <1>1, <1>2, BaseInvariant, PTL DEF Spec

-----------------------------------------------------------------------------
(* A report stays as it was uploaded.                                      *)

KeepInv == ApartInv /\ UploadInv /\ FiledReportKept

\* A report has its name, so a step that writes elsewhere keeps it.
LEMMA ReportsStored ==
    ASSUME TypeInv, NEW d, Store(d), \A n \in Name : dir'["reports"][n] = dir["reports"][n]
    PROVE  \A i \in Report : i \in Inode /\ data'[i] = d[i]
  <1> SUFFICES ASSUME NEW n \in Name, dir["reports"][n] # 0
               PROVE  dir["reports"][n] \in Inode /\ data'[dir["reports"][n]] = d[dir["reports"][n]]
    BY DEF Report
  <1>1. "reports" \in Dir /\ dir["reports"][n] \in Inode
    BY DEF TypeInv, Dir, Inode
  <1>2. dir["reports"][n] \in Linked'
    BY <1>1 DEF Linked
  <1> QED
    BY <1>1, <1>2, StoreText

\* A step that gives no report another name and opens none for writing; what it
\* writes it writes elsewhere.
Quiet ==
    /\ UNCHANGED <<user, uploads, filed>>
    /\ \A n \in Name : dir'["reports"][n] = dir["reports"][n]
    /\ \A e \in Dir \ {"reports"}, n \in Name : dir'[e][n] \notin Report
    /\ \A m \in Movers : job'[m].file.out \notin Report
    /\ \A i \in Report : data'[i] = data[i]

LEMMA QuietKeeps ==
    ASSUME TypeInv, KeepInv, Quiet
    PROVE  KeepInv'
  <1> USE DEF Quiet
  <1>1. Report' = Report
    BY DEF Report
  <1>2. ApartInv'
    BY <1>1 DEF KeepInv, ApartInv
  <1>3. UploadInv'
    <2> SUFFICES ASSUME user.ino # 0 PROVE UploadInv'
      BY DEF UploadInv
    <2>1. user.name \in Name /\ user.ino = dir["reports"][user.name] /\ UploadInv
      BY DEF TypeInv, KeepInv, UploadInv
    <2>2. user.ino \in Report
      BY <2>1 DEF Report
    <2> QED
      BY <2>1, <2>2 DEF UploadInv
  <1>4. FiledReportKept'
    <2> SUFFICES ASSUME NEW n \in Name, filed[n] # 0 PROVE Whole("reports", n, filed[n])'
      BY DEF FiledReportKept
    <2>1. Whole("reports", n, filed[n])
      BY DEF KeepInv, FiledReportKept
    <2>2. dir["reports"][n] \in Report
      BY <2>1 DEF Whole, Report
    <2> QED
      BY <2>1, <2>2 DEF Whole
  <1> QED
    BY <1>2, <1>3, <1>4 DEF KeepInv

\* A block of the upload follows those that are there.
LEMMA NextBlock ==
    ASSUME NEW p \in Nat, NEW v
    PROVE  Put([k \in 1 .. p |-> v], p + 1, v) = [k \in 1 .. p + 1 |-> v]
  <1> DEFINE s == [k \in 1 .. p |-> v]
  <1>1. Len(s) = p /\ \A k \in 1 .. p : s[k] = v
    OBVIOUS
  <1> HIDE DEF s
  <1>2. Put(s, p + 1, v) = [k \in 1 .. p + 1 |-> IF k = p + 1 THEN v ELSE IF k <= p THEN s[k] ELSE 0]
    BY <1>1 DEF Put
  <1>3. \A k \in 1 .. p + 1 : (IF k = p + 1 THEN v ELSE IF k <= p THEN s[k] ELSE 0) = v
    BY <1>1
  <1>4. Put(s, p + 1, v) = [k \in 1 .. p + 1 |-> v]
    BY <1>2, <1>3
  <1> QED
    BY <1>4 DEF s

\* The uploader begins a report, in the place of the old one or in a file that
\* nobody has open.
LEMMA BeginWrites ==
    ASSUME TypeInv, KeepInv, NEW n \in Name, BeginUpload(n)
    PROVE  \E i \in Inode :
              /\ user' = [name |-> n, ino |-> i, pos |-> 0]
              /\ dir'["reports"][n] = i
              /\ \A e \in Dir, k \in Name : e # "reports" \/ k # n => dir'[e][k] = dir[e][k]
              /\ dir["reports"][n] = i \/ (dir["reports"][n] = 0 /\ i \notin Linked \cup Open)
              /\ \A k \in Name \ {n} : dir'["reports"][k] = dir["reports"][k] /\ dir["reports"][k] # i
              /\ \A k \in Inode \cap Linked' : data'[k] = IF k = i THEN <<>> ELSE data[k]
  <1> PICK i \in Inode : /\ Truncated("reports", n, i)
                         /\ user' = [name |-> n, ino |-> i, pos |-> 0]
                         /\ Store([data EXCEPT ![i] = <<>>])
    BY DEF BeginUpload
  <1>0. /\ dir \in [Dir -> [Name -> 0 .. MaxInode]] /\ data \in [Inode -> Text] /\ "reports" \in Dir
        /\ job' = job /\ uploads' = uploads + 1 /\ uploads \in Nat
        /\ filed \in [Name -> Block] /\ filed' = [filed EXCEPT ![n] = 0]
        /\ i # 0
    BY DEF TypeInv, Dir, BeginUpload, Inode
  <1>1. /\ dir'["reports"][n] = i
        /\ \A e \in Dir, k \in Name : e # "reports" \/ k # n => dir'[e][k] = dir[e][k]
        /\ dir["reports"][n] = i \/ (dir["reports"][n] = 0 /\ i \notin Linked \cup Open)
    BY <1>0, TruncatedFile
  <1>3. \A k \in Name \ {n} : dir'["reports"][k] = dir["reports"][k] /\ dir["reports"][k] # i
    <2>1. dir["reports"][n] = i => \A k \in Name \ {n} : dir["reports"][k] # i
      BY <1>0 DEF KeepInv, ApartInv
    <2>2. i \notin Linked => \A k \in Name : dir["reports"][k] # i
      BY <1>0 DEF Linked
    <2> QED
      BY <1>0, <1>1, <2>1, <2>2
  <1>4. \A k \in Inode \cap Linked' : data'[k] = IF k = i THEN <<>> ELSE data[k]
    <2> DEFINE d == [data EXCEPT ![i] = <<>>]
    <2>1. \A k \in Inode : d[k] = IF k = i THEN <<>> ELSE data[k]
      BY <1>0
    <2>2. Store(d)
      OBVIOUS
    <2> HIDE DEF d
    <2> QED
      BY <2>1, <2>2, StoreText
  <1> QED
    BY <1>1, <1>3, <1>4

\* So the reports stay apart, and whole.
LEMMA BeginKeeps ==
    ASSUME TypeInv, KeepInv, NEW n \in Name, BeginUpload(n)
    PROVE  KeepInv'
  <1> PICK i \in Inode :
              /\ user' = [name |-> n, ino |-> i, pos |-> 0]
              /\ dir'["reports"][n] = i
              /\ \A e \in Dir, k \in Name : e # "reports" \/ k # n => dir'[e][k] = dir[e][k]
              /\ dir["reports"][n] = i \/ (dir["reports"][n] = 0 /\ i \notin Linked \cup Open)
              /\ \A k \in Name \ {n} : dir'["reports"][k] = dir["reports"][k] /\ dir["reports"][k] # i
              /\ \A k \in Inode \cap Linked' : data'[k] = IF k = i THEN <<>> ELSE data[k]
    BY BeginWrites
  <1>0. /\ dir \in [Dir -> [Name -> 0 .. MaxInode]] /\ data \in [Inode -> Text] /\ "reports" \in Dir
        /\ job' = job /\ uploads' = uploads + 1 /\ uploads \in Nat
        /\ filed \in [Name -> Block] /\ filed' = [filed EXCEPT ![n] = 0]
        /\ i # 0
    BY DEF TypeInv, Dir, BeginUpload, Inode
  <1>1. /\ dir'["reports"][n] = i
        /\ \A e \in Dir, k \in Name : e # "reports" \/ k # n => dir'[e][k] = dir[e][k]
        /\ dir["reports"][n] = i \/ (dir["reports"][n] = 0 /\ i \notin Linked \cup Open)
    OBVIOUS
  <1>2. Report' = Report \cup {i}
    <2>1. \A k \in Name \ {n} : dir'["reports"][k] = dir["reports"][k]
      BY <1>0, <1>1
    <2>2. ASSUME NEW k \in Name, dir'["reports"][k] # 0 PROVE dir'["reports"][k] \in Report \cup {i}
      BY <1>1, <2>1, <2>2 DEF Report
    <2>3. ASSUME NEW k \in Name, dir["reports"][k] # 0 PROVE dir["reports"][k] \in Report'
      BY <1>0, <1>1, <2>1, <2>3 DEF Report
    <2>4. i \in Report'
      BY <1>0, <1>1 DEF Report
    <2> QED
      BY <2>2, <2>3, <2>4 DEF Report
  <1>3. \A k \in Name \ {n} : dir'["reports"][k] = dir["reports"][k] /\ dir["reports"][k] # i
    OBVIOUS
  <1>4. \A k \in Inode \cap Linked' : data'[k] = IF k = i THEN <<>> ELSE data[k]
    OBVIOUS
  <1>5. ApartInv'
    <2>1. ASSUME NEW e \in Dir \ {"reports"}, NEW k \in Name PROVE dir'[e][k] \notin Report'
      <3>1. dir'[e][k] = dir[e][k] /\ dir[e][k] \notin Report
        BY <1>1 DEF KeepInv, ApartInv
      <3>2. dir["reports"][n] = i => i \in Report
        BY <1>0 DEF Report
      <3>3. i \notin Linked => dir[e][k] # i
        BY DEF Linked
      <3> QED
        BY <1>1, <1>2, <3>1, <3>2, <3>3
    <2>2. ASSUME NEW m \in Movers PROVE job'[m].file.out \notin Report'
      <3>1. job[m].file.out \notin Report
        BY DEF KeepInv, ApartInv
      <3>2. dir["reports"][n] = i => i \in Report
        BY <1>0 DEF Report
      <3>3. i \notin Open => job[m].file.out # i
        BY DEF Open
      <3> QED
        BY <1>0, <1>1, <1>2, <3>1, <3>2, <3>3
    <2>3. ASSUME NEW j \in Name, NEW k \in Name, dir'["reports"][j] = dir'["reports"][k],
                 dir'["reports"][j] # 0
          PROVE  j = k
      BY <1>1, <1>3, <2>3 DEF KeepInv, ApartInv
    <2> QED
      BY <2>1, <2>2, <2>3 DEF ApartInv
  <1>6. UploadInv'
    <2>1. i \in Linked'
      BY <1>0, <1>1 DEF Linked
    <2>2. data'[i] = <<>>
      BY <1>4, <2>1
    <2>3. <<>> = [k \in 1 .. 0 |-> uploads']
      OBVIOUS
    <2> QED
      BY <1>0, <1>1, <2>2, <2>3 DEF UploadInv
  <1>7. FiledReportKept'
    <2> SUFFICES ASSUME NEW k \in Name, filed'[k] # 0 PROVE Whole("reports", k, filed[k])'
      BY DEF FiledReportKept
    <2>1. k # n /\ filed'[k] = filed[k]
      BY <1>0
    <2>2. Whole("reports", k, filed[k])
      BY <2>1 DEF KeepInv, FiledReportKept
    <2>3. dir'["reports"][k] = dir["reports"][k] /\ dir["reports"][k] \in Inode \ {i}
      BY <1>0, <1>3, <2>1, <2>2 DEF Whole, Inode
    <2>4. dir["reports"][k] \in Linked'
      BY <1>0, <2>3 DEF Linked
    <2>5. data'[dir["reports"][k]] = data[dir["reports"][k]]
      BY <1>4, <2>3, <2>4
    <2> QED
      BY <2>1, <2>2, <2>3, <2>5 DEF Whole
  <1> QED
    BY <1>5, <1>6, <1>7 DEF KeepInv

\* He writes his next block, or closes a file that is complete.
LEMMA UploadKeeps == TypeInv /\ KeepInv /\ Upload => KeepInv'
  <1> SUFFICES ASSUME TypeInv, KeepInv, Upload PROVE KeepInv'
    OBVIOUS
  <1> DEFINE i == user.ino
  <1>0. /\ dir' = dir /\ job' = job /\ uploads' = uploads /\ i # 0 /\ user.name \in Name
        /\ user \in [name : Name, ino : 0 .. MaxInode, pos : 0 .. Blocks]
        /\ i \in Inode /\ data \in [Inode -> Text] /\ filed \in [Name -> Block]
    BY DEF Upload, UploadBlock, EndUpload, TypeInv, Inode
  <1>1. /\ dir["reports"][user.name] = i /\ filed[user.name] = 0 /\ uploads # 0
        /\ data[i] = [k \in 1 .. user.pos |-> uploads]
    BY <1>0 DEF KeepInv, UploadInv
  <1>2. Report' = Report /\ i \in Report
    BY <1>0, <1>1 DEF Report
  <1>3. ApartInv'
    BY <1>0, <1>2 DEF KeepInv, ApartInv
  <1>4. ASSUME NEW k \in Name, filed[k] # 0
        PROVE  /\ dir["reports"][k] \in Report /\ dir["reports"][k] # i
               /\ data[dir["reports"][k]] = Complete(filed[k]) /\ k # user.name
    BY <1>0, <1>1, <1>4 DEF KeepInv, FiledReportKept, Whole, ApartInv, Report
  <1>5. CASE UploadBlock
    <2> DEFINE d == [data EXCEPT ![i] = Put(@, user.pos + 1, uploads)]
    <2>1. /\ d[i] = Put(data[i], user.pos + 1, uploads)
          /\ \A k \in Inode \ {i} : d[k] = data[k]
      BY <1>0
    <2>2. Store(d)
      BY <1>5 DEF UploadBlock
    <2> HIDE DEF d
    <2>3. \A k \in Report : k \in Inode /\ data'[k] = d[k]
      BY <1>0, <2>2, ReportsStored
    <2>4. /\ filed' = filed /\ user'.ino = i /\ user'.name = user.name
          /\ user'.pos = user.pos + 1 /\ user.pos \in Nat
      BY <1>0, <1>5 DEF UploadBlock
    <2>5. UploadInv'
      <3>1. data'[i] = [k \in 1 .. user.pos + 1 |-> uploads]
        <4>1. Put([k \in 1 .. user.pos |-> uploads], user.pos + 1, uploads)
                  = [k \in 1 .. user.pos + 1 |-> uploads]
          BY <2>4, NextBlock
        <4>2. d[i] = Put([k \in 1 .. user.pos |-> uploads], user.pos + 1, uploads)
          BY <1>1, <2>1
        <4> QED
          BY <1>2, <2>3, <4>1, <4>2
      <3> QED
        BY <1>0, <1>1, <2>4, <3>1 DEF UploadInv
    <2>6. FiledReportKept'
      <3> SUFFICES ASSUME NEW k \in Name, filed[k] # 0 PROVE Whole("reports", k, filed[k])'
        BY <2>4 DEF FiledReportKept
      <3>1. data'[dir["reports"][k]] = Complete(filed[k]) /\ dir["reports"][k] # 0
        BY <1>4, <2>1, <2>3 DEF Report
      <3> QED
        BY <1>0, <2>4, <3>1 DEF Whole, Complete
    <2> QED
      BY <1>3, <2>5, <2>6 DEF KeepInv
  <1>6. CASE EndUpload
    <2>1. \A k \in Report : data'[k] = data[k]
      BY <1>0, <1>6, ReportsStored DEF EndUpload
    <2>2. /\ user'.ino = 0 /\ user.pos = Blocks
          /\ filed' = [filed EXCEPT ![user.name] = uploads]
      BY <1>6 DEF EndUpload, NoUser
    <2>3. UploadInv'
      BY <2>2 DEF UploadInv
    <2>4. FiledReportKept'
      <3> SUFFICES ASSUME NEW k \in Name, filed'[k] # 0 PROVE Whole("reports", k, filed[k])'
        BY DEF FiledReportKept
      <3>1. CASE k = user.name
        <4>1. filed'[k] = uploads /\ dir'["reports"][k] = i
          BY <1>0, <1>1, <2>2, <3>1
        <4>2. data'[i] = Complete(uploads)
          BY <1>1, <1>2, <2>1, <2>2 DEF Complete
        <4> QED
          BY <1>0, <4>1, <4>2 DEF Whole, Complete
      <3>2. CASE k # user.name
        <4>1. filed'[k] = filed[k]
          BY <1>0, <2>2, <3>2
        <4>2. data'[dir["reports"][k]] = Complete(filed[k]) /\ dir["reports"][k] # 0
          BY <1>4, <2>1, <4>1 DEF Report
        <4> QED
          BY <1>0, <4>1, <4>2 DEF Whole, Complete
      <3> QED
        BY <3>1, <3>2
    <2> QED
      BY <1>3, <2>3, <2>4 DEF KeepInv
  <1> QED
    BY <1>5, <1>6 DEF Upload

\* Copies go to the other directories.
LEMMA CopiesElsewhere ==
    ASSUME TypeInv, NEW m \in Movers, Running(m)
    PROVE  job[m].order.to \in Dir \ {"reports"}
  <1>1. \A from, to \in Dir : Copy(from, to).to = to /\ Move(from, to).to = to
    BY DEF Copy, Move
  <1>2. m \in Mover /\ job[m].order \in Order(m)
    BY DEF TypeInv
  <1>3. \A o \in Order(m) : o.to \in {"dashboard", "archive"}
    BY <1>1, <1>2 DEF Order, Mover, Handler, Dir
  <1> QED
    BY <1>2, <1>3 DEF Dir

\* No mover touches a report.
LEMMA MoverQuiet ==
    ASSUME "manual" \notin Movers, TypeInv, WalkInv, KeepInv, NEW m \in Movers,
           HandlerStep(m) \/ CopyStep(m)
    PROVE  Quiet
  <1>0. /\ dir \in [Dir -> [Name -> 0 .. MaxInode]] /\ data \in [Inode -> Text]
        /\ job[m] \in Job /\ job \in [Movers -> Job] /\ "reports" \in Dir
        /\ job[m].file.out \notin Report /\ 0 \notin Report /\ job[m].file \in FileState
    BY JobFields DEF TypeInv, Dir, KeepInv, ApartInv, Report
  <1>1. UNCHANGED <<user, uploads, filed>> /\ \A k \in Movers \ {m} : job'[k] = job[k]
    <2>1. CASE HandlerStep(m)
      <3>1. UNCHANGED <<user, uploads, filed>>
        BY <2>1 DEF HandlerStep, Begins, Fire, Command, CrashMover, Lock, CloseDir, Unlock
      <3> QED
        BY <2>1, <3>1, HandlerMoves
    <2>2. CASE CopyStep(m)
      BY <2>2, CopyMoves
    <2> QED
      BY <2>1, <2>2
  <1>2. ASSUME UNCHANGED dir, job'[m].file.out \in {job[m].file.out, 0},
               \A i \in Report : data'[i] = data[i]
        PROVE  Quiet
    <2>1. \A k \in Movers : job'[k].file.out \notin Report
      BY <1>0, <1>1, <1>2 DEF KeepInv, ApartInv
    <2> QED
      BY <1>1, <1>2, <2>1 DEF Quiet, KeepInv, ApartInv
  <1>3. CASE HandlerStep(m)
    <2>1. job'[m].file.out \in {job[m].file.out, 0}
      BY <1>3, HandlerMoves
    <2>2. UNCHANGED dir /\ (UNCHANGED data \/ Store(data))
      BY <1>3 DEF HandlerStep, Begins, Fire, Command, CrashMover, Lock, CloseDir, Unlock
    <2>3. \A i \in Report : data'[i] = data[i]
      BY <2>2, ReportsStored
    <2> QED
      BY <1>2, <2>1, <2>2, <2>3
  <1>4. ASSUME OpenSource(m) \/ EndOfSource(m) \/ HashSource(m) PROVE Quiet
    <2>1. CopyStep(m) /\ ~CreateDest(m)
      <3>1. job[m].pc # "create"
        BY <1>4 DEF OpenSource, EndOfSource, HashSource, Holding
      <3> QED
        BY <1>4, <3>1 DEF CopyStep, CreateDest, Holding
    <2>2. UNCHANGED <<dir, data>>
      BY <1>4 DEF OpenSource, EndOfSource, HashSource
    <2> QED
      BY <1>2, <2>1, <2>2, CopyMoves
  <1>5. ASSUME CopyBlock(m) \/ CloseFiles(m) PROVE Quiet
    <2>1. CopyStep(m) /\ ~CreateDest(m)
      <3>1. job[m].pc # "create"
        BY <1>5 DEF CopyBlock, CloseFiles, Holding
      <3> QED
        BY <1>5, <3>1 DEF CopyStep, CreateDest, Holding
    <2>2. UNCHANGED dir /\ Store(Flushed(job[m].file))
      BY <1>5 DEF CopyBlock, CloseFiles
    <2>3. \A i \in Report : Flushed(job[m].file)[i] = data[i]
      <3>1. Report \subseteq Inode
        BY <2>2, ReportsStored
      <3> QED
        BY <1>0, <3>1 DEF Flushed
    <2>4. \A i \in Report : data'[i] = data[i]
      BY <2>2, <2>3, ReportsStored
    <2> QED
      BY <1>2, <2>1, <2>2, <2>4, CopyMoves
  <1>6. ASSUME RemoveSource(m) PROVE Quiet
    <2>1. CopyStep(m) /\ job[m].pc = "remove"
      BY <1>6 DEF CopyStep, RemoveSource, Holding
    <2>2. job[m].order.from = "dashboard" /\ job[m].name \in Name /\ "dashboard" \in Dir
      BY <1>0, <2>1, RemovesNoReport, JobFields DEF Dir
    <2>3. dir' = [dir EXCEPT !["dashboard"][job[m].name] = 0]
      BY <1>6, <2>2 DEF RemoveSource
    <2>4. /\ \A n \in Name : dir'["reports"][n] = dir["reports"][n]
          /\ \A e \in Dir, n \in Name : dir'[e][n] \in {dir[e][n], 0}
      BY <1>0, <2>2, <2>3
    <2>5. \A i \in Report : data'[i] = data[i]
      BY <1>6, <2>4, ReportsStored DEF RemoveSource
    <2>6. \A k \in Movers : job'[k].file.out \notin Report
      <3>1. ~CreateDest(m)
        BY <2>1 DEF CreateDest, Holding
      <3> QED
        BY <1>0, <1>1, <2>1, <3>1, CopyMoves DEF KeepInv, ApartInv
    <2>7. \A e \in Dir \ {"reports"}, n \in Name : dir'[e][n] \notin Report
      BY <1>0, <2>4 DEF KeepInv, ApartInv
    <2> QED
      BY <1>1, <2>4, <2>5, <2>6, <2>7 DEF Quiet
  <1>7. ASSUME CreateDest(m) PROVE Quiet
    <2> DEFINE e == job[m].order.to
               n == job[m].name
    <2> PICK i \in Inode : /\ Truncated(e, n, i)
                           /\ Become(m, [job[m] EXCEPT !.pc = "copy", !.file.out = i])
                           /\ Store([data EXCEPT ![i] = <<>>])
      BY <1>7 DEF CreateDest
    <2>1. e \in Dir \ {"reports"} /\ n \in Name
      <3>1. Running(m)
        BY <1>7 DEF CreateDest, Holding, Running
      <3> QED
        BY <1>0, <3>1, CopiesElsewhere, JobFields
    <2>2. /\ dir'[e][n] = i
          /\ \A d \in Dir, k \in Name : d # e \/ k # n => dir'[d][k] = dir[d][k]
          /\ dir[e][n] = i \/ i \notin Linked
      BY <1>0, <2>1, TruncatedFile
    <2>3. i \notin Report
      <3>1. dir[e][n] \notin Report
        BY <2>1 DEF KeepInv, ApartInv
      <3>2. i \notin Linked => i \notin Report
        BY <1>0 DEF Linked, Report
      <3> QED
        BY <2>2, <3>1, <3>2
    <2>4. job'[m].file.out = i
      <3>1. job'[m] = [job[m] EXCEPT !.pc = "copy", !.file.out = i]
        BY <1>0 DEF Become
      <3>2. [job[m] EXCEPT !.pc = "copy", !.file.out = i].file = [job[m].file EXCEPT !.out = i]
        BY <1>0 DEF Job
      <3>3. [job[m].file EXCEPT !.out = i].out = i
        BY <1>0 DEF FileState
      <3> QED
        BY <3>1, <3>2, <3>3
    <2>5. \A k \in Name : dir'["reports"][k] = dir["reports"][k]
      BY <1>0, <2>1, <2>2
    <2>6. \A d \in Dir \ {"reports"}, k \in Name : dir'[d][k] \notin Report
      BY <2>2, <2>3 DEF KeepInv, ApartInv
    <2>7. \A k \in Movers : job'[k].file.out \notin Report
      BY <1>1, <2>3, <2>4 DEF KeepInv, ApartInv
    <2>8. \A k \in Report : data'[k] = data[k]
      <3> DEFINE d == [data EXCEPT ![i] = <<>>]
      <3>1. \A k \in Inode \ {i} : d[k] = data[k]
        BY <1>0
      <3>2. Store(d)
        OBVIOUS
      <3> HIDE DEF d
      <3> QED
        BY <2>3, <2>5, <3>1, <3>2, ReportsStored
    <2> QED
      BY <1>1, <2>5, <2>6, <2>7, <2>8 DEF Quiet
  <1> QED
    BY <1>3, <1>4, <1>5, <1>6, <1>7 DEF CopyStep

\* Whatever is not a step of the uploader is quiet.
LEMMA OthersQuiet ==
    ASSUME "manual" \notin Movers, TypeInv, WalkInv, KeepInv, [Next]_vars
    PROVE  Quiet \/ Upload \/ \E n \in Name : BeginUpload(n)
  <1>1. CASE CrashFm
    <2>1. UNCHANGED <<dir, user, uploads, filed>> /\ Store(data)
      BY <1>1 DEF CrashFm
    <2>2. \A i \in Report : data'[i] = data[i]
      BY <2>1, ReportsStored
    <2>3. \A m \in Movers : job'[m].file.out \in {job[m].file.out, 0}
      BY <1>1 DEF CrashFm, Idle, Closed
    <2>4. /\ \A m \in Movers : job'[m].file.out \notin Report
          /\ \A e \in Dir \ {"reports"}, n \in Name : dir'[e][n] \notin Report
      BY <2>1, <2>3 DEF KeepInv, ApartInv, Report
    <2> QED
      BY <2>1, <2>2, <2>4 DEF Quiet
  <1>2. CASE UNCHANGED vars
    BY <1>2 DEF vars, KeepInv, ApartInv, Quiet
  <1> QED
    BY <1>1, <1>2, StepKinds, MoverQuiet

LEMMA KeepStep ==
    "manual" \notin Movers /\ TypeInv /\ WalkInv /\ KeepInv /\ [Next]_vars => KeepInv'
  BY OthersQuiet, QuietKeeps, UploadKeeps, BeginKeeps

\* The invariant that keeps the reports.
LEMMA KeepInvariant ==
    ASSUME "manual" \notin Movers
    PROVE  Spec => [](TypeInv /\ WalkInv /\ KeepInv)
  <1>1. Init => KeepInv
    <2> SUFFICES ASSUME Init PROVE KeepInv
      OBVIOUS
    <2>1. /\ \A d \in Dir, n \in Name : dir[d][n] = 0
          /\ \A m \in Movers : job[m] = Idle
          /\ \A n \in Name : filed[n] = 0
          /\ user.ino = 0 /\ "reports" \in Dir
      BY DEF Init, NoUser, Dir
    <2>2. Report = {}
      BY <2>1 DEF Report
    <2> QED
      BY <2>1, <2>2 DEF KeepInv, ApartInv, UploadInv, FiledReportKept
  <1>2. TypeInv /\ WalkInv /\ StackInv /\ KeepInv /\ [Next]_vars => KeepInv'
    BY KeepStep
  <1> QED
    BY <1>1, <1>2, BaseInvariant, PTL DEF Spec

\* A report that was uploaded completely stays in the reports directory, whole,
\* whatever the handlers and the daemon's copies do inside each other, and
\* wherever one of them dies: a move never takes the original.
THEOREM ReportsAreKept ==
    ASSUME "manual" \notin Movers
    PROVE  Spec => []FiledReportKept
  <1>1. KeepInv => FiledReportKept
    BY DEF KeepInv
  <1> QED
    BY <1>1, KeepInvariant, PTL

-----------------------------------------------------------------------------
(***************************************************************************)
(* Transfer implements Reports: the uploader's steps are those of Reports, *)
(* every other step is a stutter.                                          *)
(***************************************************************************)

\* A quiet step changes nothing that the uploader sees.
LEMMA QuietStutters ==
    ASSUME TypeInv, Quiet
    PROVE  UNCHANGED Promised!reportsState
  <1>1. ASSUME NEW n \in Name, dir["reports"][n] # 0
        PROVE  data'[dir["reports"][n]] = data[dir["reports"][n]]
    BY <1>1 DEF Quiet, Report
  <1>2. \A n \in Name : dir'["reports"][n] = dir["reports"][n]
    BY DEF Quiet
  <1>3. Texts' = Texts
    BY <1>1, <1>2 DEF Texts
  <1>4. Uploading' = Uploading /\ uploads' = uploads
    BY DEF Quiet, Uploading
  <1> QED
    BY <1>3, <1>4 DEF Promised!reportsState

\* fopen() by the uploader empties his report and leaves the others alone.
LEMMA BeginReplaces ==
    ASSUME TypeInv, KeepInv, NEW n \in Name, BeginUpload(n)
    PROVE  Promised!Replace(n)
  <1> PICK i \in Inode :
              /\ user' = [name |-> n, ino |-> i, pos |-> 0]
              /\ dir'["reports"][n] = i
              /\ \A k \in Name \ {n} : dir'["reports"][k] = dir["reports"][k] /\ dir["reports"][k] # i
              /\ \A k \in Inode \cap Linked' : data'[k] = IF k = i THEN <<>> ELSE data[k]
    BY BeginWrites
  <1>1. "reports" \in Dir /\ i # 0 /\ \A k \in Name : dir["reports"][k] \in 0 .. MaxInode
    BY DEF TypeInv, Dir, Inode
  <1>2. Texts'[n] = <<>>
    <2>1. i \in Linked'
      BY <1>1 DEF Linked
    <2> QED
      BY <1>1, <2>1 DEF Texts
  <1>3. ASSUME NEW k \in Name \ {n} PROVE Texts'[k] = Texts[k]
    <2>1. CASE dir["reports"][k] = 0
      BY <2>1 DEF Texts
    <2>2. CASE dir["reports"][k] # 0
      <3>1. dir["reports"][k] \in Inode \cap Linked'
        BY <1>1, <2>2 DEF Inode, Linked
      <3> QED
        BY <2>2, <3>1 DEF Texts
    <2> QED
      BY <2>1, <2>2
  <1>4. Texts' = [Texts EXCEPT ![n] = <<>>]
    BY <1>2, <1>3 DEF Texts
  <1>5. Uploading = {} /\ Uploading' = {n} /\ uploads' = uploads + 1
    BY <1>1 DEF Uploading, BeginUpload
  <1> QED
    BY <1>4, <1>5 DEF Promised!Replace

\* While he writes, his blocks are what Reports says.
LEMMA OwnText ==
    ASSUME TypeInv, UploadInv, user.ino # 0
    PROVE  /\ user.name \in Name /\ user.pos \in 0 .. Blocks
           /\ Texts[user.name] = [k \in 1 .. user.pos |-> uploads]
           /\ Uploading = {user.name}
  BY DEF TypeInv, UploadInv, Texts, Uploading

\* fwrite() appends a block to his report only; fclose() finds it complete.
LEMMA UploadWrites ==
    ASSUME TypeInv, KeepInv, Upload
    PROVE  Promised!Write(user.name) \/ Promised!Close(user.name)
  <1> DEFINE i == user.ino
             n == user.name
  <1>0. /\ dir' = dir /\ uploads' = uploads /\ i # 0
        /\ user \in [name : Name, ino : 0 .. MaxInode, pos : 0 .. Blocks] /\ i \in Inode
        /\ data \in [Inode -> Text]
    BY DEF Upload, UploadBlock, EndUpload, TypeInv, Inode
  <1>1. /\ n \in Name /\ user.pos \in 0 .. Blocks /\ Uploading = {n}
        /\ Texts[n] = [k \in 1 .. user.pos |-> uploads]
    BY <1>0, OwnText DEF KeepInv
  <1>2. Len(Texts[n]) = user.pos
    BY <1>1
  <1>3. CASE UploadBlock
    <2> DEFINE d == [data EXCEPT ![i] = Put(@, user.pos + 1, uploads)]
    <2>1. \A k \in Inode \ {i} : d[k] = data[k]
      BY <1>0
    <2>2. Store(d)
      BY <1>3 DEF UploadBlock
    <2> HIDE DEF d
    <2>3. \A k \in Report : k \in Inode /\ data'[k] = d[k]
      BY <1>0, <2>2, ReportsStored
    <2>4. user' = [user EXCEPT !.pos = @ + 1] /\ user.pos < Blocks
      BY <1>3 DEF UploadBlock
    <2>5. Texts'[n] = Append(Texts[n], uploads)
      <3>1. TypeInv' /\ UploadInv' /\ user'.ino # 0 /\ user'.name = n /\ user'.pos = user.pos + 1
        <4>1. TypeInv'
          BY UploadType
        <4>2. KeepInv'
          BY UploadKeeps
        <4> QED
          BY <1>0, <2>4, <4>1, <4>2 DEF KeepInv
      <3>2. Texts'[n] = [k \in 1 .. user.pos + 1 |-> uploads]
        BY <1>0, <3>1 DEF Texts, UploadInv
      <3>3. ASSUME NEW p \in Nat, NEW v
            PROVE  Append([k \in 1 .. p |-> v], v) = [k \in 1 .. p + 1 |-> v]
        OBVIOUS
      <3> QED
        BY <1>1, <3>2, <3>3
    <2>6. ASSUME NEW k \in Name \ {n} PROVE Texts'[k] = Texts[k]
      <3>1. CASE dir["reports"][k] = 0
        BY <1>0, <3>1 DEF Texts
      <3>2. CASE dir["reports"][k] # 0
        <4>1. dir["reports"][k] \in Report /\ dir["reports"][k] # i
          BY <1>0, <1>1, <3>2 DEF Report, KeepInv, ApartInv, UploadInv
        <4>2. data'[dir["reports"][k]] = data[dir["reports"][k]]
          BY <2>1, <2>3, <4>1
        <4> QED
          BY <1>0, <4>2 DEF Texts
      <3> QED
        BY <3>1, <3>2
    <2>7. Texts' = [Texts EXCEPT ![n] = Append(@, uploads)]
      BY <1>1, <2>5, <2>6 DEF Texts
    <2>8. Uploading' = Uploading
      BY <1>0, <2>4 DEF Uploading
    <2>9. Promised!Write(n)
      BY <1>0, <1>1, <1>2, <2>4, <2>7, <2>8 DEF Promised!Write
    <2> QED
      BY <2>9
  <1>4. CASE EndUpload
    <2>1. user.pos = Blocks /\ Uploading' = {} /\ Store(data)
      BY <1>4 DEF EndUpload, NoUser, Uploading
    <2>2. \A k \in Report : data'[k] = data[k]
      BY <1>0, <2>1, ReportsStored
    <2>3. Texts' = Texts
      BY <1>0, <2>2 DEF Texts, Report
    <2>4. Promised!Close(n)
      BY <1>0, <1>1, <1>2, <2>1, <2>3 DEF Promised!Close
    <2> QED
      BY <2>4
  <1> QED
    BY <1>3, <1>4 DEF Upload

\* The reports directory belongs to those who put reports there: whatever the
\* timer handlers and the daemon do, in any order, inside each other and with a
\* crash anywhere, not a byte of a report comes, changes or goes by it, for any
\* number of reports, blocks, uploads and commands.
THEOREM TransferKeepsReports ==
    ASSUME "manual" \notin Movers
    PROVE  Spec => KeepsReports
  <1>1. Init => Promised!Init
    <2> SUFFICES ASSUME Init PROVE Promised!Init
      OBVIOUS
    <2>1. (\A n \in Name : dir["reports"][n] = 0) /\ user.ino = 0 /\ uploads = 0
      BY DEF Init, Dir, NoUser
    <2> QED
      BY <2>1 DEF Promised!Init, Texts, Uploading
  <1>2. TypeInv /\ WalkInv /\ KeepInv /\ [Next]_vars => [Promised!Next]_(Promised!reportsState)
    <2> SUFFICES ASSUME TypeInv, WalkInv, KeepInv, [Next]_vars
                 PROVE  Promised!Next \/ UNCHANGED Promised!reportsState
      OBVIOUS
    <2>1. user.name \in Name
      BY DEF TypeInv
    <2> QED
      BY <2>1, OthersQuiet, QuietStutters, BeginReplaces, UploadWrites DEF Promised!Next
  <1> QED
    BY <1>1, <1>2, KeepInvariant, PTL DEF Spec, KeepsReports, Promised!Spec
=============================================================================
