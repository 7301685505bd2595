---------------------------- MODULE DownloadProofs ----------------------------
(***************************************************************************)
(* Theorems about Download, for files of any size, any number of mirrors,  *)
(* job threads, clients and files on disk.                                 *)
(***************************************************************************)
EXTENDS Download, SequenceTheorems, TLAPS

(* The hypotheses. *)

\* A job has flushed its BufWriter, in release_job_resources, before the next
\* one is scheduled.  The code does not see to it, the order is removed earlier.
FlushedInTime == \A i, j \in Jobs :
    i # j /\ job[i].pc = "release" /\ job[j].pc # "ended" => job[i].buffer = <<>>

\* Flexo is not killed, and not everything is purged.
CfsUndisturbed == MaxCrashes = 0 /\ ~(PurgesPackages /\ PurgesCfs)

\* Every mirror honours Range, too.
SizeUndisturbed == CfsUndisturbed /\ ~IgnoresRange

\* Flexo is not killed, and no package is purged.
Undisturbed == MaxCrashes = 0 /\ ~PurgesPackages

-----------------------------------------------------------------------------
(* The inductive invariants. *)

Working(j) == job[j].pc \notin {"ended", "release"}

\* What has a type without an upper bound, whoever writes to the file.
JobRecords ==
    [pc : {"ended", "open", "request", "cfs", "body", "paused", "settle", "remove",
           "release"},
     inode : Nat, size_written : Nat, buffer : Seq(1..Size),
     left : 0..NumMirrors, length : Nat,
     result : {"Complete", "Partial", "Error", "Unavailable", "ClientError"}]

MessagesUpTo(S) ==
    [kind : {"JobSize", "Progress", "Completed", "Unavailable", "OrderError", "Dropped"},
     size : S]

ClientRecords ==
    [pc : {"idle", "await_size", "await_cfs", "open_growing", "open_complete",
           "streaming", "served"},
     job : Jobs, resume_from : 0..Size, promised : Nat, source : Nat, received : Seq(1..Size)]

FilesOK ==
    /\ files \in Seq(Seq(1..Size)) /\ Len(files) <= MaxFiles
    /\ linked \in BOOLEAN
    /\ IF linked THEN files # <<>> ELSE Len(files) < MaxFiles

\* The order is in orders_in_progress as long as its one job works.
OrderInv ==
    /\ in_progress \in BOOLEAN
    /\ \A j \in Jobs : Working(j) => in_progress
    /\ \A i, j \in Jobs : Working(i) /\ Working(j) => i = j

JobOK(s) ==
    /\ s.left = 0 <=> s.pc = "ended"
    /\ s.pc \in {"request", "cfs", "body"} => s.inode # 0
    /\ s.pc \in {"ended", "open"} => s.inode = 0
    /\ s.inode = 0 => s.buffer = <<>>
    /\ s.pc \in {"request", "cfs"} => s.buffer = <<>>

JobsOK == job \in [Jobs -> JobRecords] /\ \A j \in Jobs : JobOK(job[j])

MailboxOK == mailbox \in [Jobs -> {<<>>} \cup {<<m>> : m \in MessagesUpTo(Nat)}]

ClientsOK ==
    /\ client \in [Clients -> ClientRecords]
    /\ \A c \in Clients : client[c].pc = "streaming" => client[c].source # 0

RestOK ==
    /\ cfs \in {Missing, Torn} \cup Nat
    /\ purging \in BOOLEAN
    /\ crashes \in 0..MaxCrashes

\* Nobody has a file open that is gone.
InodesInv ==
    /\ \A j \in Jobs : job[j].inode <= Len(files)
    /\ \A c \in Clients : client[c].source <= Len(files)

Base == FilesOK /\ OrderInv /\ JobsOK /\ MailboxOK /\ ClientsOK /\ RestOK /\ InodesInv

\* When the callbacks get blocks, the client has been told the size.
AnnouncedInv == \A j \in Jobs : job[j].pc = "body" => mailbox[j] # <<>>

\* Whoever may still append to the file.
Writes(j) == job[j].inode # 0 /\ job[j].pc # "paused" /\ (Working(j) \/ job[j].buffer # <<>>)

\* What a job has on disk and in its buffer is what it has counted.
WrittenInv == \A j \in Jobs :
    Writes(j) => files[job[j].inode] \o job[j].buffer = Blocks(job[j].size_written)

SizesInv ==
    /\ cfs <= 2 * Size
    /\ \A j \in Jobs : job[j].size_written <= Size /\ job[j].length <= 2 * Size
    /\ mailbox \in [Jobs -> {<<>>} \cup {<<m>> : m \in MessagesUpTo(0..(2 * Size))}]
    /\ \A c \in Clients : client[c].promised <= 2 * Size

\* What a client has received ends within the file.
ReceivedInv == \A c \in Clients :
    /\ Offset(c) <= Size
    /\ client[c].received = SubSeq(Blocks(Size), client[c].resume_from + 1, Offset(c))

Intact == FileIntact /\ WrittenInv /\ SizesInv /\ ReceivedInv

\* The sizes that mirrors can lead to.
Sizes == IF IgnoresRange THEN {n \in Nat : n >= Size} ELSE {Size}

\* The CFS file while neither crashes nor the purging of a package interfere.
CfsInv ==
    /\ cfs \in {Missing, Torn} \cup Sizes
    /\ purging = FALSE
    /\ \A j \in Jobs : job[j].pc \in {"cfs", "body"} => job[j].length \in Sizes
    /\ cfs = Torn => \E j \in Jobs : job[j].pc = "cfs"
    /\ \A j \in Jobs : job[j].pc = "cfs" => cfs = Torn
    /\ \A j \in Jobs : job[j].pc = "body" => cfs \in Sizes
    /\ cfs = Missing => /\ \A i \in 1..Len(files) : files[i] = <<>>
                        /\ \A j \in Jobs : job[j].buffer = <<>>
    /\ ~PurgesPackages =>
          /\ cfs # Missing => linked
          /\ \A j \in Jobs : job[j].pc \in {"request", "cfs", "body"} => linked

Whole == linked /\ OnDisk = Size

\* The job's file is the one in the directory.
WorkingInv == \A j \in Jobs : Working(j) /\ job[j].inode # 0 => linked /\ job[j].inode = Len(files)

MailsInv == \A j \in Jobs : mailbox[j] # <<>> =>
    /\ mailbox[j][1].kind = "JobSize" => mailbox[j][1].size \in Sizes
    /\ mailbox[j][1].kind = "Completed" => Whole

ClientInv(c) ==
    /\ client[c].pc \in {"open_growing", "streaming"} => client[c].promised \in Sizes
    /\ client[c].pc = "open_complete" => Whole
    /\ client[c].pc = "served" => Offset(c) = Size

\* Whoever is to be served a complete file finds it, and the others are
\* promised no less than it has.
WholeInv == WorkingInv /\ MailsInv /\ \A c \in Clients : ClientInv(c)

-----------------------------------------------------------------------------
(* The jobs. *)

USE DEF vars, diskVars

LEMMA NoJobOK == NoJob \in JobRecords /\ JobOK(NoJob)
<1>1. <<>> \in Seq(1..Size)
  BY EmptySeq
<1> QED
  BY <1>1, SizeAssumption DEF NoJob, JobRecords, JobOK

LEMMA FilesTypes ==
    ASSUME FilesOK
    PROVE  /\ Len(files) \in Nat
           /\ \A i \in 1..Len(files) : files[i] \in Seq(1..Size) /\ Len(files[i]) \in Nat
<1>1. Len(files) \in Nat
  BY LenProperties DEF FilesOK
<1>2. ASSUME NEW i \in 1..Len(files) PROVE files[i] \in Seq(1..Size) /\ Len(files[i]) \in Nat
  BY ElementOfSeq, LenProperties DEF FilesOK
<1> QED
  BY <1>1, <1>2

\* However BufWriter divides them, the blocks are the same.
LEMMA BufferKeeps ==
    ASSUME NEW old \in Seq(1..Size), NEW b \in Seq(1..Size), NEW s \in BufferStates(old, b)
    PROVE  s[1] \in Seq(1..Size) /\ s[2] \in Seq(1..Size) /\ s[1] \o s[2] = old \o b
<1>1. <<>> \in Seq(1..Size) /\ old \o b \in Seq(1..Size)
  BY EmptySeq, ConcatProperties
<1>2. CASE s = <<<<>>, old \o b>>
  BY <1>1, <1>2, ConcatEmptySeq
<1>3. CASE s = <<old, b>>
  BY <1>3
<1>4. CASE s = <<old \o b, <<>>>>
  BY <1>1, <1>4, ConcatEmptySeq
<1> QED
  BY <1>2, <1>3, <1>4 DEF BufferStates

\* A step of a job thread, as far as its own state goes.
JobStep(j) ==
    /\ job' \in [Jobs -> JobRecords] /\ JobOK(job'[j])
    /\ \A i \in Jobs \ {j} : job'[i] = job[i]
    /\ job[j].pc # "ended"
    /\ job'[j].inode \in {0, job[j].inode, Len(files')}
    /\ Working(j)' => Working(j) /\ in_progress' = in_progress
    /\ in_progress' # in_progress => in_progress' = FALSE /\ Working(j)
    /\ UNCHANGED <<purging, crashes, client>>

LEMMA JobStepOf ==
    ASSUME JobsOK, NEW j \in Jobs, NEW s \in JobRecords, NEW here,
           Running(j, here, s), here # "ended", JobOK(s),
           s.inode \in {0, job[j].inode, Len(files')},
           s.pc \notin {"ended", "release"} => here # "release",
           \/ UNCHANGED in_progress
           \/ here # "release" /\ s.pc = "release" /\ in_progress' = FALSE
    PROVE  JobStep(j)
<1>1. /\ job \in [Jobs -> JobRecords] /\ job' = [job EXCEPT ![j] = s] /\ job[j].pc = here
      /\ UNCHANGED <<purging, crashes, client>>
  BY DEF Running, JobsOK
<1>2. /\ job' \in [Jobs -> JobRecords] /\ job'[j] = s
      /\ \A i \in Jobs \ {j} : job'[i] = job[i]
  BY <1>1
<1> QED
  BY <1>1, <1>2 DEF JobStep, Working

LEMMA JobSteps ==
    ASSUME FilesOK, FilesOK', JobsOK, NEW j \in Jobs, Download(j)
    PROVE  JobStep(j)
<1>1. job[j] \in JobRecords /\ JobOK(job[j])
  BY DEF JobsOK
<1>2. Size \in Nat \ {0} /\ NumMirrors \in Nat \ {0}
  BY SizeAssumption
<1>3. <<>> \in Seq(1..Size)
  BY EmptySeq
<1>4. CASE OpenFile(j)
  <2> DEFINE s == [job[j] EXCEPT !.pc = "request", !.inode = Len(files'),
                     !.size_written = AlreadyWritten(files'[Len(files')])]
  <2>1. Len(files') \in Nat \ {0}
    <3>1. linked' = TRUE
      BY <1>4 DEF OpenFile
    <3> QED
      BY <3>1, LenProperties, EmptySeq DEF FilesOK
  <2>2. AlreadyWritten(files'[Len(files')]) \in Nat
    BY <2>1, ElementOfSeq, LenProperties DEF FilesOK, AlreadyWritten
  <2>3. Running(j, "open", s) /\ UNCHANGED in_progress
    BY <1>4 DEF OpenFile
  <2>4. job[j].pc = "open"
    BY <1>4 DEF OpenFile, Running
  <2>5. s \in JobRecords /\ s.pc = "request" /\ s.inode = Len(files') /\ JobOK(s)
    BY <1>1, <2>1, <2>2, <2>4 DEF JobRecords, JobOK
  <2> HIDE DEF s
  <2> QED
    BY <2>3, <2>5, JobStepOf
<1>5. CASE OpenFails(j)
  <2> DEFINE s == [job[j] EXCEPT !.pc = "remove", !.result = "ClientError"]
  <2>1. Running(j, "open", s) /\ UNCHANGED in_progress /\ job[j].pc = "open"
    BY <1>5 DEF OpenFails, Running
  <2>2. s \in JobRecords /\ s.pc = "remove" /\ s.inode = job[j].inode /\ JobOK(s)
    BY <1>1, <2>1 DEF JobRecords, JobOK
  <2> HIDE DEF s
  <2> QED
    BY <2>1, <2>2, JobStepOf
<1>6. CASE HeaderAccepted(j)
  <2>1. PICK cl \in ContentLengths(j) :
          Running(j, "request", [job[j] EXCEPT !.pc = "cfs", !.length = job[j].size_written + cl])
    BY <1>6 DEF HeaderAccepted
  <2> DEFINE s == [job[j] EXCEPT !.pc = "cfs", !.length = job[j].size_written + cl]
  <2>2. job[j].size_written + cl \in Nat
    <3>1. cl \in Nat /\ job[j].size_written \in Nat
      BY <1>1, <1>2 DEF ContentLengths, JobRecords
    <3> QED
      BY <3>1
  <2>3. Running(j, "request", s) /\ UNCHANGED in_progress /\ job[j].pc = "request"
    BY <1>6, <2>1 DEF HeaderAccepted, Running
  <2>4. s \in JobRecords /\ s.pc = "cfs" /\ s.inode = job[j].inode /\ JobOK(s)
    BY <1>1, <2>2, <2>3 DEF JobRecords, JobOK
  <2> HIDE DEF s
  <2> QED
    BY <2>3, <2>4, JobStepOf
<1>7. CASE WriteCfs(j)
  <2> DEFINE s == [job[j] EXCEPT !.pc = "body"]
  <2>1. Running(j, "cfs", s) /\ UNCHANGED in_progress /\ job[j].pc = "cfs"
    BY <1>7 DEF WriteCfs, Running
  <2>2. s \in JobRecords /\ s.pc = "body" /\ s.inode = job[j].inode /\ JobOK(s)
    BY <1>1, <2>1 DEF JobRecords, JobOK
  <2> HIDE DEF s
  <2> QED
    BY <2>1, <2>2, JobStepOf
<1>8. ASSUME NEW here \in {"request", "body"},
             NEW r \in {"Complete", "Partial", "Error", "Unavailable", "ClientError"},
             Ends(j, here, r)
      PROVE  JobStep(j)
  <2> DEFINE s == [job[j] EXCEPT !.pc = "settle", !.result = r]
  <2>1. Running(j, here, s) /\ UNCHANGED in_progress /\ job[j].pc = here
    BY <1>8 DEF Ends, Running
  <2>2. s \in JobRecords /\ s.pc = "settle" /\ s.inode = job[j].inode /\ JobOK(s)
    BY <1>1, <2>1 DEF JobRecords, JobOK
  <2> HIDE DEF s
  <2> QED
    BY <2>1, <2>2, JobStepOf
<1>9. CASE RangeNotSatisfiable(j) \/ Unavailable(j) \/ TransferFails(j) \/ TransferCompletes(j)
  BY <1>8, <1>9 DEF RangeNotSatisfiable, Unavailable, TransferFails, TransferCompletes
<1>10. CASE WriteBlock(j)
  <2>1. PICK b \in BufferStates(job[j].buffer, <<job[j].size_written + 1>>) :
          Running(j, "body", [job[j] EXCEPT !.size_written = @ + 1, !.buffer = b[2]])
    BY <1>10 DEF WriteBlock
  <2> DEFINE s == [job[j] EXCEPT !.size_written = @ + 1, !.buffer = b[2]]
  <2>2. job[j].size_written + 1 \in 1..Size
    BY <1>1, <1>2, <1>10 DEF WriteBlock, JobRecords
  <2>3. b[2] \in Seq(1..Size)
    <3>1. <<job[j].size_written + 1>> \in Seq(1..Size)
      BY <2>2
    <3>2. job[j].buffer \in Seq(1..Size)
      BY <1>1 DEF JobRecords
    <3> QED
      BY <2>1, <3>1, <3>2, BufferKeeps
  <2>4. Running(j, "body", s) /\ UNCHANGED in_progress /\ job[j].pc = "body"
    BY <1>10, <2>1 DEF WriteBlock, Running
  <2>5. job[j].size_written + 1 \in Nat
    BY <2>2
  <2>6. job[j].inode # 0
    BY <1>1, <2>4 DEF JobOK
  <2>7. s \in JobRecords
    BY <1>1, <2>3, <2>5 DEF JobRecords
  <2>8. s.pc = "body" /\ s.inode = job[j].inode /\ s.left = job[j].left
    BY <1>1, <2>4 DEF JobRecords
  <2>9. JobOK(s)
    BY <1>1, <2>4, <2>6, <2>8 DEF JobOK
  <2> HIDE DEF s
  <2> QED
    BY <2>4, <2>7, <2>8, <2>9, JobStepOf
<1>11. CASE TryNext(j)
  <2> DEFINE s == [NoJob EXCEPT !.pc = "open", !.left = job[j].left - 1]
  <2>1. Running(j, "settle", s) /\ UNCHANGED in_progress /\ job[j].pc = "settle"
    BY <1>11 DEF TryNext, Running
  <2>2. job[j].left - 1 \in 1..NumMirrors
    BY <1>1, <1>2, <1>11, <2>1 DEF TryNext, LastChance, JobRecords, JobOK
  <2>3. s.pc = "open" /\ s.inode = 0 /\ s.buffer = <<>> /\ s.left = job[j].left - 1
    BY DEF NoJob
  <2>4. JobOK(s)
    BY <2>2, <2>3 DEF JobOK
  <2>5. s \in JobRecords
    <3>1. job[j].left - 1 \in 0..NumMirrors
      BY <1>2, <2>2
    <3>2. NoJob \in JobRecords
      BY NoJobOK
    <3> QED
      BY <3>1, <3>2 DEF JobRecords
  <2> HIDE DEF s
  <2> QED
    BY <2>1, <2>3, <2>4, <2>5, JobStepOf
<1>12. CASE LeaveLoop(j)
  <2> DEFINE s == [job[j] EXCEPT !.pc = "remove"]
  <2>1. Running(j, "settle", s) /\ UNCHANGED in_progress /\ job[j].pc = "settle"
    BY <1>12 DEF LeaveLoop, Running
  <2>2. s \in JobRecords /\ s.pc = "remove" /\ s.inode = job[j].inode /\ JobOK(s)
    BY <1>1, <2>1 DEF JobRecords, JobOK
  <2> HIDE DEF s
  <2> QED
    BY <2>1, <2>2, JobStepOf
<1>13. CASE RemoveOrder(j)
  <2> DEFINE s == [job[j] EXCEPT !.pc = "release"]
  <2>1. Running(j, "remove", s) /\ in_progress' = FALSE /\ job[j].pc = "remove"
    BY <1>13 DEF RemoveOrder, Running
  <2>2. s \in JobRecords /\ s.pc = "release" /\ s.inode = job[j].inode /\ JobOK(s)
    BY <1>1, <2>1 DEF JobRecords, JobOK
  <2> HIDE DEF s
  <2> QED
    BY <2>1, <2>2, JobStepOf
<1>14. CASE Release(j)
  <2>1. Running(j, "release", NoJob) /\ UNCHANGED in_progress
    BY <1>14 DEF Release
  <2>2. NoJob.inode = 0 /\ NoJob.pc = "ended"
    BY DEF NoJob
  <2> QED
    BY <2>1, <2>2, NoJobOK, JobStepOf
<1>15. CASE WriteFails(j)
  <2> DEFINE s == [job[j] EXCEPT !.pc = "paused", !.size_written = @ + 1, !.buffer = <<>>]
  <2>1. Running(j, "body", s) /\ UNCHANGED in_progress /\ job[j].pc = "body"
    BY <1>15 DEF WriteFails, Running
  <2>2. job[j].size_written + 1 \in Nat
    BY <1>1 DEF JobRecords
  <2>3. s \in JobRecords
    BY <1>1, <1>3, <2>2 DEF JobRecords
  <2>4. s.pc = "paused" /\ s.inode = job[j].inode /\ s.left = job[j].left /\ s.buffer = <<>>
    BY <1>1 DEF JobRecords
  <2>5. JobOK(s)
    BY <1>1, <2>1, <2>4 DEF JobOK
  <2> HIDE DEF s
  <2> QED
    BY <2>1, <2>3, <2>4, <2>5, JobStepOf
<1> QED
  BY <1>4, <1>5, <1>6, <1>7, <1>9, <1>10, <1>11, <1>12, <1>13, <1>14, <1>15
     DEF Download

-----------------------------------------------------------------------------
(* The files. *)

\* The oldest blocks of a buffer, and the others.
LEMMA BufferPieces ==
    ASSUME NEW b \in Seq(1..Size), NEW n \in 0..Len(b)
    PROVE  /\ SubSeq(b, 1, n) \in Seq(1..Size)
           /\ \E d \in Seq(1..Size) : SubSeq(b, 1, n) \o d = b
<1> DEFINE S == 1..Size
           l == Len(b)
<1>1. b \in Seq(S) /\ l \in Nat /\ n \in Nat /\ n <= l /\ \A i \in 1..l : b[i] \in S
  <2>1. l \in Nat
    BY LenProperties
  <2>2. n \in Nat /\ n <= l
    BY <2>1
  <2>3. \A i \in 1..l : b[i] \in S
    BY ElementOfSeq
  <2> QED
    BY <2>1, <2>2, <2>3
<1> HIDE DEF S
<1>2. ASSUME NEW m \in Nat \ {0}, NEW k \in 0..l PROVE SubSeq(b, m, k) \in Seq(S)
  <2>1. m \in Int /\ k \in Int /\ \A i \in m..k : b[i] \in S
    BY <1>1, <1>2
  <2> QED
    BY <2>1, SubSeqProperties
<1>3. SubSeq(b, 1, n) \in Seq(S) /\ SubSeq(b, n + 1, l) \in Seq(S)
  BY <1>1, <1>2
<1>4. 1 \in 1..(Len(b) + 1) /\ n \in (1 - 1)..Len(b) /\ l \in n..Len(b)
  BY <1>1
<1>5. SubSeq(b, 1, n) \o SubSeq(b, n + 1, l) = SubSeq(b, 1, l)
  <2> HIDE DEF l
  <2> QED
    BY <1>1, <1>4, ConcatAdjacentSubSeq
<1>6. SubSeq(b, 1, l) = b
  BY <1>1, SubSeqFull
<1> QED
  BY <1>3, <1>5, <1>6 DEF S

KeepsFiles == /\ Len(files') <= Len(files)
              /\ \A i \in 1..Len(files') : files'[i] = files[i]
KeepsOpen  == \A i \in 1..Len(files) : Opened(i) => i <= Len(files')

LEMMA UnlinkEffect ==
    ASSUME FilesOK, linked, Unlink
    PROVE  FilesOK' /\ ~linked' /\ KeepsFiles /\ KeepsOpen
<1>1. Len(files) \in Nat \ {0} /\ Len(files) <= MaxFiles /\ MaxFiles \in Nat
  BY EmptySeq, EnvironmentAssumption DEF FilesOK
<1>2. CASE Opened(Len(files))
  <2>1. UNCHANGED files /\ linked' = FALSE /\ Len(files) < MaxFiles
    BY <1>2 DEF Unlink
  <2>2. FilesOK'
    BY <2>1 DEF FilesOK
  <2>3. KeepsFiles /\ KeepsOpen
    BY <1>1, <2>1 DEF KeepsFiles, KeepsOpen
  <2> QED
    BY <2>1, <2>2, <2>3
<1>3. CASE ~Opened(Len(files))
  <2> DEFINE n == Len(files) - 1
  <2>1. files' = SubSeq(files, 1, n) /\ linked' = FALSE
    BY <1>3 DEF Unlink
  <2>2. n \in Nat /\ n < Len(files)
    BY <1>1
  <2>3. \A i \in 1..n : files[i] \in Seq(1..Size)
    BY <1>1, <2>2, FilesTypes
  <2>4. /\ files' \in Seq(Seq(1..Size)) /\ Len(files') = n
        /\ \A i \in 1..n : files'[i] = files[i]
    <3>1. /\ files' \in Seq(Seq(1..Size))
          /\ Len(files') = IF 1 <= n THEN n - 1 + 1 ELSE 0
          /\ \A i \in 1..(n - 1 + 1) : files'[i] = files[1 + i - 1]
      BY <2>1, <2>2, <2>3, SubSeqProperties
    <3> HIDE DEF n
    <3> QED
      BY <2>2, <3>1
  <2>5. ASSUME NEW i \in 1..Len(files), Opened(i) PROVE i <= n
    BY <1>1, <1>3, <2>5
  <2> HIDE DEF n
  <2>6. n < MaxFiles
    BY <1>1, <2>2
  <2>7. FilesOK'
    <3>1. linked' = FALSE
      BY <2>1
    <3>2. Len(files') < MaxFiles /\ Len(files') <= MaxFiles
      BY <1>1, <2>2, <2>4, <2>6
    <3> QED
      BY <2>4, <3>1, <3>2 DEF FilesOK
  <2>8. KeepsFiles
    BY <1>1, <2>2, <2>4 DEF KeepsFiles
  <2>9. KeepsOpen
    BY <2>4, <2>5 DEF KeepsOpen
  <2> QED
    BY <2>1, <2>7, <2>8, <2>9
<1> QED
  BY <1>2, <1>3

LEMMA SameFiles ==
    ASSUME FilesOK, UNCHANGED <<files, linked>>
    PROVE  FilesOK' /\ KeepsFiles /\ KeepsOpen
BY FilesTypes DEF FilesOK, KeepsFiles, KeepsOpen

LEMMA PersistEffect ==
    ASSUME FilesOK, PersistCacheState
    PROVE  /\ FilesOK' /\ KeepsFiles /\ KeepsOpen
           /\ UNCHANGED <<files, linked>> \/ (linked /\ ~IsCached /\ ~linked')
           /\ cfs' = IF IsCached THEN KnownSize ELSE cfs
BY UnlinkEffect, SameFiles DEF PersistCacheState

LEMMA AppendedEffect ==
    ASSUME FilesOK, UNCHANGED linked,
           NEW i \in 1..Len(files), NEW bs \in Seq(1..Size),
           files' = [files EXCEPT ![i] = @ \o bs]
    PROVE  /\ FilesOK' /\ Len(files') = Len(files)
           /\ files'[i] = files[i] \o bs
           /\ \A k \in 1..Len(files) : k # i => files'[k] = files[k]
<1>1. files \in Seq(Seq(1..Size)) /\ files[i] \in Seq(1..Size)
  BY FilesTypes DEF FilesOK
<1>2. files[i] \o bs \in Seq(1..Size)
  BY <1>1, ConcatProperties
<1>3. /\ files' \in Seq(Seq(1..Size)) /\ Len(files') = Len(files)
      /\ \A k \in 1..Len(files) : files'[k] = IF k = i THEN files[i] \o bs ELSE files[k]
  BY <1>1, <1>2, ExceptSeq
<1>4. linked => files' # <<>>
  <2>1. Len(files') \in Nat \ {0}
    BY <1>3, FilesTypes
  <2> QED
    BY <2>1, EmptySeq
<1> QED
  BY <1>3, <1>4 DEF FilesOK

\* The job opens the file, and creates it if it is not there.
OpenStep(j) ==
    /\ OpenFile(j)
    /\ linked' = TRUE
    /\ files' = IF linked THEN files ELSE Append(files, <<>>)
    /\ Len(files') = IF linked THEN Len(files) ELSE Len(files) + 1
    /\ \A i \in 1..Len(files) : files'[i] = files[i]
    /\ ~linked => files'[Len(files')] = <<>>

\* Blocks go to the file: some with a further one, or at the end some of them or
\* all.
GrowStep(j) ==
    /\ job[j].inode # 0 /\ job[j].pc # "paused"
    /\ UNCHANGED linked
    /\ \E bs \in Seq(1..Size) :
          /\ files' = Appended(j, bs)
          /\ \/ /\ WriteBlock(j)
                /\ bs \o job'[j].buffer = job[j].buffer \o <<job[j].size_written + 1>>
                /\ job'[j].size_written = job[j].size_written + 1
                /\ job'[j].inode = job[j].inode
             \/ /\ \E d \in Seq(1..Size) : bs \o d = job[j].buffer
                /\ job'[j].inode = 0 \/ job'[j].pc = "paused"

LEMMA OpenEffect ==
    ASSUME FilesOK, NEW j \in Jobs, OpenFile(j)
    PROVE  OpenStep(j) /\ FilesOK'
<1>1. linked' = TRUE /\ files' = IF linked THEN files ELSE Append(files, <<>>)
  BY DEF OpenFile
<1>2. CASE linked
  BY <1>1, <1>2, FilesTypes DEF FilesOK, OpenStep
<1>3. CASE ~linked
  <2>1. <<>> \in Seq(1..Size) /\ files \in Seq(Seq(1..Size)) /\ Len(files) \in Nat
    BY EmptySeq, FilesTypes DEF FilesOK
  <2>2. /\ files' \in Seq(Seq(1..Size)) /\ files' # <<>>
        /\ Len(files') = Len(files) + 1
        /\ \A i \in 1..Len(files) : files'[i] = files[i]
        /\ files'[Len(files) + 1] = <<>>
    BY <1>1, <1>3, <2>1, AppendProperties
  <2>3. Len(files') <= MaxFiles
    BY <1>3, <2>1, <2>2, EnvironmentAssumption DEF FilesOK
  <2> QED
    BY <1>1, <1>3, <2>2, <2>3 DEF FilesOK, OpenStep
<1> QED
  BY <1>2, <1>3

LEMMA DownloadFiles ==
    ASSUME FilesOK, JobsOK, InodesInv, NEW j \in Jobs, Download(j)
    PROVE  /\ FilesOK' /\ (UNCHANGED <<files, linked>> \/ OpenStep(j) \/ GrowStep(j))
           /\ WriteBlock(j) \/ WriteFails(j) => GrowStep(j)
<1>1. /\ job[j] \in JobRecords /\ JobOK(job[j]) /\ job \in [Jobs -> JobRecords]
      /\ job[j].inode <= Len(files) /\ Len(files) \in Nat
  BY FilesTypes DEF JobsOK, InodesInv
<1>2. job[j].inode \in Nat /\ job[j].buffer \in Seq(1..Size) /\ job[j].size_written \in Nat
  BY <1>1 DEF JobRecords
<1>3. GrowStep(j) => FilesOK'
  <2> SUFFICES ASSUME GrowStep(j) PROVE FilesOK'
    OBVIOUS
  <2>1. job[j].inode \in 1..Len(files)
    BY <1>1, <1>2 DEF GrowStep
  <2>2. PICK bs \in Seq(1..Size) : files' = [files EXCEPT ![job[j].inode] = @ \o bs]
    BY DEF GrowStep, Appended
  <2>3. UNCHANGED linked
    BY DEF GrowStep
  <2> QED
    BY <2>1, <2>2, <2>3, AppendedEffect
<1>4. ASSUME WriteBlock(j) PROVE GrowStep(j)
  <2> DEFINE n == job[j].size_written + 1
  <2>1. n \in 1..Size
    BY <1>2, <1>4, SizeAssumption DEF WriteBlock
  <2>2. <<n>> \in Seq(1..Size)
    BY <2>1
  <2>3. PICK s \in BufferStates(job[j].buffer, <<job[j].size_written + 1>>) :
          /\ Running(j, "body", [job[j] EXCEPT !.size_written = @ + 1, !.buffer = s[2]])
          /\ files' = Appended(j, s[1])
    BY <1>4 DEF WriteBlock
  <2>4. s[1] \in Seq(1..Size) /\ s[1] \o s[2] = job[j].buffer \o <<n>>
    BY <1>2, <2>2, <2>3, BufferKeeps
  <2>5. job[j].pc = "body" /\ UNCHANGED linked
    BY <1>4 DEF WriteBlock, Running
  <2>6. job[j].inode # 0
    BY <1>1, <2>5 DEF JobOK
  <2>7. /\ job'[j].buffer = s[2] /\ job'[j].size_written = n
        /\ job'[j].inode = job[j].inode
    BY <1>1, <2>3 DEF JobRecords, Running
  <2>8. s[1] \o job'[j].buffer = job[j].buffer \o <<n>>
    BY <2>4, <2>7
  <2> HIDE DEF n
  <2> QED
    BY <1>4, <2>3, <2>4, <2>5, <2>6, <2>7, <2>8 DEF GrowStep, n
\* What is left of the buffer goes to the file, or a part of it.
<1>5. ASSUME NEW n \in 0..Len(job[j].buffer), files' = FlushedUpTo(j, n), UNCHANGED linked,
             job[j].inode # 0, job[j].pc # "paused", job'[j].inode = 0 \/ job'[j].pc = "paused"
      PROVE  GrowStep(j)
  <2> DEFINE bs == SubSeq(job[j].buffer, 1, n)
  <2>1. bs \in Seq(1..Size) /\ \E d \in Seq(1..Size) : bs \o d = job[j].buffer
    BY <1>2, BufferPieces
  <2>2. files' = Appended(j, bs)
    BY <1>5 DEF FlushedUpTo
  <2> HIDE DEF bs
  <2> QED
    BY <1>5, <2>1, <2>2 DEF GrowStep
<1>6. ASSUME WriteFails(j) PROVE GrowStep(j)
  <2> DEFINE s == [job[j] EXCEPT !.pc = "paused", !.size_written = @ + 1, !.buffer = <<>>]
  <2>1. Running(j, "body", s) /\ UNCHANGED linked
    BY <1>6 DEF WriteFails
  <2>2. s.pc = "paused"
    BY <1>1 DEF JobRecords
  <2> HIDE DEF s
  <2>3. job[j].pc = "body" /\ job'[j].pc = "paused" /\ job[j].inode # 0
    BY <1>1, <2>1, <2>2 DEF Running, JobOK
  <2> QED
    BY <1>5, <1>6, <2>1, <2>3 DEF WriteFails
<1>7. ASSUME TryNext(j) \/ Release(j)
      PROVE  FilesOK' /\ (UNCHANGED <<files, linked>> \/ OpenStep(j) \/ GrowStep(j))
  <2>1. Flush(j) /\ UNCHANGED linked /\ job[j].pc # "paused"
    BY <1>7 DEF TryNext, Release, Running
  <2>2. job'[j].inode = 0
    <3>1. CASE TryNext(j)
      <4> DEFINE s == [NoJob EXCEPT !.pc = "open", !.left = job[j].left - 1]
      <4>1. job' = [job EXCEPT ![j] = s]
        BY <3>1 DEF TryNext, Running
      <4>2. s.inode = 0
        BY DEF NoJob
      <4> HIDE DEF s
      <4> QED
        BY <1>1, <4>1, <4>2
    <3>2. CASE Release(j)
      BY <1>1, <3>2 DEF Release, Running, NoJob
    <3> QED
      BY <1>7, <3>1, <3>2
  <2>3. CASE job[j].inode = 0
    BY <2>1, <2>3, SameFiles DEF Flush
  <2>4. CASE job[j].inode # 0
    <3>1. PICK n \in 0..Len(job[j].buffer) : files' = FlushedUpTo(j, n)
      <4>1. Len(job[j].buffer) \in 0..Len(job[j].buffer)
        BY <1>2, LenProperties
      <4> QED
        BY <2>1, <2>4, <4>1 DEF Flush
    <3>2. GrowStep(j)
      BY <1>5, <2>1, <2>2, <2>4, <3>1
    <3> QED
      BY <1>3, <3>2
  <2> QED
    BY <2>3, <2>4
<1>8. ASSUME OpenFile(j)
      PROVE  FilesOK' /\ (UNCHANGED <<files, linked>> \/ OpenStep(j) \/ GrowStep(j))
  BY <1>8, OpenEffect
<1>9. ASSUME UNCHANGED <<files, linked>>
      PROVE  FilesOK' /\ (UNCHANGED <<files, linked>> \/ OpenStep(j) \/ GrowStep(j))
  BY <1>9, SameFiles
<1>10. FilesOK' /\ (UNCHANGED <<files, linked>> \/ OpenStep(j) \/ GrowStep(j))
  BY <1>3, <1>4, <1>7, <1>8, <1>9, <1>6 DEF Download, OpenFails, HeaderAccepted, WriteCfs, Ends,
     RangeNotSatisfiable, Unavailable, TransferFails, TransferCompletes, LeaveLoop, RemoveOrder
<1> QED
  BY <1>4, <1>10, <1>6

-----------------------------------------------------------------------------
(* The clients. *)

LEMMA NoClientOK == NoClient \in ClientRecords /\ NoClient.pc = "idle" /\ NoClient.source = 0
<1>1. <<>> \in Seq(1..Size) /\ 0 \in 0..Size
  BY EmptySeq, SizeAssumption
<1>2. (CHOOSE j \in Jobs : TRUE) \in Jobs
  BY JobsAssumption
<1> DEFINE any == CHOOSE j \in Jobs : TRUE
<1>3. NoClient = [pc |-> "idle", job |-> any, resume_from |-> 0,
                  promised |-> 0, source |-> 0, received |-> <<>>]
  BY DEF NoClient
<1> HIDE DEF any
<1> QED
  BY <1>1, <1>2, <1>3 DEF any, ClientRecords

\* The rest of what a file has at this moment.
LEMMA RestOfSequence ==
    ASSUME NEW f \in Seq(1..Size), NEW r \in Nat
    PROVE  /\ SubSeq(f, r + 1, Len(f)) \in Seq(1..Size)
           /\ Len(SubSeq(f, r + 1, Len(f))) = IF r < Len(f) THEN Len(f) - r ELSE 0
           /\ \A i \in 1..(Len(f) - r) : SubSeq(f, r + 1, Len(f))[i] = f[r + i]
<1> DEFINE n == Len(f)
           m == r + 1
<1>1. n \in Nat /\ m \in Int
  BY LenProperties
<1>2. ASSUME NEW i \in m..n PROVE f[i] \in 1..Size
  <2>1. i \in 1..Len(f)
    BY <1>1, <1>2
  <2> QED
    BY <2>1, ElementOfSeq
<1> HIDE DEF n, m
<1>3. /\ SubSeq(f, m, n) \in Seq(1..Size)
      /\ Len(SubSeq(f, m, n)) = IF m <= n THEN n - m + 1 ELSE 0
      /\ \A i \in 1..(n - m + 1) : SubSeq(f, m, n)[i] = f[m + i - 1]
  BY <1>1, <1>2, SubSeqProperties
<1>4. (m <= n <=> r < n) /\ n - m + 1 = n - r /\ \A i \in 1..(n - r) : m + i - 1 = r + i
  BY <1>1 DEF m
<1> QED
  BY <1>3, <1>4 DEF m, n

\* A step of a client's thread, as far as its own state goes.
ClientStep(c) ==
    /\ client' \in [Clients -> ClientRecords]
    /\ \A d \in Clients \ {c} : client'[d] = client[d]
    /\ client'[c].pc = "streaming" => client'[c].source # 0
    /\ client'[c].source \in {0, client[c].source} \cup (IF linked THEN {Len(files)} ELSE {})

\* The messages of nobody else are touched.
MailboxStep(c) ==
    \/ UNCHANGED mailbox
    \/ mailbox' = [mailbox EXCEPT ![client[c].job] = <<Dropped>>]

ServeStep(c) ==
    /\ ClientStep(c) /\ MailboxStep(c)
    /\ UNCHANGED <<diskVars, in_progress, purging, crashes, job>>

LEMMA ClientStepOf ==
    ASSUME ClientsOK, NEW c \in Clients, NEW s \in ClientRecords, NEW here,
           Serving(c, here, s), MailboxStep(c),
           s.pc = "streaming" => s.source # 0,
           s.source \in {0, client[c].source} \cup (IF linked THEN {Len(files)} ELSE {})
    PROVE  ServeStep(c)
<1>1. /\ client \in [Clients -> ClientRecords] /\ client' = [client EXCEPT ![c] = s]
      /\ UNCHANGED <<diskVars, in_progress, purging, crashes, job>>
  BY DEF Serving, ClientsOK
<1>2. /\ client' \in [Clients -> ClientRecords] /\ client'[c] = s
      /\ \A d \in Clients \ {c} : client'[d] = client[d]
  BY <1>1
<1> QED
  BY <1>1, <1>2 DEF ServeStep, ClientStep

LEMMA MessageType ==
    ASSUME MailboxOK, NEW j \in Jobs, mailbox[j] # <<>>
    PROVE  /\ mailbox[j][1] \in MessagesUpTo(Nat) /\ mailbox[j][1].size \in Nat
           /\ mailbox[j] = <<mailbox[j][1]>>
<1>1. PICK m \in MessagesUpTo(Nat) : mailbox[j] = <<m>>
  BY DEF MailboxOK
<1>2. m.size \in Nat
  BY DEF MessagesUpTo
<1> QED
  BY <1>1, <1>2

\* receive_content_length has got the message that it looks at.
LEMMA Received ==
    ASSUME MailboxOK, ClientsOK, NEW c \in Clients, NEW kinds, Receive(c, kinds)
    PROVE  /\ mailbox[client[c].job] # <<>> /\ mailbox[client[c].job][1].size \in Nat
           /\ mailbox[client[c].job][1].kind \in kinds
           /\ MailboxStep(c)
<1>1. client[c].job \in Jobs
  BY DEF ClientsOK, ClientRecords
<1>2. mailbox[client[c].job] # <<>>
  BY DEF Receive
<1>3. PICK m \in MessagesUpTo(Nat) : mailbox[client[c].job] = <<m>>
  BY <1>1, <1>2 DEF MailboxOK
<1>4. m.kind \in kinds
  BY <1>3 DEF Receive
<1> QED
  BY <1>1, <1>2, <1>3, <1>4, MessageType DEF Receive, MailboxStep

LEMMA ServeSteps ==
    ASSUME FilesOK, MailboxOK, ClientsOK, RestOK, InodesInv, NEW c \in Clients,
           Serve(c) \/ ClientCloses(c)
    PROVE  ServeStep(c)
<1>1. client[c] \in ClientRecords /\ (client[c].pc = "streaming" => client[c].source # 0)
  BY DEF ClientsOK
<1>2. /\ client[c].job \in Jobs /\ client[c].resume_from \in 0..Size
      /\ client[c].resume_from \in Nat /\ client[c].received \in Seq(1..Size)
      /\ client[c].source \in Nat /\ NoClient.job \in Jobs
  BY <1>1, NoClientOK, SizeAssumption DEF ClientRecords
<1>3. linked => /\ Len(files) \in 1..Len(files)
                /\ files[Len(files)] \in Seq(1..Size) /\ OnDisk \in Nat
  <2>1. linked => Len(files) \in Nat \ {0}
    BY EmptySeq DEF FilesOK
  <2> QED
    BY <2>1, FilesTypes DEF OnDisk
<1>4. ASSUME NEW here, Serving(c, here, Rejected), MailboxStep(c) PROVE ServeStep(c)
  <2>1. Rejected \in ClientRecords /\ Rejected.pc = "idle" /\ Rejected.source = 0
    BY NoClientOK DEF Rejected
  <2> QED
    BY <1>4, <2>1, ClientStepOf
<1>5. CASE ReceiveRejection(c)
  BY <1>4, <1>5, Received DEF ReceiveRejection
<1>6. CASE ReceiveNothing(c)
  BY <1>4, <1>6 DEF ReceiveNothing, MailboxStep
<1>7. CASE CfsTimeout(c) \/ OpenFailsForClient(c) \/ StreamStalls(c) \/ ClientCloses(c)
  BY <1>4, <1>7 DEF CfsTimeout, OpenFailsForClient, StreamStalls, ClientCloses, MailboxStep
<1>8. ASSUME NEW n \in Nat PROVE Promised(c, n) \in Nat
  BY <1>2, <1>8 DEF Promised
<1>9. CASE ReceiveJobSize(c)
  <2> DEFINE p == Promised(c, mailbox[client[c].job][1].size)
             s == [client[c] EXCEPT !.pc = "open_growing", !.job = NoClient.job, !.promised = p]
  <2>1. Serving(c, "await_size", s) /\ Receive(c, {"JobSize"})
    BY <1>9 DEF ReceiveJobSize
  <2>2. MailboxStep(c) /\ p \in Nat
    BY <1>8, <2>1, Received
  <2>3. s \in ClientRecords /\ s.pc = "open_growing" /\ s.source = client[c].source
    BY <1>1, <1>2, <2>2 DEF ClientRecords
  <2> HIDE DEF s
  <2> QED
    BY <2>1, <2>2, <2>3, ClientStepOf
<1>10. CASE ReceiveCompleted(c)
  <2> DEFINE s == [client[c] EXCEPT !.pc = "open_complete", !.job = NoClient.job]
  <2>1. Serving(c, "await_size", s) /\ MailboxStep(c)
    BY <1>10, Received DEF ReceiveCompleted
  <2>2. s \in ClientRecords /\ s.pc = "open_complete" /\ s.source = client[c].source
    BY <1>1, <1>2 DEF ClientRecords
  <2> HIDE DEF s
  <2> QED
    BY <2>1, <2>2, ClientStepOf
<1>11. CASE ReadCfs(c)
  <2> DEFINE s == [client[c] EXCEPT !.pc = "open_growing", !.promised = Promised(c, cfs)]
  <2>1. Serving(c, "await_cfs", s) /\ MailboxStep(c)
    BY <1>11 DEF ReadCfs, MailboxStep
  <2>2. Promised(c, cfs) \in Nat
    <3>1. cfs \in Nat
      BY <1>11 DEF ReadCfs, RestOK, Missing, Torn
    <3> QED
      BY <1>8, <3>1
  <2>3. s \in ClientRecords /\ s.pc = "open_growing" /\ s.source = client[c].source
    BY <1>1, <2>2 DEF ClientRecords
  <2> HIDE DEF s
  <2> QED
    BY <2>1, <2>3, ClientStepOf
<1>12. CASE OpenGrowing(c)
  <2> DEFINE s == [client[c] EXCEPT !.pc = "streaming", !.source = Len(files)]
  <2>1. Serving(c, "open_growing", s) /\ MailboxStep(c) /\ linked
    BY <1>12 DEF OpenGrowing, MailboxStep
  <2>2. Len(files) \in Nat \ {0}
    BY <1>3, <2>1, FilesTypes
  <2>3. s \in ClientRecords /\ s.pc = "streaming" /\ s.source = Len(files)
    BY <1>1, <2>2 DEF ClientRecords
  <2> HIDE DEF s
  <2> QED
    BY <2>1, <2>2, <2>3, ClientStepOf
<1>13. CASE ServeComplete(c)
  <2> DEFINE f == files[Len(files)]
             p == SubSeq(f, client[c].resume_from + 1, OnDisk)
             s == [client[c] EXCEPT !.pc = "served", !.promised = OnDisk, !.received = p]
  <2>1. Serving(c, "open_complete", s) /\ MailboxStep(c) /\ linked
    BY <1>13 DEF ServeComplete, MailboxStep
  <2>2. p \in Seq(1..Size)
    BY <1>2, <1>3, <2>1, RestOfSequence DEF OnDisk
  <2> HIDE DEF p
  <2>3. s \in ClientRecords /\ s.pc = "served" /\ s.source = client[c].source
    BY <1>1, <1>3, <2>1, <2>2 DEF ClientRecords
  <2> HIDE DEF s
  <2> QED
    BY <2>1, <2>3, ClientStepOf
<1>14. CASE SendGrown(c)
  <2> DEFINE f == files[client[c].source]
             p == SubSeq(f, Offset(c) + 1, SourceLen(c))
             q == client[c].received \o p
             s == [client[c] EXCEPT !.received = q]
  <2>1. Serving(c, "streaming", s) /\ MailboxStep(c) /\ client[c].pc = "streaming"
    BY <1>14 DEF SendGrown, MailboxStep
  <2>2. f \in Seq(1..Size)
    BY <1>1, <1>2, <2>1, FilesTypes DEF InodesInv
  <2>3. Offset(c) \in Nat
    BY <1>2, LenProperties DEF Offset
  <2>4. p \in Seq(1..Size)
    BY <2>2, <2>3, RestOfSequence DEF SourceLen
  <2> HIDE DEF p
  <2>5. q \in Seq(1..Size)
    BY <1>2, <2>4, ConcatProperties
  <2> HIDE DEF q
  <2>6. s \in ClientRecords /\ s.pc = "streaming" /\ s.source = client[c].source
    BY <1>1, <2>1, <2>5 DEF ClientRecords
  <2> HIDE DEF s
  <2> QED
    BY <1>1, <2>1, <2>6, ClientStepOf
<1>15. CASE StreamEnds(c)
  <2> DEFINE s == [client[c] EXCEPT !.pc = "served", !.source = 0]
  <2>1. Serving(c, "streaming", s) /\ MailboxStep(c)
    BY <1>15 DEF StreamEnds, MailboxStep
  <2>2. s \in ClientRecords /\ s.pc = "served" /\ s.source = 0
    BY <1>1 DEF ClientRecords
  <2> HIDE DEF s
  <2> QED
    BY <2>1, <2>2, ClientStepOf
<1> QED
  BY <1>5, <1>6, <1>7, <1>9, <1>10, <1>11, <1>12, <1>13, <1>14, <1>15 DEF Serve

\* A request, whatever try_schedule answers.
LEMMA RequestSteps ==
    ASSUME ClientsOK, NEW c \in Clients, Request(c)
    PROVE  /\ ClientStep(c) /\ client'[c].source = 0 /\ client'[c].received = <<>>
           /\ client'[c].promised = 0
           /\ client'[c].pc \in {"idle", "open_complete", "await_size", "await_cfs"}
           /\ client'[c].pc = "open_complete" =>
                 PersistCacheState /\ ~in_progress /\ IsCached /\ KnownSize = OnDisk
           /\ UNCHANGED <<purging, crashes>>
           /\ \/ PersistCacheState /\ ~in_progress
              \/ UNCHANGED diskVars
           /\ \/ UNCHANGED <<in_progress, job, mailbox>>
              \/ /\ ~in_progress /\ in_progress' = TRUE
                 /\ \E j \in Jobs :
                      /\ job[j].pc = "ended"
                      /\ job' = [job EXCEPT ![j] = [NoJob EXCEPT !.pc = "open", !.left = NumMirrors]]
                      /\ mailbox' = [mailbox EXCEPT ![j] = <<>>]
<1> PICK r \in 0..Size : \/ RequestRedirected(c, r) \/ RequestCached(c, r)
                         \/ \E j \in Jobs : RequestScheduled(c, r, j)
                         \/ RequestInProgress(c, r)
  BY DEF Request
<1> DEFINE Goal == /\ ClientStep(c) /\ client'[c].source = 0 /\ client'[c].received = <<>>
                   /\ client'[c].promised = 0
                   /\ client'[c].pc \in {"idle", "open_complete", "await_size", "await_cfs"}
<1>1. client \in [Clients -> ClientRecords]
  BY DEF ClientsOK
<1>2. ASSUME NEW s \in ClientRecords, client' = [client EXCEPT ![c] = s],
             s.pc \in {"idle", "open_complete", "await_size", "await_cfs"},
             s.source = 0, s.received = <<>>, s.promised = 0
      PROVE  Goal
  BY <1>1, <1>2 DEF ClientStep
<1>3. ASSUME NEW q \in 0..Size,
             NEW there \in {"idle", "open_complete", "await_cfs"}, Begin(c, q, there)
      PROVE  Goal /\ client'[c].pc = there /\ UNCHANGED <<purging, crashes>>
  <2> DEFINE s == [NoClient EXCEPT !.pc = there, !.resume_from = q]
  <2>1. client' = [client EXCEPT ![c] = s]
    BY <1>3 DEF Begin
  <2>2. s \in ClientRecords
    BY NoClientOK DEF ClientRecords
  <2>3. s.pc = there /\ s.source = 0 /\ s.received = <<>> /\ s.promised = 0
    BY DEF NoClient
  <2> HIDE DEF s
  <2>4. Goal
    BY <1>2, <2>1, <2>2, <2>3
  <2>5. client'[c].pc = there
    BY <1>1, <2>1, <2>2, <2>3
  <2> QED
    BY <1>3, <2>4, <2>5 DEF Begin
<1>4. ASSUME NEW j \in Jobs, RequestScheduled(c, r, j)
      PROVE  Goal /\ client'[c].pc = "await_size"
  <2> DEFINE s == [NoClient EXCEPT !.pc = "await_size", !.resume_from = r, !.job = j]
  <2>1. client' = [client EXCEPT ![c] = s]
    BY <1>4 DEF RequestScheduled
  <2>2. s \in ClientRecords
    BY NoClientOK DEF ClientRecords
  <2>3. s.pc = "await_size" /\ s.source = 0 /\ s.received = <<>> /\ s.promised = 0
    BY DEF NoClient
  <2> HIDE DEF s
  <2> QED
    BY <1>1, <1>2, <2>1, <2>2, <2>3
<1> HIDE DEF Goal
<1>5. CASE RequestRedirected(c, r)
  <2>1. 0 \in 0..Size
    BY SizeAssumption
  <2> QED
    BY <1>3, <1>5, <2>1 DEF RequestRedirected, Goal
<1>6. CASE RequestCached(c, r)
  BY <1>3, <1>6 DEF RequestCached, Cached, Goal
<1>7. CASE RequestInProgress(c, r)
  BY <1>3, <1>7 DEF RequestInProgress, Goal
<1>8. CASE \E j \in Jobs : RequestScheduled(c, r, j)
  <2> PICK j \in Jobs : RequestScheduled(c, r, j)
    BY <1>8
  <2> QED
    BY <1>4 DEF RequestScheduled, Goal
<1> QED
  BY <1>5, <1>6, <1>7, <1>8

-----------------------------------------------------------------------------
(* The types, whoever writes to the file. *)

LEMMA SendEffect ==
    ASSUME MailboxOK, NEW j \in Jobs, NEW m \in MessagesUpTo(Nat), Send(j, m)
    PROVE  /\ MailboxOK'
           /\ \A i \in Jobs \ {j} : mailbox'[i] = mailbox[i]
           /\ mailbox'[j] = IF mailbox[j] = <<>> THEN <<m>> ELSE mailbox[j]
BY DEF MailboxOK, Send

\* The messages of a step of a job thread.
MailsStep(j) ==
    /\ UNCHANGED mailbox \/ \E m \in MessagesUpTo(Nat) :
          /\ Send(j, m)
          /\ m.kind = "Progress" => job[j].pc = "body"
          /\ m.kind = "JobSize" => job[j].pc = "cfs" /\ m.size = job[j].length
          /\ m.kind = "Completed" => RangeNotSatisfiable(j)
          /\ m.kind # "JobSize" => m.size = 0
    /\ job'[j].pc = "body" => job[j].pc = "body" \/ mailbox'[j] # <<>>

\* The CFS file in a step of a job thread.
CfsStep(j) ==
    \/ /\ UNCHANGED cfs
       /\ job[j].pc # "cfs" /\ job'[j].pc # "cfs"
       /\ job'[j].pc = "request" => OpenFile(j)
       /\ job'[j].pc = "body" => job[j].pc = "body" /\ job'[j].length = job[j].length
    \/ /\ job[j].pc = "request" /\ job'[j].pc = "cfs"
       /\ cfs' = Torn
       /\ \E cl \in ContentLengths(j) : job'[j].length = job[j].size_written + cl
    \/ /\ job[j].pc = "cfs" /\ job'[j].pc = "body" /\ job'[j].length = job[j].length
       /\ cfs' = IF cfs = Missing THEN Missing ELSE job[j].length

LEMMA DownloadMails ==
    ASSUME FilesOK, JobsOK, MailboxOK, NEW j \in Jobs, Download(j)
    PROVE  MailsStep(j) /\ CfsStep(j)
<1>1. /\ job \in [Jobs -> JobRecords] /\ job[j] \in JobRecords
      /\ job[j].length \in Nat
  BY DEF JobsOK, JobRecords
<1>2. ASSUME NEW k \in {"JobSize", "Progress", "Completed", "Unavailable", "OrderError", "Dropped"},
             NEW n \in Nat
      PROVE  /\ Message(k, n) \in MessagesUpTo(Nat)
             /\ Message(k, n).kind = k /\ Message(k, n).size = n
  BY DEF Message, MessagesUpTo
\* Whoever goes elsewhere than to the CFS file and the body.
<1>3. ASSUME job[j].pc # "cfs", job'[j].pc \notin {"cfs", "body"}, UNCHANGED cfs,
             job'[j].pc = "request" => OpenFile(j),
             \/ UNCHANGED mailbox
             \/ \E k \in {"Unavailable", "OrderError"} : Send(j, Message(k, 0))
             \/ RangeNotSatisfiable(j) /\ Send(j, Message("Completed", 0))
      PROVE  MailsStep(j) /\ CfsStep(j)
  BY <1>2, <1>3 DEF MailsStep, CfsStep
<1>4. ASSUME NEW s, NEW here, Running(j, here, s) PROVE job'[j] = s /\ job[j].pc = here
  BY <1>1, <1>4 DEF Running
<1>5. CASE OpenFile(j)
  <2> DEFINE s == [job[j] EXCEPT !.pc = "request", !.inode = Len(files'),
                     !.size_written = AlreadyWritten(files'[Len(files')])]
  <2>1. s.pc = "request"
    BY <1>1 DEF JobRecords
  <2>2. Running(j, "open", s) /\ UNCHANGED <<cfs, mailbox>>
    BY <1>5 DEF OpenFile
  <2> HIDE DEF s
  <2> QED
    BY <1>3, <1>4, <1>5, <2>1, <2>2
<1>6. CASE OpenFails(j)
  <2>1. job[j].pc = "open" /\ job'[j].pc = "remove"
    BY <1>1, <1>6 DEF OpenFails, Running, JobRecords
  <2> QED
    BY <1>3, <1>6, <2>1 DEF OpenFails
<1>7. CASE HeaderAccepted(j)
  <2>1. PICK cl \in ContentLengths(j) :
          Running(j, "request", [job[j] EXCEPT !.pc = "cfs", !.length = job[j].size_written + cl])
    BY <1>7 DEF HeaderAccepted
  <2> DEFINE s == [job[j] EXCEPT !.pc = "cfs", !.length = job[j].size_written + cl]
  <2>2. s.pc = "cfs" /\ s.length = job[j].size_written + cl
    BY <1>1 DEF JobRecords
  <2>3. Running(j, "request", s) /\ cfs' = Torn /\ UNCHANGED mailbox
    BY <1>7, <2>1 DEF HeaderAccepted
  <2> HIDE DEF s
  <2>4. job[j].pc = "request" /\ job'[j] = s
    BY <1>4, <2>3 DEF Running
  <2> QED
    BY <2>1, <2>2, <2>3, <2>4 DEF MailsStep, CfsStep
<1>8. CASE WriteCfs(j)
  <2>1. /\ job[j].pc = "cfs" /\ Send(j, Message("JobSize", job[j].length))
        /\ cfs' = IF cfs = Missing THEN Missing ELSE job[j].length
    BY <1>8 DEF WriteCfs, Running, Announce, ClientContentLength
  <2> DEFINE m == Message("JobSize", job[j].length)
  <2>2. m \in MessagesUpTo(Nat) /\ m.kind = "JobSize" /\ m.size = job[j].length
    BY <1>1, <1>2
  <2> HIDE DEF m
  <2>3. Send(j, m)
    BY <2>1 DEF m
  <2>4. mailbox'[j] # <<>>
    <3>1. mailbox'[j] = IF mailbox[j] = <<>> THEN <<m>> ELSE mailbox[j]
      BY <2>2, <2>3, SendEffect
    <3> QED
      BY <3>1
  <2>5. job'[j].pc = "body" /\ job'[j].length = job[j].length
    BY <1>1, <1>8 DEF WriteCfs, Running, JobRecords
  <2> QED
    BY <2>1, <2>2, <2>3, <2>4, <2>5 DEF MailsStep, CfsStep
<1>9. ASSUME NEW here \in {"request", "body"}, NEW r, Ends(j, here, r)
      PROVE  job[j].pc # "cfs" /\ job'[j].pc = "settle" /\ UNCHANGED cfs
  BY <1>1, <1>9 DEF Ends, Running, JobRecords
<1>10. CASE RangeNotSatisfiable(j) \/ Unavailable(j) \/ TransferFails(j) \/ TransferCompletes(j)
  <2>1. job[j].pc # "cfs" /\ job'[j].pc = "settle" /\ UNCHANGED cfs
    BY <1>9, <1>10 DEF RangeNotSatisfiable, Unavailable, TransferFails, TransferCompletes
  <2>2. \/ UNCHANGED mailbox \/ Send(j, Message("Unavailable", 0))
        \/ RangeNotSatisfiable(j) /\ Send(j, Message("Completed", 0))
    BY <1>10 DEF RangeNotSatisfiable, Unavailable, TransferFails, TransferCompletes
  <2> QED
    BY <1>3, <2>1, <2>2
<1>11. CASE WriteBlock(j)
  <2>1. PICK b \in BufferStates(job[j].buffer, <<job[j].size_written + 1>>) :
          Running(j, "body", [job[j] EXCEPT !.size_written = @ + 1, !.buffer = b[2]])
    BY <1>11 DEF WriteBlock
  <2>2. job[j].pc = "body" /\ job'[j].pc = "body" /\ job'[j].length = job[j].length
    BY <1>1, <2>1 DEF Running, JobRecords
  <2>3. UNCHANGED cfs /\ Send(j, Message("Progress", 0))
    BY <1>11 DEF WriteBlock
  <2> QED
    BY <1>2, <2>2, <2>3 DEF MailsStep, CfsStep
<1>12. CASE TryNext(j)
  <2> DEFINE s == [NoJob EXCEPT !.pc = "open", !.left = job[j].left - 1]
  <2>1. s.pc = "open"
    BY DEF NoJob
  <2>2. Running(j, "settle", s) /\ UNCHANGED <<cfs, mailbox>>
    BY <1>12 DEF TryNext
  <2> HIDE DEF s
  <2> QED
    BY <1>3, <1>4, <2>1, <2>2
<1>13. CASE LeaveLoop(j) \/ RemoveOrder(j)
  <2>1. job[j].pc \in {"settle", "remove"} /\ job'[j].pc \in {"remove", "release"}
    BY <1>1, <1>13 DEF LeaveLoop, RemoveOrder, Running, JobRecords
  <2> QED
    BY <1>3, <1>13, <2>1 DEF LeaveLoop, RemoveOrder
<1>14. CASE Release(j)
  <2>1. job[j].pc = "release" /\ job'[j].pc = "ended"
    BY <1>1, <1>14 DEF Release, Running, NoJob
  <2> QED
    BY <1>3, <1>14, <2>1 DEF Release
<1>15. CASE WriteFails(j)
  <2>1. job[j].pc = "body" /\ job'[j].pc = "paused"
    BY <1>1, <1>15 DEF WriteFails, Running, JobRecords
  <2> QED
    BY <1>3, <1>15, <2>1 DEF WriteFails
<1> QED
  BY <1>5, <1>6, <1>7, <1>8, <1>10, <1>11, <1>12, <1>13, <1>14, <1>15 DEF Download

LEMMA BaseInit == Init => Base /\ AnnouncedInv
<1> SUFFICES ASSUME Init PROVE Base /\ AnnouncedInv
  OBVIOUS
<1>1. NoJob \in JobRecords /\ JobOK(NoJob) /\ NoJob.pc = "ended" /\ NoJob.inode = 0
  BY NoJobOK DEF NoJob
<1>2. NoClient \in ClientRecords /\ NoClient.pc = "idle" /\ NoClient.source = 0
  BY NoClientOK
<1>3. /\ \A j \in Jobs : job[j] = NoJob
      /\ \A c \in Clients : client[c] = NoClient
  BY DEF Init
<1>4. FilesOK
  <2>1. <<>> \in Seq(Seq(1..Size)) /\ Len(<<>>) = 0
    BY EmptySeq
  <2>2. files = <<>> /\ linked = FALSE
    BY DEF Init
  <2>3. MaxFiles \in Nat /\ 0 < MaxFiles
    BY EnvironmentAssumption
  <2>4. files \in Seq(Seq(1..Size)) /\ Len(files) = 0
    BY <2>1, <2>2
  <2>5. Len(files) < MaxFiles /\ Len(files) <= MaxFiles
    BY <2>3, <2>4
  <2>6. linked = FALSE
    BY <2>2
  <2> QED
    BY <2>4, <2>5, <2>6 DEF FilesOK
<1>5. OrderInv /\ JobsOK
  BY <1>1, <1>3 DEF Init, OrderInv, JobsOK, Working
<1>6. MailboxOK
  <2>1. Dropped \in MessagesUpTo(Nat)
    BY DEF Dropped, Message, MessagesUpTo
  <2> QED
    BY <2>1 DEF Init, MailboxOK
<1>7. ClientsOK
  <2>1. client \in [Clients -> ClientRecords]
    BY <1>2 DEF Init
  <2>2. \A c \in Clients : client[c].pc = "idle"
    BY <1>2, <1>3
  <2> QED
    BY <2>1, <2>2 DEF ClientsOK
<1>8. RestOK
  <2>1. cfs = Missing /\ purging = FALSE /\ crashes = 0
    BY DEF Init
  <2>2. 0 \in 0..MaxCrashes
    BY EnvironmentAssumption
  <2> QED
    BY <2>1, <2>2 DEF RestOK
<1>9. InodesInv
  BY <1>1, <1>2, <1>3, <1>4, FilesTypes DEF InodesInv
<1> QED
  BY <1>1, <1>3, <1>4, <1>5, <1>6, <1>7, <1>8, <1>9 DEF Base, AnnouncedInv

\* Whoever has a file open keeps it.
LEMMA InodesKept ==
    ASSUME Base, FilesOK', KeepsOpen,
           \A j \in Jobs : job'[j].inode \in {0, job[j].inode, Len(files')},
           \A c \in Clients : client'[c].source \in {0, client[c].source, Len(files')}
    PROVE  InodesInv'
<1>1. Len(files) \in Nat /\ Len(files') \in Nat
  BY FilesTypes, LenProperties DEF Base, FilesOK
<1>2. ASSUME NEW i \in Nat, i # 0 => Opened(i), i <= Len(files) PROVE i <= Len(files')
  BY <1>1, <1>2 DEF KeepsOpen
<1>3. ASSUME NEW j \in Jobs PROVE job'[j].inode <= Len(files')
  <2>1. /\ job[j].inode \in Nat /\ job[j].inode <= Len(files)
        /\ job[j].inode # 0 => Opened(job[j].inode)
    BY DEF Base, JobsOK, JobRecords, InodesInv, Opened
  <2> QED
    BY <1>1, <1>2, <2>1
<1>4. ASSUME NEW c \in Clients PROVE client'[c].source <= Len(files')
  <2>1. /\ client[c].source \in Nat /\ client[c].source <= Len(files)
        /\ client[c].source # 0 => Opened(client[c].source)
    BY DEF Base, ClientsOK, ClientRecords, InodesInv, Opened
  <2> QED
    BY <1>1, <1>2, <2>1
<1> QED
  BY <1>3, <1>4 DEF InodesInv

\* What persist_and_get_cache_state leaves has its type.
LEMMA PersistBase ==
    ASSUME Base, PersistCacheState \/ UNCHANGED diskVars
    PROVE  FilesOK' /\ KeepsOpen /\ cfs' \in {Missing, Torn} \cup Nat
<1>1. FilesOK' /\ KeepsOpen
  BY PersistEffect, SameFiles DEF Base
<1>2. linked => OnDisk \in Nat
  <2>1. linked => Len(files) \in 1..Len(files)
    BY FilesTypes, EmptySeq DEF Base, FilesOK
  <2> QED
    BY <2>1, FilesTypes DEF Base, OnDisk
<1>3. cfs \in {Missing, Torn} \cup Nat
  BY DEF Base, RestOK
<1>4. cfs' \in {cfs} \/ (IsCached /\ cfs' = KnownSize)
  BY PersistEffect DEF Base
<1>5. IsCached => KnownSize \in Nat
  BY <1>2, <1>3 DEF IsCached, KnownSize, Missing, Torn
<1> QED
  BY <1>1, <1>3, <1>4, <1>5

LEMMA BaseRequest ==
    ASSUME Base, AnnouncedInv, NEW c \in Clients, Request(c)
    PROVE  Base' /\ AnnouncedInv'
<1>1. /\ ClientStep(c) /\ client'[c].source = 0
      /\ UNCHANGED <<purging, crashes>>
      /\ PersistCacheState \/ UNCHANGED diskVars
      /\ \/ UNCHANGED <<in_progress, job, mailbox>>
         \/ /\ ~in_progress /\ in_progress' = TRUE
            /\ \E j \in Jobs :
                 /\ job[j].pc = "ended"
                 /\ job' = [job EXCEPT ![j] = [NoJob EXCEPT !.pc = "open", !.left = NumMirrors]]
                 /\ mailbox' = [mailbox EXCEPT ![j] = <<>>]
  BY RequestSteps DEF Base
<1>2. FilesOK' /\ KeepsOpen /\ cfs' \in {Missing, Torn} \cup Nat
  BY <1>1, PersistBase
<1>3. RestOK'
  BY <1>1, <1>2 DEF Base, RestOK
<1>4. ClientsOK'
  BY <1>1 DEF Base, ClientsOK, ClientStep
<1>5. \A d \in Clients : client'[d].source \in {0, client[d].source}
  BY <1>1 DEF ClientStep
<1>6. CASE UNCHANGED <<in_progress, job, mailbox>>
  <2>1. OrderInv' /\ JobsOK' /\ MailboxOK' /\ AnnouncedInv'
    BY <1>6 DEF Base, OrderInv, JobsOK, MailboxOK, AnnouncedInv, Working
  <2>2. InodesInv'
    BY <1>2, <1>5, <1>6, InodesKept
  <2> QED
    BY <1>2, <1>3, <1>4, <2>1, <2>2 DEF Base
<1>7. ASSUME ~in_progress, in_progress' = TRUE, NEW j \in Jobs,
             job' = [job EXCEPT ![j] = [NoJob EXCEPT !.pc = "open", !.left = NumMirrors]],
             mailbox' = [mailbox EXCEPT ![j] = <<>>]
      PROVE  Base' /\ AnnouncedInv'
  <2> DEFINE s == [NoJob EXCEPT !.pc = "open", !.left = NumMirrors]
  <2>1. s.pc = "open" /\ s.left = NumMirrors /\ s.inode = 0 /\ s.buffer = <<>>
    BY DEF NoJob
  <2>2. JobOK(s)
    BY <2>1, SizeAssumption DEF JobOK
  <2>3. s \in JobRecords
    <3>1. NoJob \in JobRecords /\ NumMirrors \in 0..NumMirrors
      BY NoJobOK, SizeAssumption
    <3> QED
      BY <3>1 DEF JobRecords
  <2> HIDE DEF s
  <2>4. /\ job \in [Jobs -> JobRecords] /\ job' \in [Jobs -> JobRecords] /\ job'[j] = s
        /\ \A i \in Jobs \ {j} : job'[i] = job[i]
    BY <1>7, <2>3 DEF Base, JobsOK, s
  <2>5. JobsOK'
    BY <2>2, <2>4 DEF Base, JobsOK
  <2>6. OrderInv'
    BY <1>7, <2>1, <2>4 DEF Base, OrderInv, Working
  <2>7. MailboxOK' /\ AnnouncedInv'
    BY <1>7, <2>1, <2>4 DEF Base, MailboxOK, AnnouncedInv
  <2>8. InodesInv'
    BY <1>2, <1>5, <2>1, <2>4, InodesKept
  <2> QED
    BY <1>2, <1>3, <1>4, <2>5, <2>6, <2>7, <2>8 DEF Base
<1> QED
  BY <1>1, <1>6, <1>7

LEMMA BaseServe ==
    ASSUME Base, AnnouncedInv, NEW c \in Clients, Serve(c) \/ ClientCloses(c)
    PROVE  Base' /\ AnnouncedInv'
<1>1. /\ ClientStep(c) /\ MailboxStep(c)
      /\ UNCHANGED <<diskVars, in_progress, purging, crashes, job>>
  BY ServeSteps DEF Base, ServeStep
<1>2. FilesOK' /\ KeepsOpen
  BY <1>1, SameFiles DEF Base
<1>3. ClientsOK'
  BY <1>1 DEF Base, ClientsOK, ClientStep
<1>4. InodesInv'
  BY <1>1, <1>2, InodesKept DEF ClientStep
<1>5. MailboxOK' /\ AnnouncedInv'
  <2>1. Dropped \in MessagesUpTo(Nat)
    BY DEF Dropped, Message, MessagesUpTo
  <2>2. \A j \in Jobs : mailbox'[j] \in {mailbox[j], <<Dropped>>}
    BY <1>1 DEF MailboxStep, Base, MailboxOK
  <2>3. DOMAIN mailbox' = Jobs /\ mailbox' = [j \in Jobs |-> mailbox'[j]]
    BY <1>1 DEF MailboxStep, Base, MailboxOK
  <2> QED
    BY <1>1, <2>1, <2>2, <2>3 DEF Base, MailboxOK, AnnouncedInv
<1>6. OrderInv' /\ JobsOK' /\ RestOK'
  BY <1>1 DEF Base, OrderInv, JobsOK, RestOK, Working
<1> QED
  BY <1>2, <1>3, <1>4, <1>5, <1>6 DEF Base

LEMMA BaseDownload ==
    ASSUME Base, AnnouncedInv, NEW j \in Jobs, Download(j)
    PROVE  Base' /\ AnnouncedInv'
<1>1. FilesOK' /\ (UNCHANGED <<files, linked>> \/ OpenStep(j) \/ GrowStep(j))
  BY DownloadFiles DEF Base
<1>2. JobStep(j)
  BY <1>1, JobSteps DEF Base
<1>3. MailsStep(j) /\ CfsStep(j)
  BY DownloadMails DEF Base
<1>4. JobsOK' /\ OrderInv'
  <2>1. JobsOK'
    BY <1>2 DEF Base, JobStep, JobsOK
  <2>2. \A i \in Jobs : Working(i)' => Working(i)
    BY <1>2 DEF JobStep, Working
  <2>3. Working(j) => \A i \in Jobs \ {j} : ~Working(i)
    BY DEF Base, OrderInv
  <2>4. in_progress' \in BOOLEAN
    BY <1>2 DEF Base, OrderInv, JobStep
  <2>5. ASSUME NEW i \in Jobs, Working(i)' PROVE in_progress'
    <3>1. Working(i) /\ in_progress
      BY <2>2, <2>5 DEF Base, OrderInv
    <3>2. CASE i = j
      BY <1>2, <2>5, <3>1, <3>2 DEF JobStep
    <3>3. CASE i # j
      BY <1>2, <2>3, <3>1, <3>3 DEF JobStep
    <3> QED
      BY <3>2, <3>3
  <2>6. OrderInv'
    BY <2>2, <2>4, <2>5 DEF Base, OrderInv
  <2> QED
    BY <2>1, <2>6
<1>5. KeepsOpen
  <2>1. Len(files) \in Nat
    BY FilesTypes DEF Base
  <2>2. CASE GrowStep(j)
    <3>1. PICK bs \in Seq(1..Size) : files' = [files EXCEPT ![job[j].inode] = @ \o bs]
      BY <2>2 DEF GrowStep, Appended
    <3>2. job[j].inode \in 1..Len(files) /\ UNCHANGED linked
      BY <2>1, <2>2 DEF GrowStep, Base, JobsOK, JobRecords, InodesInv
    <3>3. Len(files') = Len(files)
      BY <3>1, <3>2, AppendedEffect DEF Base
    <3> QED
      BY <2>1, <3>3 DEF KeepsOpen
  <2> QED
    BY <1>1, <2>1, <2>2 DEF KeepsOpen, OpenStep
<1>6. InodesInv'
  BY <1>1, <1>2, <1>5, InodesKept DEF JobStep
<1>7. RestOK' /\ ClientsOK'
  <2>1. job[j].length \in Nat
    BY DEF Base, JobsOK, JobRecords
  <2> QED
    BY <1>2, <1>3, <2>1 DEF CfsStep, JobStep, Base, RestOK, ClientsOK
<1>8. MailboxOK' /\ \A i \in Jobs : mailbox[i] # <<>> => mailbox'[i] # <<>>
  <2>1. CASE UNCHANGED mailbox
    BY <2>1 DEF Base, MailboxOK
  <2>2. ASSUME NEW m \in MessagesUpTo(Nat), Send(j, m)
        PROVE  MailboxOK' /\ \A i \in Jobs : mailbox[i] # <<>> => mailbox'[i] # <<>>
    BY <2>2, SendEffect DEF Base
  <2> QED
    BY <1>3, <2>1, <2>2 DEF MailsStep
<1>9. AnnouncedInv'
  BY <1>2, <1>3, <1>8 DEF MailsStep, JobStep, AnnouncedInv
<1> QED
  BY <1>1, <1>4, <1>6, <1>7, <1>8, <1>9 DEF Base

LEMMA BaseStep == Base /\ AnnouncedInv /\ [Next]_vars => Base' /\ AnnouncedInv'
<1> SUFFICES ASSUME Base, AnnouncedInv, [Next]_vars PROVE Base' /\ AnnouncedInv'
  OBVIOUS
<1>1. ASSUME FilesOK', KeepsOpen, cfs' \in {Missing, Torn} \cup Nat, purging' \in BOOLEAN,
             UNCHANGED <<in_progress, crashes, job, mailbox, client>>
      PROVE  Base' /\ AnnouncedInv'
  <2>1. InodesInv'
    BY <1>1, InodesKept
  <2>2. OrderInv' /\ JobsOK' /\ MailboxOK' /\ ClientsOK' /\ AnnouncedInv'
    BY <1>1 DEF Base, OrderInv, JobsOK, MailboxOK, ClientsOK, AnnouncedInv, Working
  <2>3. RestOK'
    BY <1>1 DEF Base, RestOK
  <2> QED
    BY <1>1, <2>1, <2>2, <2>3 DEF Base
<1>2. CASE Purge
  <2>1. CASE PurgePackage
    <3>1. linked /\ Unlink /\ UNCHANGED <<cfs, in_progress, purging, crashes, job, mailbox, client>>
      BY <2>1 DEF PurgePackage
    <3>2. FilesOK' /\ KeepsOpen
      BY <3>1, UnlinkEffect DEF Base
    <3> QED
      BY <1>1, <3>1, <3>2 DEF Base, RestOK
  <2>2. CASE PurgeCfsCheck
    BY <1>1, <2>2, SameFiles DEF PurgeCfsCheck, Base, RestOK
  <2>3. CASE PurgeCfsRemove
    BY <1>1, <2>3, SameFiles DEF PurgeCfsRemove, Base
  <2> QED
    BY <1>2, <2>1, <2>2, <2>3 DEF Purge
<1>3. CASE CrashAndRestart
  <2>1. /\ PersistCacheState /\ crashes' = crashes + 1 /\ crashes < MaxCrashes
        /\ in_progress' = FALSE /\ purging' = FALSE
        /\ job' = [j \in Jobs |-> NoJob]
        /\ mailbox' = [j \in Jobs |-> <<Dropped>>]
        /\ client' = [c \in Clients |-> NoClient]
    BY <1>3 DEF CrashAndRestart
  <2>2. FilesOK' /\ KeepsOpen /\ cfs' \in {Missing, Torn} \cup Nat
    BY <2>1, PersistBase
  <2>3. RestOK'
    <3>1. crashes + 1 \in 0..MaxCrashes
      BY <2>1, EnvironmentAssumption DEF Base, RestOK
    <3> QED
      BY <2>1, <2>2, <3>1 DEF RestOK
  <2>4. NoJob.pc = "ended" /\ NoJob.inode = 0
    BY DEF NoJob
  <2>5. JobsOK' /\ OrderInv'
    BY <2>1, <2>4, NoJobOK DEF JobsOK, OrderInv, Working
  <2>6. ClientsOK'
    <3>1. client' \in [Clients -> ClientRecords]
      BY <2>1, NoClientOK
    <3>2. \A c \in Clients : client'[c].pc = "idle"
      BY <2>1, NoClientOK
    <3> QED
      BY <3>1, <3>2 DEF ClientsOK
  <2>7. MailboxOK' /\ AnnouncedInv'
    <3>1. Dropped \in MessagesUpTo(Nat)
      BY DEF Dropped, Message, MessagesUpTo
    <3> QED
      BY <2>1, <2>4, <3>1 DEF MailboxOK, AnnouncedInv
  <2>8. InodesInv'
    BY <2>1, <2>2, <2>4, NoClientOK, InodesKept
  <2> QED
    BY <2>2, <2>3, <2>5, <2>6, <2>7, <2>8 DEF Base
<1>4. CASE UNCHANGED vars
  BY <1>1, <1>4, SameFiles DEF Base, RestOK
<1> QED
  BY <1>2, <1>3, <1>4, BaseRequest, BaseServe, BaseDownload DEF Next

\* Who works on which file, what is in whose buffer and which of them can be
\* there at the same time: true even when jobs flush late.
THEOREM BaseCorrect == Spec => [](Base /\ AnnouncedInv)
BY BaseInit, BaseStep, PTL DEF Spec

\* receive_content_length never finds a Progress as the first message, which it
\* would panic at: create_cfs_file has announced the size before write_function is
\* called, however many attempts went before and whoever has taken the message.
THEOREM ProgressNeverFirst == Spec => []NeverProgressFirst
<1>1. Init => NeverProgressFirst
  BY DEF Init, NeverProgressFirst, Dropped, Message
<1>2. Base /\ AnnouncedInv /\ NeverProgressFirst /\ [Next]_vars => NeverProgressFirst'
  <2> SUFFICES ASSUME Base, AnnouncedInv, NeverProgressFirst, [Next]_vars, NEW i \in Jobs,
                      mailbox'[i] # <<>>
               PROVE  mailbox'[i][1].kind # "Progress"
    BY DEF NeverProgressFirst
  <2>1. mailbox[i] # <<>> => mailbox[i][1].kind # "Progress"
    BY DEF NeverProgressFirst
  <2>2. DOMAIN mailbox = Jobs
    BY DEF Base, MailboxOK
  <2>3. <<Dropped>>[1].kind # "Progress"
    BY DEF Dropped, Message
  <2>4. CASE mailbox'[i] = mailbox[i]
    BY <2>1, <2>4
  <2>5. CASE mailbox'[i] = <<Dropped>>
    BY <2>3, <2>5
  <2>6. ASSUME NEW c \in Clients, Request(c)
        PROVE  mailbox'[i] = mailbox[i] \/ mailbox'[i] = <<>>
    BY <2>2, <2>6, RequestSteps DEF Base
  <2>7. ASSUME NEW c \in Clients, Serve(c) \/ ClientCloses(c)
        PROVE  mailbox'[i] = mailbox[i] \/ mailbox'[i] = <<Dropped>>
    BY <2>2, <2>7, ServeSteps DEF Base, ServeStep, MailboxStep
  <2>8. ASSUME NEW j \in Jobs, Download(j) PROVE mailbox'[i][1].kind # "Progress"
    <3>1. MailsStep(j)
      BY <2>8, DownloadMails DEF Base
    <3>2. ASSUME NEW m \in MessagesUpTo(Nat), Send(j, m), m.kind = "Progress" => job[j].pc = "body"
          PROVE  mailbox'[i][1].kind # "Progress"
      <4>1. /\ \A k \in Jobs \ {j} : mailbox'[k] = mailbox[k]
            /\ mailbox'[j] = IF mailbox[j] = <<>> THEN <<m>> ELSE mailbox[j]
        BY <3>2, SendEffect DEF Base
      <4>2. CASE i = j /\ mailbox[j] = <<>>
        <5>1. m.kind # "Progress"
          BY <3>2, <4>2 DEF AnnouncedInv
        <5>2. mailbox'[i] = <<m>>
          BY <4>1, <4>2
        <5> QED
          BY <5>1, <5>2
      <4> QED
        BY <2>4, <4>1, <4>2
    <3> QED
      BY <2>4, <3>1, <3>2 DEF MailsStep
  <2>9. CASE Purge \/ UNCHANGED vars
    BY <2>4, <2>9 DEF Purge, PurgePackage, PurgeCfsCheck, PurgeCfsRemove
  <2>10. CASE CrashAndRestart
    BY <2>5, <2>10 DEF CrashAndRestart
  <2> QED
    BY <2>4, <2>5, <2>6, <2>7, <2>8, <2>9, <2>10 DEF Next
<1> QED
  BY <1>1, <1>2, BaseCorrect, PTL DEF Spec

-----------------------------------------------------------------------------
(* The blocks. *)

LEMMA BlocksType ==
    ASSUME NEW n \in Nat
    PROVE  /\ Blocks(n) \in Seq(Nat) /\ Len(Blocks(n)) = n
           /\ \A k \in 1..n : Blocks(n)[k] = k
<1>1. Blocks(n) \in [1..n -> Nat]
  BY DEF Blocks
<1>2. Blocks(n) \in Seq(Nat)
  <2> DEFINE b == Blocks(n)
  <2>1. b \in [1..n -> Nat]
    BY <1>1
  <2> HIDE DEF b
  <2>2. b \in Seq(Nat)
    BY <2>1, SMT
  <2> QED
    BY <2>2 DEF b
<1>3. DOMAIN Blocks(n) = 1..n /\ DOMAIN Blocks(n) = 1..Len(Blocks(n)) /\ Len(Blocks(n)) \in Nat
  BY <1>2, LenProperties DEF Blocks
<1>4. Len(Blocks(n)) = n
  BY <1>3
<1> QED
  BY <1>2, <1>4 DEF Blocks

LEMMA IsBlocks ==
    ASSUME NEW f \in Seq(1..Size), NEW n \in Nat
    PROVE  f = Blocks(n) <=> Len(f) = n /\ \A k \in 1..n : f[k] = k
<1>1. f = Blocks(n) => Len(f) = n /\ \A k \in 1..n : f[k] = k
  BY BlocksType
<1>2. ASSUME Len(f) = n, \A k \in 1..n : f[k] = k PROVE f = Blocks(n)
  <2>1. f \in [1..n -> 1..Size]
    BY <1>2, LenProperties
  <2>2. f = [k \in 1..n |-> f[k]]
    BY <2>1
  <2> QED
    BY <1>2, <2>2 DEF Blocks
<1> QED
  BY <1>1, <1>2

LEMMA EmptyBlocks == <<>> = Blocks(0)
<1>1. <<>> \in Seq(1..Size) /\ Len(<<>>) = 0
  BY EmptySeq
<1>2. 0 \in Nat /\ \A k \in 1..0 : <<>>[k] = k
  OBVIOUS
<1> QED
  BY <1>1, <1>2, IsBlocks

\* What is in the file before what is in the buffer.
LEMMA PrefixOfBlocks ==
    ASSUME NEW f \in Seq(1..Size), NEW b \in Seq(1..Size), NEW n \in 0..Size, f \o b = Blocks(n)
    PROVE  f = Blocks(Len(f)) /\ Len(f) <= Size
<1>1. Len(f) \in Nat /\ Len(b) \in Nat /\ n \in Nat /\ n <= Size /\ Size \in Nat
  BY LenProperties, SizeAssumption
<1>2. /\ Len(f \o b) = Len(f) + Len(b)
      /\ \A i \in 1..(Len(f) + Len(b)) : (f \o b)[i] = IF i <= Len(f) THEN f[i] ELSE b[i - Len(f)]
  BY ConcatProperties
<1>3. Len(Blocks(n)) = n /\ \A k \in 1..n : Blocks(n)[k] = k
  BY <1>1, BlocksType
<1>4. Len(f) + Len(b) = n
  BY <1>2, <1>3
<1>5. ASSUME NEW k \in 1..Len(f) PROVE f[k] = k
  <2>1. k \in 1..n /\ k \in 1..(Len(f) + Len(b)) /\ k <= Len(f)
    BY <1>1, <1>4
  <2> QED
    BY <1>2, <1>3, <2>1
<1> QED
  BY <1>1, <1>4, <1>5, IsBlocks

\* The next block.
LEMMA NextBlock ==
    ASSUME NEW f \in Seq(1..Size), NEW n \in Nat, n < Size, f = Blocks(n)
    PROVE  f \o <<n + 1>> = Blocks(n + 1)
<1> DEFINE b == <<n + 1>>
<1>1. n + 1 \in 1..Size /\ n + 1 \in Nat
  BY SizeAssumption
<1>2. b \in Seq(1..Size) /\ Len(b) = 1 /\ b[1] = n + 1
  BY <1>1
<1>3. Len(f) = n /\ \A k \in 1..n : f[k] = k
  BY IsBlocks
<1> HIDE DEF b
<1>4. /\ f \o b \in Seq(1..Size) /\ Len(f \o b) = n + 1
      /\ \A i \in 1..(n + 1) : (f \o b)[i] = IF i <= n THEN f[i] ELSE b[i - n]
  <2> DEFINE S == 1..Size
  <2>1. f \in Seq(S) /\ b \in Seq(S) /\ Len(f) = n /\ Len(b) = 1
    BY <1>2, <1>3
  <2> HIDE DEF S
  <2>2. /\ f \o b \in Seq(S) /\ Len(f \o b) = Len(f) + Len(b)
        /\ \A i \in 1..(Len(f) + Len(b)) :
              (f \o b)[i] = IF i <= Len(f) THEN f[i] ELSE b[i - Len(f)]
    BY <2>1, ConcatProperties
  <2> QED
    BY <2>1, <2>2, Zenon DEF S
<1>5. ASSUME NEW k \in 1..(n + 1) PROVE (f \o b)[k] = k
  <2>1. CASE k <= n
    BY <1>3, <1>4, <2>1
  <2>2. CASE k = n + 1
    <3>1. ~(k <= n) /\ k - n = 1
      BY <2>2
    <3>2. (f \o b)[k] = b[k - n]
      BY <1>4, <3>1
    <3> QED
      BY <1>2, <2>2, <3>1, <3>2
  <2>3. k <= n \/ k = n + 1
    BY <1>5
  <2> QED
    BY <2>1, <2>2, <2>3
<1>6. f \o b = Blocks(n + 1)
  BY <1>1, <1>4, <1>5, IsBlocks
<1> QED
  BY <1>6 DEF b

\* A piece of a prefix is a piece of the whole.
LEMMA PieceOfBlocks ==
    ASSUME NEW n \in 0..Size, NEW r \in 0..n
    PROVE  /\ SubSeq(Blocks(n), r + 1, n) = SubSeq(Blocks(Size), r + 1, n)
           /\ Len(SubSeq(Blocks(n), r + 1, n)) = n - r
           /\ SubSeq(Blocks(n), r + 1, n) \in Seq(Nat)
<1> DEFINE m == r + 1
<1>1. Size \in Nat /\ n \in Nat /\ n <= Size /\ r \in Nat /\ r <= n /\ m \in Int /\ n \in Int
  BY SizeAssumption
<1>2. ASSUME NEW i \in m..n PROVE Blocks(n)[i] = i /\ Blocks(Size)[i] = i /\ i \in Nat
  <2>1. i \in 1..n /\ i \in 1..Size
    BY <1>1, <1>2
  <2> QED
    BY <1>1, <2>1, BlocksType
<1> DEFINE a == Blocks(n)
           b == Blocks(Size)
<1> HIDE DEF a, b, m
<1>3. ASSUME NEW s, \A i \in m..n : s[i] = i /\ i \in Nat
      PROVE  /\ SubSeq(s, m, n) \in Seq(Nat)
             /\ Len(SubSeq(s, m, n)) = IF m <= n THEN n - m + 1 ELSE 0
             /\ \A i \in 1..(n - m + 1) : SubSeq(s, m, n)[i] = s[m + i - 1]
  BY <1>1, <1>3, SubSeqProperties
<1>4. n - m + 1 = n - r /\ (IF m <= n THEN n - m + 1 ELSE 0) = n - r
  BY <1>1 DEF m
<1>5. /\ SubSeq(a, m, n) \in Seq(Nat) /\ Len(SubSeq(a, m, n)) = n - r
      /\ \A i \in 1..(n - r) : SubSeq(a, m, n)[i] = a[m + i - 1]
  BY <1>2, <1>3, <1>4 DEF a
<1>6. /\ SubSeq(b, m, n) \in Seq(Nat) /\ Len(SubSeq(b, m, n)) = n - r
      /\ \A i \in 1..(n - r) : SubSeq(b, m, n)[i] = b[m + i - 1]
  BY <1>2, <1>3, <1>4 DEF b
<1>7. ASSUME NEW i \in 1..(n - r) PROVE SubSeq(a, m, n)[i] = SubSeq(b, m, n)[i]
  <2>1. m + i - 1 \in m..n
    BY <1>1, <1>7 DEF m
  <2> QED
    BY <1>2, <1>5, <1>6, <1>7, <2>1 DEF a, b
<1>8. SubSeq(a, m, n) = SubSeq(b, m, n)
  BY <1>5, <1>6, <1>7, SeqEqual
<1> QED
  BY <1>5, <1>8 DEF a, b, m

-----------------------------------------------------------------------------
(* The files are intact as long as every job flushes in time. *)

\* What a step of a job thread does to what it has counted.
Counts(j) ==
    \/ /\ OpenFile(j) /\ job'[j].inode = Len(files') /\ job'[j].buffer = <<>>
       /\ job'[j].size_written = Len(files'[Len(files')]) /\ job'[j].length = job[j].length
    \/ /\ WriteBlock(j) \/ (WriteFails(j) /\ job'[j].pc = "paused" /\ job'[j].buffer = <<>>)
       /\ job[j].size_written < Size
       /\ job'[j].size_written = job[j].size_written + 1
       /\ job'[j].inode = job[j].inode /\ job'[j].length = job[j].length
    \/ job'[j].inode = 0 /\ job'[j].buffer = <<>> /\ job'[j].size_written = 0 /\ job'[j].length = 0
    \/ /\ job'[j].inode = job[j].inode /\ job'[j].buffer = job[j].buffer
       /\ job'[j].size_written = job[j].size_written
       /\ UNCHANGED <<files, linked>>
       /\ \/ job'[j].length = job[j].length
          \/ \E cl \in ContentLengths(j) : job'[j].length = job[j].size_written + cl

LEMMA JobCounts ==
    ASSUME JobsOK, NEW j \in Jobs, Download(j)
    PROVE  Counts(j)
<1>1. job \in [Jobs -> JobRecords] /\ job[j] \in JobRecords /\ JobOK(job[j])
  BY DEF JobsOK
<1>2. ASSUME NEW s, NEW here, Running(j, here, s) PROVE job'[j] = s /\ job[j].pc = here
  BY <1>1, <1>2 DEF Running
<1>3. CASE OpenFile(j)
  <2> DEFINE s == [job[j] EXCEPT !.pc = "request", !.inode = Len(files'),
                     !.size_written = AlreadyWritten(files'[Len(files')])]
  <2>1. /\ s.inode = Len(files') /\ s.buffer = job[j].buffer /\ s.length = job[j].length
        /\ s.size_written = Len(files'[Len(files')])
    BY <1>1 DEF JobRecords, AlreadyWritten
  <2>2. Running(j, "open", s)
    BY <1>3 DEF OpenFile
  <2> HIDE DEF s
  <2>3. job'[j] = s /\ job[j].pc = "open"
    BY <1>2, <2>2
  <2>4. job[j].buffer = <<>>
    BY <1>1, <2>3 DEF JobOK
  <2> QED
    BY <1>3, <2>1, <2>3, <2>4 DEF Counts
<1>4. CASE HeaderAccepted(j)
  <2>1. PICK cl \in ContentLengths(j) :
          Running(j, "request", [job[j] EXCEPT !.pc = "cfs", !.length = job[j].size_written + cl])
    BY <1>4 DEF HeaderAccepted
  <2> DEFINE s == [job[j] EXCEPT !.pc = "cfs", !.length = job[j].size_written + cl]
  <2>2. /\ s.inode = job[j].inode /\ s.buffer = job[j].buffer
        /\ s.size_written = job[j].size_written /\ s.length = job[j].size_written + cl
    BY <1>1 DEF JobRecords
  <2>3. Running(j, "request", s) /\ UNCHANGED <<files, linked>>
    BY <1>4, <2>1 DEF HeaderAccepted
  <2> HIDE DEF s
  <2>4. job'[j] = s
    BY <1>2, <2>3
  <2> QED
    BY <2>1, <2>2, <2>3, <2>4 DEF Counts
<1>5. CASE WriteBlock(j)
  <2>1. PICK b \in BufferStates(job[j].buffer, <<job[j].size_written + 1>>) :
          Running(j, "body", [job[j] EXCEPT !.size_written = @ + 1, !.buffer = b[2]])
    BY <1>5 DEF WriteBlock
  <2> DEFINE s == [job[j] EXCEPT !.size_written = @ + 1, !.buffer = b[2]]
  <2>2. /\ s.inode = job[j].inode /\ s.length = job[j].length
        /\ s.size_written = job[j].size_written + 1
    BY <1>1 DEF JobRecords
  <2>3. Running(j, "body", s)
    BY <2>1
  <2> HIDE DEF s
  <2>4. job'[j] = s
    BY <1>2, <2>3
  <2>5. job[j].size_written < Size
    BY <1>5 DEF WriteBlock
  <2> QED
    BY <1>5, <2>2, <2>4, <2>5 DEF Counts
<1>6. CASE TryNext(j)
  <2> DEFINE s == [NoJob EXCEPT !.pc = "open", !.left = job[j].left - 1]
  <2>1. s.inode = 0 /\ s.buffer = <<>> /\ s.size_written = 0 /\ s.length = 0
    BY DEF NoJob
  <2>2. Running(j, "settle", s)
    BY <1>6 DEF TryNext
  <2> HIDE DEF s
  <2> QED
    BY <1>2, <2>1, <2>2 DEF Counts
<1>7. CASE Release(j)
  <2>1. job'[j] = NoJob
    BY <1>2, <1>7 DEF Release
  <2> QED
    BY <2>1 DEF Counts, NoJob
\* The others change nothing but pc and result.
<1>8. ASSUME NEW here, NEW there, Running(j, here, [job[j] EXCEPT !.pc = there]),
             UNCHANGED <<files, linked>>
      PROVE  Counts(j)
  <2>1. job'[j] = [job[j] EXCEPT !.pc = there]
    BY <1>2, <1>8
  <2>2. /\ job'[j].inode = job[j].inode /\ job'[j].buffer = job[j].buffer
        /\ job'[j].size_written = job[j].size_written /\ job'[j].length = job[j].length
    BY <1>1, <2>1 DEF JobRecords
  <2> QED
    BY <1>8, <2>2 DEF Counts
<1>9. ASSUME NEW here, NEW there, NEW r, Running(j, here, [job[j] EXCEPT !.pc = there, !.result = r]),
             UNCHANGED <<files, linked>>
      PROVE  Counts(j)
  <2>1. job'[j] = [job[j] EXCEPT !.pc = there, !.result = r]
    BY <1>2, <1>9
  <2>2. /\ job'[j].inode = job[j].inode /\ job'[j].buffer = job[j].buffer
        /\ job'[j].size_written = job[j].size_written /\ job'[j].length = job[j].length
    BY <1>1, <2>1 DEF JobRecords
  <2> QED
    BY <1>9, <2>2 DEF Counts
<1>10. CASE OpenFails(j)
  BY <1>9, <1>10 DEF OpenFails
<1>11. CASE WriteCfs(j)
  BY <1>8, <1>11 DEF WriteCfs
<1>12. ASSUME NEW here, NEW r, Ends(j, here, r) PROVE Counts(j)
  BY <1>9, <1>12 DEF Ends
<1>13. CASE RangeNotSatisfiable(j) \/ Unavailable(j) \/ TransferFails(j) \/ TransferCompletes(j)
  BY <1>12, <1>13 DEF RangeNotSatisfiable, Unavailable, TransferFails, TransferCompletes
<1>14. CASE LeaveLoop(j)
  BY <1>8, <1>14 DEF LeaveLoop
<1>15. CASE RemoveOrder(j)
  BY <1>8, <1>15 DEF RemoveOrder
<1>16. CASE WriteFails(j)
  <2> DEFINE s == [job[j] EXCEPT !.pc = "paused", !.size_written = @ + 1, !.buffer = <<>>]
  <2>1. /\ s.inode = job[j].inode /\ s.length = job[j].length /\ s.pc = "paused"
        /\ s.size_written = job[j].size_written + 1 /\ s.buffer = <<>>
    BY <1>1 DEF JobRecords
  <2>2. Running(j, "body", s) /\ job[j].size_written < Size
    BY <1>16 DEF WriteFails
  <2> HIDE DEF s
  <2>3. job'[j] = s
    BY <1>2, <2>2
  <2> QED
    BY <1>16, <2>1, <2>2, <2>3 DEF Counts
<1> QED
  BY <1>3, <1>4, <1>5, <1>6, <1>7, <1>10, <1>11, <1>13, <1>14, <1>15, <1>16
     DEF Download

LEMMA OneWriter ==
    ASSUME Base, FlushedInTime, NEW i \in Jobs, NEW j \in Jobs, Writes(i), Writes(j)
    PROVE  i = j
<1>1. job[i].pc # "ended" /\ job[j].pc # "ended"
  BY DEF Base, JobsOK, JobOK, Writes
<1>2. CASE Working(i) /\ Working(j)
  BY <1>2 DEF Base, OrderInv
<1>3. CASE ~Working(i)
  BY <1>1, <1>3 DEF FlushedInTime, Writes, Working
<1>4. CASE ~Working(j)
  BY <1>1, <1>4 DEF FlushedInTime, Writes, Working
<1> QED
  BY <1>2, <1>3, <1>4

LEMMA BlocksAssociate ==
    ASSUME NEW f \in Seq(1..Size), NEW b \in Seq(1..Size), NEW d \in Seq(1..Size)
    PROVE  (f \o b) \o d = f \o (b \o d)
<1> DEFINE S == 1..Size
<1>1. f \in Seq(S) /\ b \in Seq(S) /\ d \in Seq(S)
  OBVIOUS
<1> HIDE DEF S
<1> QED
  BY <1>1, SMT

LEMMA EmptyPrefix ==
    ASSUME NEW b \in Seq(1..Size), NEW d \in Seq(1..Size), b \o d = <<>>
    PROVE  b = <<>>
<1>1. Len(b \o d) = Len(b) + Len(d) /\ Len(<<>>) = 0
  BY ConcatProperties, EmptySeq
<1>2. Len(b) \in Nat /\ Len(d) \in Nat
  BY LenProperties
<1>3. Len(b) = 0
  BY <1>1, <1>2
<1> QED
  BY <1>3, EmptySeq

\* A file that has grown is a prefix of the real one as before, and the job's
\* buffer goes on from there.
LEMMA GrowIntact ==
    ASSUME Base, Intact, NEW j \in Jobs, GrowStep(j)
    PROVE  /\ FilesOK' /\ FileIntact' /\ Len(files') = Len(files)
           /\ job'[j].inode # 0 /\ job'[j].pc # "paused" =>
                files'[job[j].inode] \o job'[j].buffer = Blocks(job'[j].size_written)
           /\ \A i \in 1..Len(files) : i # job[j].inode \/ ~Writes(j) => files'[i] = files[i]
<1> DEFINE n == job[j].inode
           f == files[n]
           b == job[j].buffer
           w == job[j].size_written
<1>1. /\ n \in 1..Len(files) /\ b \in Seq(1..Size) /\ w \in Nat /\ w <= Size /\ w \in 0..Size
      /\ JobOK(job[j])
  <2>1. n \in Nat /\ n # 0 /\ n <= Len(files) /\ Len(files) \in Nat
    BY FilesTypes DEF GrowStep, Base, JobsOK, JobRecords, InodesInv
  <2>2. b \in Seq(1..Size) /\ w \in Nat /\ w <= Size
    BY DEF Base, JobsOK, JobRecords, Intact, SizesInv
  <2> QED
    BY <2>1, <2>2 DEF Base, JobsOK
<1>2. f \in Seq(1..Size) /\ f = Blocks(Len(f)) /\ Len(f) <= Size
  BY <1>1, FilesTypes DEF Base, Intact, FileIntact
<1>3. Writes(j) => f \o b = Blocks(w)
  BY DEF Intact, WrittenInv
<1>4. PICK bs \in Seq(1..Size) :
        /\ files' = [files EXCEPT ![n] = @ \o bs]
        /\ \/ /\ WriteBlock(j)
              /\ bs \o job'[j].buffer = b \o <<w + 1>>
              /\ job'[j].size_written = w + 1
              /\ job'[j].inode = n
           \/ /\ \E d \in Seq(1..Size) : bs \o d = b
              /\ job'[j].inode = 0 \/ job'[j].pc = "paused"
  BY DEF GrowStep, Appended
<1>5. /\ FilesOK' /\ Len(files') = Len(files) /\ files'[n] = f \o bs
      /\ \A i \in 1..Len(files) : i # n => files'[i] = files[i]
  <2>1. UNCHANGED linked
    BY DEF GrowStep
  <2> QED
    BY <1>1, <1>4, <2>1, AppendedEffect DEF Base
<1>6. CASE /\ WriteBlock(j) /\ bs \o job'[j].buffer = b \o <<w + 1>>
           /\ job'[j].size_written = w + 1 /\ job'[j].inode = n
  <2>1. w < Size /\ job[j].pc = "body" /\ Writes(j)
    BY <1>6 DEF WriteBlock, Running, GrowStep, Writes, Working
  <2>2. <<w + 1>> \in Seq(1..Size) /\ w + 1 \in 0..Size /\ w + 1 \in 1..Size
    BY <1>1, <2>1, SizeAssumption
  <2> DEFINE d == job'[j].buffer
  <2>3. d \in Seq(1..Size)
    <3>1. JobsOK'
      <4>1. Download(j)
        BY <1>6 DEF Download
      <4>2. JobStep(j)
        BY <1>5, <4>1, JobSteps DEF Base
      <4> QED
        BY <4>2 DEF Base, JobStep, JobsOK
    <3> QED
      BY <3>1 DEF JobsOK, JobRecords
  <2>4. f \o b \in Seq(1..Size) /\ f \o bs \in Seq(1..Size) /\ bs \o d = b \o <<w + 1>>
    BY <1>1, <1>2, <1>4, <1>6, ConcatProperties
  <2>5. (f \o bs) \o d = (f \o b) \o <<w + 1>>
    <3>1. (f \o bs) \o d = f \o (bs \o d)
      <4> HIDE DEF d
      <4> QED
        BY <1>2, <1>4, <2>3, BlocksAssociate
    <3>2. (f \o b) \o <<w + 1>> = f \o (b \o <<w + 1>>)
      BY <1>1, <1>2, <2>2, BlocksAssociate
    <3> QED
      BY <2>4, <3>1, <3>2
  <2>6. (f \o b) \o <<w + 1>> = Blocks(w + 1)
    BY <1>1, <1>3, <2>1, <2>4, NextBlock
  <2>7. f \o bs = Blocks(Len(f \o bs)) /\ Len(f \o bs) <= Size
    BY <2>2, <2>3, <2>4, <2>5, <2>6, PrefixOfBlocks
  <2>8. FileIntact'
    BY <1>5, <2>7 DEF Intact, FileIntact
  <2> QED
    BY <1>5, <1>6, <2>1, <2>4, <2>5, <2>6, <2>8
<1>7. CASE /\ \E d \in Seq(1..Size) : bs \o d = b
           /\ job'[j].inode = 0 \/ job'[j].pc = "paused"
  <2> PICK d \in Seq(1..Size) : bs \o d = b
    BY <1>7
  <2>1. f \o bs = Blocks(Len(f \o bs)) /\ Len(f \o bs) <= Size /\ (~Writes(j) => f \o bs = f)
    <3>1. CASE Writes(j)
      <4>1. (f \o bs) \o d = f \o (bs \o d)
        BY <1>2, <1>4, BlocksAssociate
      <4>2. (f \o bs) \o d = Blocks(w)
        BY <1>3, <3>1, <4>1
      <4>3. f \o bs \in Seq(1..Size)
        BY <1>2, <1>4, ConcatProperties
      <4> QED
        BY <1>1, <3>1, <4>2, <4>3, PrefixOfBlocks
    <3>2. CASE ~Writes(j)
      <4>1. b = <<>>
        BY <3>2 DEF Writes, GrowStep
      <4>2. bs = <<>>
        BY <4>1, EmptyPrefix
      <4>3. f \o bs = f
        BY <1>2, <4>2, ConcatEmptySeq
      <4> QED
        BY <1>2, <4>3
    <3> QED
      BY <3>1, <3>2
  <2>2. FileIntact'
    BY <1>5, <1>7, <2>1 DEF Intact, FileIntact
  <2> QED
    BY <1>5, <1>7, <2>1, <2>2
<1> QED
  BY <1>4, <1>6, <1>7

\* Files that only lose their youngest are as intact as before.
LEMMA KeptIntact ==
    ASSUME Base, Base', Intact, KeepsFiles,
           \A i \in Jobs : job'[i] = job[i] \/ (job'[i].inode = 0 /\ job'[i].buffer = <<>>)
    PROVE  FileIntact' /\ WrittenInv'
<1>1. Len(files) \in Nat /\ Len(files') \in Nat
  BY FilesTypes, LenProperties DEF Base, FilesOK
<1>2. FileIntact'
  <2>1. ASSUME NEW i \in 1..Len(files') PROVE files'[i] = Blocks(Len(files'[i])) /\ Len(files'[i]) <= Size
    <3>1. i \in 1..Len(files) /\ files'[i] = files[i]
      BY <1>1, <2>1 DEF KeepsFiles
    <3> QED
      BY <3>1 DEF Intact, FileIntact
  <2> QED
    BY <2>1 DEF FileIntact
<1>3. ASSUME NEW i \in Jobs, Writes(i)'
      PROVE  files'[job'[i].inode] \o job'[i].buffer = Blocks(job'[i].size_written)
  <2>1. job'[i] = job[i] /\ Writes(i)
    BY <1>3 DEF Writes, Working
  <2>2. job[i].inode \in Nat /\ job[i].inode # 0 /\ job[i].inode <= Len(files')
    BY <1>3, <2>1 DEF Writes, Base, JobsOK, JobRecords, InodesInv
  <2>3. files'[job[i].inode] = files[job[i].inode]
    BY <1>1, <2>2 DEF KeepsFiles
  <2>4. files[job[i].inode] \o job[i].buffer = Blocks(job[i].size_written)
    BY <2>1 DEF Intact, WrittenInv
  <2> QED
    BY <2>1, <2>3, <2>4
<1> QED
  BY <1>2, <1>3 DEF WrittenInv

LEMMA OnDiskSize ==
    ASSUME Base, FileIntact, linked
    PROVE  Len(files) \in 1..Len(files) /\ OnDisk \in Nat /\ OnDisk <= Size /\ OnDisk <= 2 * Size
<1>1. Len(files) \in 1..Len(files)
  BY FilesTypes, EmptySeq DEF Base, FilesOK
<1>2. OnDisk \in Nat
  BY <1>1, FilesTypes DEF Base, OnDisk
<1>3. OnDisk <= Size
  BY <1>1 DEF OnDisk, FileIntact
<1> QED
  BY <1>1, <1>2, <1>3, SizeAssumption

\* The size that persist_and_get_cache_state writes is that of a prefix.
LEMMA PersistSizes ==
    ASSUME Base, Intact, PersistCacheState \/ UNCHANGED diskVars
    PROVE  KeepsFiles /\ cfs' <= 2 * Size
<1>1. KeepsFiles
  BY PersistEffect, SameFiles DEF Base
<1>2. Size \in Nat /\ cfs <= 2 * Size
  BY SizeAssumption DEF Intact, SizesInv
<1>3. linked => OnDisk \in Nat /\ OnDisk <= Size
  BY OnDiskSize DEF Intact
<1>4. IsCached => KnownSize <= 2 * Size
  BY <1>2, <1>3 DEF IsCached, KnownSize
<1>5. cfs' = cfs \/ (IsCached /\ cfs' = KnownSize)
  BY PersistEffect DEF Base
<1> QED
  BY <1>1, <1>2, <1>4, <1>5

\* Nothing is sent yet.
LEMMA NothingReceived ==
    ASSUME NEW r \in 0..Size
    PROVE  /\ r + Len(<<>>) = r /\ r <= Size
           /\ <<>> = SubSeq(Blocks(Size), r + 1, r)
<1>1. r \in Int /\ r + 1 \in Int /\ r < r + 1 /\ r <= Size
  BY SizeAssumption
<1> QED
  BY <1>1, SubSeqEmpty, EmptySeq

LEMMA IntactInit == Init => Intact
<1> SUFFICES ASSUME Init PROVE Intact
  OBVIOUS
<1>1. NoJob.inode = 0 /\ NoJob.size_written = 0 /\ NoJob.length = 0 /\ NoJob.buffer = <<>>
  BY DEF NoJob
<1>2. NoClient.resume_from = 0 /\ NoClient.promised = 0 /\ NoClient.received = <<>>
  BY DEF NoClient
<1>3. Size \in Nat /\ 0 \in 0..Size /\ 0 \in 0..(2 * Size)
  BY SizeAssumption
<1>4. Dropped \in MessagesUpTo(0..(2 * Size))
  BY <1>3 DEF Dropped, Message, MessagesUpTo
<1>5. FileIntact /\ WrittenInv
  <2>1. Len(<<>>) = 0 /\ files = <<>>
    BY EmptySeq DEF Init
  <2>2. FileIntact
    BY <2>1 DEF FileIntact
  <2>3. WrittenInv
    BY <1>1 DEF Init, WrittenInv, Writes
  <2> QED
    BY <2>2, <2>3
<1>6. SizesInv
  BY <1>1, <1>2, <1>3, <1>4 DEF Init, SizesInv, Missing
<1>7. ReceivedInv
  BY <1>2, <1>3, NothingReceived DEF Init, ReceivedInv, Offset
<1> QED
  BY <1>5, <1>6, <1>7 DEF Intact

LEMMA IntactRequest ==
    ASSUME Base, Base', Intact, NEW c \in Clients, Request(c)
    PROVE  Intact'
<1>1. /\ ClientStep(c) /\ client'[c].received = <<>> /\ client'[c].promised = 0
      /\ PersistCacheState \/ UNCHANGED diskVars
      /\ \/ UNCHANGED <<in_progress, job, mailbox>>
         \/ \E j \in Jobs :
               /\ job' = [job EXCEPT ![j] = [NoJob EXCEPT !.pc = "open", !.left = NumMirrors]]
               /\ mailbox' = [mailbox EXCEPT ![j] = <<>>]
  BY RequestSteps DEF Base
<1>2. KeepsFiles /\ cfs' <= 2 * Size
  BY <1>1, PersistSizes
<1> DEFINE s == [NoJob EXCEPT !.pc = "open", !.left = NumMirrors]
<1>3. s.inode = 0 /\ s.buffer = <<>> /\ s.size_written = 0 /\ s.length = 0
  BY DEF NoJob
<1> HIDE DEF s
<1>4. ASSUME NEW i \in Jobs PROVE job'[i] \in {job[i], s} /\ mailbox'[i] \in {mailbox[i], <<>>}
  BY <1>1 DEF s, Base, JobsOK, MailboxOK
<1>5. FileIntact' /\ WrittenInv'
  BY <1>2, <1>3, <1>4, KeptIntact
<1>6. Size \in Nat /\ 0 <= Size /\ 0 <= 2 * Size
  BY SizeAssumption
<1>7. SizesInv'
  <2>1. \A j \in Jobs : job'[j].size_written <= Size /\ job'[j].length <= 2 * Size
    BY <1>3, <1>4, <1>6 DEF Intact, SizesInv
  <2>2. mailbox' \in [Jobs -> {<<>>} \cup {<<m>> : m \in MessagesUpTo(0..(2 * Size))}]
    <3>1. mailbox' = [i \in Jobs |-> mailbox'[i]]
      BY DEF Base, MailboxOK
    <3> QED
      BY <1>4, <3>1 DEF Intact, SizesInv
  <2>3. \A d \in Clients : client'[d].promised <= 2 * Size
    BY <1>1, <1>6 DEF ClientStep, Intact, SizesInv
  <2> QED
    BY <1>2, <2>1, <2>2, <2>3 DEF SizesInv
<1>8. ReceivedInv'
  <2> SUFFICES ASSUME NEW d \in Clients
               PROVE  /\ Offset(d)' <= Size
                      /\ client'[d].received
                           = SubSeq(Blocks(Size), client'[d].resume_from + 1, Offset(d)')
    BY DEF ReceivedInv
  <2>1. CASE d = c
    <3> DEFINE r == client'[c].resume_from
    <3>1. r \in 0..Size
      BY <1>1 DEF ClientStep, ClientRecords
    <3>2. Offset(c)' = r + Len(<<>>)
      BY <1>1, Zenon DEF Offset
    <3> HIDE DEF r
    <3>3. Offset(c)' = r /\ r <= Size /\ <<>> = SubSeq(Blocks(Size), r + 1, r)
      BY <3>1, <3>2, NothingReceived
    <3> QED
      BY <1>1, <2>1, <3>3, Zenon DEF r
  <2>2. CASE d # c
    <3>1. client'[d] = client[d]
      BY <1>1, <2>2, Zenon DEF ClientStep
    <3>2. Offset(d)' = Offset(d)
      BY <3>1, Zenon DEF Offset
    <3> QED
      BY <3>1, <3>2, Zenon DEF Intact, ReceivedInv
  <2> QED
    BY <2>1, <2>2
<1> QED
  BY <1>5, <1>7, <1>8 DEF Intact

\* A transfer that is paused is never resumed.
LEMMA PausedStays ==
    ASSUME NEW j \in Jobs, Download(j)
    PROVE  job[j].pc # "paused"
BY DEF Download, Running, OpenFile, OpenFails, HeaderAccepted, WriteCfs, Ends, RangeNotSatisfiable,
   Unavailable, TransferFails, WriteBlock, WriteFails, TransferCompletes, TryNext, LeaveLoop,
   RemoveOrder, Release

LEMMA IntactDownload ==
    ASSUME Base, Base', Intact, FlushedInTime, NEW j \in Jobs, Download(j)
    PROVE  Intact'
<1>1. UNCHANGED <<files, linked>> \/ OpenStep(j) \/ GrowStep(j)
  BY DownloadFiles DEF Base
<1>2. JobStep(j) /\ Counts(j) /\ MailsStep(j) /\ CfsStep(j)
  BY JobSteps, JobCounts, DownloadMails DEF Base
<1>3. Len(files) \in Nat /\ Len(files') \in Nat /\ Size \in Nat
  BY FilesTypes, LenProperties, SizeAssumption DEF Base, FilesOK
<1>4. FileIntact'
  <2>1. CASE UNCHANGED <<files, linked>>
    BY <2>1 DEF Intact, FileIntact
  <2>2. CASE OpenStep(j)
    <3>1. ASSUME NEW i \in 1..Len(files')
          PROVE  files'[i] = Blocks(Len(files'[i])) /\ Len(files'[i]) <= Size
      <4>1. CASE i \in 1..Len(files)
        BY <2>2, <4>1 DEF OpenStep, Intact, FileIntact
      <4>2. CASE i \notin 1..Len(files)
        <5>1. i = Len(files') /\ ~linked
          BY <1>3, <2>2, <3>1, <4>2 DEF OpenStep
        <5>2. files'[i] = <<>> /\ Len(<<>>) = 0 /\ <<>> \in Seq(1..Size)
          BY <2>2, <5>1, EmptySeq DEF OpenStep
        <5>3. <<>> = Blocks(0)
          BY EmptyBlocks
        <5> QED
          BY <1>3, <5>2, <5>3
      <4> QED
        BY <4>1, <4>2
    <3> QED
      BY <3>1 DEF FileIntact
  <2>3. CASE GrowStep(j)
    BY <2>3, GrowIntact
  <2> QED
    BY <1>1, <2>1, <2>2, <2>3
<1>5. ASSUME NEW i \in Jobs \ {j}, Writes(i)' PROVE
             files'[job'[i].inode] \o job'[i].buffer = Blocks(job'[i].size_written)
  <2>1. job'[i] = job[i] /\ Writes(i)
    BY <1>2, <1>5 DEF JobStep, Writes, Working
  <2>2. job[i].inode \in 1..Len(files)
    <3>1. job[i].inode \in Nat /\ job[i].inode # 0 /\ job[i].inode <= Len(files)
      BY <2>1 DEF Writes, Base, JobsOK, JobRecords, InodesInv
    <3> QED
      BY <1>3, <3>1
  <2>3. ~Writes(j)
    BY <1>5, <2>1, OneWriter
  <2>4. files'[job[i].inode] = files[job[i].inode]
    BY <1>1, <2>2, <2>3, GrowIntact DEF OpenStep
  <2>5. files[job[i].inode] \o job[i].buffer = Blocks(job[i].size_written)
    BY <2>1 DEF Intact, WrittenInv
  <2> QED
    BY <2>1, <2>4, <2>5
<1>6. ASSUME Writes(j)' PROVE
             files'[job'[j].inode] \o job'[j].buffer = Blocks(job'[j].size_written)
  <2>1. CASE OpenFile(j) /\ job'[j].inode = Len(files') /\ job'[j].buffer = <<>>
             /\ job'[j].size_written = Len(files'[Len(files')])
    <3>1. Len(files') \in 1..Len(files')
      BY <1>3, <1>6, <2>1 DEF Writes
    <3>2. files'[Len(files')] \in Seq(1..Size)
      BY <3>1, ElementOfSeq DEF Base, FilesOK
    <3>3. files'[Len(files')] \o <<>> = files'[Len(files')]
      BY <3>2, ConcatEmptySeq
    <3> QED
      BY <1>4, <2>1, <3>1, <3>3 DEF FileIntact
  <2>2. CASE WriteBlock(j) /\ job'[j].inode = job[j].inode
    <3>1. job'[j].inode # 0 /\ job'[j].pc # "paused"
      BY <1>6 DEF Writes
    <3>2. GrowStep(j)
      BY <2>2, DownloadFiles DEF Base
    <3> QED
      BY <2>2, <3>1, <3>2, GrowIntact
  <2>3. CASE /\ job'[j].inode = job[j].inode /\ job'[j].buffer = job[j].buffer
             /\ job'[j].size_written = job[j].size_written
             /\ UNCHANGED <<files, linked>>
    <3>1. Writes(j)
      <4>1. CASE job[j].pc = "paused"
        BY <2>3, <4>1, PausedStays
      <4> QED
        BY <1>2, <1>6, <2>3, <4>1 DEF Writes, JobStep
    <3> QED
      BY <2>3, <3>1 DEF Intact, WrittenInv
  <2>4. job'[j].inode # 0 /\ job'[j].pc # "paused"
    BY <1>6 DEF Writes
  <2> QED
    BY <1>2, <2>1, <2>2, <2>3, <2>4 DEF Counts
<1>7. WrittenInv'
  BY <1>5, <1>6 DEF WrittenInv
<1>8. 2 * Size \in Nat /\ 0 <= Size /\ 0 <= 2 * Size
  BY <1>3
<1>9. /\ job[j].size_written \in Nat /\ job[j].size_written <= Size
      /\ job[j].length \in Nat /\ job[j].length <= 2 * Size
  BY DEF Base, JobsOK, JobRecords, Intact, SizesInv
<1>10. job'[j].size_written <= Size
  <2>1. job'[j].inode = Len(files') /\ job'[j].size_written = Len(files'[Len(files')]) /\ OpenFile(j)
           => job'[j].size_written <= Size
    <3> SUFFICES ASSUME OpenFile(j), job'[j].size_written = Len(files'[Len(files')])
                 PROVE  job'[j].size_written <= Size
      OBVIOUS
    <3>1. linked' = TRUE
      BY DEF OpenFile
    <3>2. Len(files') \in 1..Len(files')
      BY <1>3, <3>1, EmptySeq DEF Base, FilesOK
    <3> QED
      BY <1>4, <3>2 DEF FileIntact
  <2>2. job[j].size_written < Size => job[j].size_written + 1 <= Size
    BY <1>3, <1>9
  <2> QED
    BY <1>2, <1>8, <1>9, <2>1, <2>2 DEF Counts
<1>11. job'[j].length <= 2 * Size
  <2>1. ASSUME NEW cl \in ContentLengths(j) PROVE job[j].size_written + cl <= 2 * Size
    BY <1>3, <1>9, <2>1 DEF ContentLengths
  <2> QED
    BY <1>2, <1>8, <1>9, <2>1 DEF Counts
<1>12. SizesInv'
  <2>1. cfs' <= 2 * Size
    BY <1>2, <1>8, <1>9 DEF CfsStep, Intact, SizesInv, Torn, Missing
  <2>2. \A i \in Jobs : job'[i].size_written <= Size /\ job'[i].length <= 2 * Size
    BY <1>2, <1>10, <1>11 DEF JobStep, Intact, SizesInv
  <2>3. mailbox' \in [Jobs -> {<<>>} \cup {<<m>> : m \in MessagesUpTo(0..(2 * Size))}]
    <3>1. CASE UNCHANGED mailbox
      BY <3>1 DEF Intact, SizesInv
    <3>2. ASSUME NEW m \in MessagesUpTo(Nat), Send(j, m), m.size \in {0, job[j].length}
          PROVE  mailbox' \in [Jobs -> {<<>>} \cup {<<x>> : x \in MessagesUpTo(0..(2 * Size))}]
      <4>1. m \in MessagesUpTo(0..(2 * Size))
        <5>1. m.size \in 0..(2 * Size)
          BY <1>8, <1>9, <3>2
        <5> QED
          BY <3>2, <5>1 DEF MessagesUpTo
      <4> QED
        BY <3>2, <4>1 DEF Send, Intact, SizesInv
    <3> QED
      BY <1>2, <3>1, <3>2 DEF MailsStep
  <2> QED
    BY <1>2, <2>1, <2>2, <2>3 DEF JobStep, Intact, SizesInv
<1>13. ReceivedInv'
  BY <1>2 DEF JobStep, Intact, ReceivedInv, Offset
<1> QED
  BY <1>4, <1>7, <1>12, <1>13 DEF Intact

\* What a step of a client's thread does to what it knows and what it has sent.
Knows(c) ==
    \/ client'[c] = NoClient
    \/ /\ client[c].pc = "await_size" /\ client'[c].pc \in {"open_growing", "open_complete"}
       /\ client'[c].resume_from = client[c].resume_from
       /\ client'[c].received = client[c].received
       /\ mailbox[client[c].job] # <<>>
       /\ \/ /\ client'[c].pc = "open_growing" /\ mailbox[client[c].job][1].kind = "JobSize"
             /\ client'[c].promised = Promised(c, mailbox[client[c].job][1].size)
          \/ /\ client'[c].pc = "open_complete" /\ mailbox[client[c].job][1].kind = "Completed"
             /\ client'[c].promised = client[c].promised
    \/ /\ client[c].pc = "await_cfs" /\ client'[c].pc = "open_growing" /\ cfs >= 0
       /\ client'[c].resume_from = client[c].resume_from
       /\ client'[c].received = client[c].received
       /\ client'[c].promised = Promised(c, cfs)
    \/ /\ client[c].pc = "open_growing" /\ client'[c].pc = "streaming"
       /\ client'[c].resume_from = client[c].resume_from
       /\ client'[c].received = client[c].received
       /\ client'[c].promised = client[c].promised
    \/ /\ client[c].pc = "open_complete" /\ client'[c].pc = "served" /\ linked
       /\ client'[c].resume_from = client[c].resume_from
       /\ client'[c].received = SubSeq(files[Len(files)], client[c].resume_from + 1, OnDisk)
       /\ client'[c].promised = OnDisk
    \/ /\ client[c].pc = "streaming" /\ client'[c].pc = "streaming"
       /\ Offset(c) < client[c].promised /\ Offset(c) < SourceLen(c)
       /\ client'[c].resume_from = client[c].resume_from
       /\ client'[c].received =
             client[c].received \o SubSeq(files[client[c].source], Offset(c) + 1, SourceLen(c))
       /\ client'[c].promised = client[c].promised
    \/ /\ client[c].pc = "streaming" /\ client'[c].pc = "served"
       /\ Offset(c) >= client[c].promised
       /\ client'[c].resume_from = client[c].resume_from
       /\ client'[c].received = client[c].received
       /\ client'[c].promised = client[c].promised

LEMMA ClientKnows ==
    ASSUME MailboxOK, ClientsOK, NEW c \in Clients, Serve(c) \/ ClientCloses(c)
    PROVE  Knows(c)
<1>1. client \in [Clients -> ClientRecords] /\ client[c] \in ClientRecords
  BY DEF ClientsOK
<1>2. ASSUME NEW here, NEW s, Serving(c, here, s) PROVE client'[c] = s /\ client[c].pc = here
  BY <1>1, <1>2 DEF Serving
<1>3. ASSUME NEW here, Serving(c, here, Rejected) PROVE Knows(c)
  BY <1>2, <1>3 DEF Rejected, Knows
<1>4. CASE \/ ReceiveRejection(c) \/ ReceiveNothing(c) \/ CfsTimeout(c) \/ OpenFailsForClient(c)
           \/ StreamStalls(c) \/ ClientCloses(c)
  BY <1>3, <1>4 DEF ReceiveRejection, ReceiveNothing, CfsTimeout, OpenFailsForClient,
     StreamStalls, ClientCloses
<1>5. CASE ReceiveJobSize(c)
  <2> DEFINE p == Promised(c, mailbox[client[c].job][1].size)
             s == [client[c] EXCEPT !.pc = "open_growing", !.job = NoClient.job, !.promised = p]
  <2>1. Serving(c, "await_size", s) /\ Receive(c, {"JobSize"})
    BY <1>5 DEF ReceiveJobSize
  <2> HIDE DEF p
  <2>2. /\ s.pc = "open_growing" /\ s.resume_from = client[c].resume_from
        /\ s.received = client[c].received /\ s.promised = p
    BY <1>1 DEF ClientRecords
  <2> HIDE DEF s
  <2>3. mailbox[client[c].job] # <<>> /\ mailbox[client[c].job][1].kind = "JobSize"
    BY <2>1, Received
  <2> QED
    BY <1>2, <2>1, <2>2, <2>3 DEF Knows, p
<1>6. CASE ReceiveCompleted(c)
  <2> DEFINE s == [client[c] EXCEPT !.pc = "open_complete", !.job = NoClient.job]
  <2>1. Serving(c, "await_size", s) /\ Receive(c, {"Completed"})
    BY <1>6 DEF ReceiveCompleted
  <2>2. /\ s.pc = "open_complete" /\ s.resume_from = client[c].resume_from
        /\ s.received = client[c].received /\ s.promised = client[c].promised
    BY <1>1 DEF ClientRecords
  <2> HIDE DEF s
  <2>3. mailbox[client[c].job] # <<>> /\ mailbox[client[c].job][1].kind = "Completed"
    BY <2>1, Received
  <2> QED
    BY <1>2, <2>1, <2>2, <2>3 DEF Knows
<1>7. CASE ReadCfs(c)
  <2> DEFINE p == Promised(c, cfs)
             s == [client[c] EXCEPT !.pc = "open_growing", !.promised = p]
  <2>1. Serving(c, "await_cfs", s) /\ cfs >= 0
    BY <1>7 DEF ReadCfs
  <2> HIDE DEF p
  <2>2. /\ s.pc = "open_growing" /\ s.resume_from = client[c].resume_from
        /\ s.received = client[c].received /\ s.promised = p
    BY <1>1 DEF ClientRecords
  <2> HIDE DEF s
  <2> QED
    BY <1>2, <2>1, <2>2 DEF Knows, p
<1>8. CASE OpenGrowing(c)
  <2> DEFINE s == [client[c] EXCEPT !.pc = "streaming", !.source = Len(files)]
  <2>1. Serving(c, "open_growing", s)
    BY <1>8 DEF OpenGrowing
  <2>2. /\ s.pc = "streaming" /\ s.resume_from = client[c].resume_from
        /\ s.received = client[c].received /\ s.promised = client[c].promised
    BY <1>1 DEF ClientRecords
  <2> HIDE DEF s
  <2> QED
    BY <1>2, <2>1, <2>2 DEF Knows
<1>9. CASE ServeComplete(c)
  <2> DEFINE p == SubSeq(files[Len(files)], client[c].resume_from + 1, OnDisk)
             s == [client[c] EXCEPT !.pc = "served", !.promised = OnDisk, !.received = p]
  <2>1. Serving(c, "open_complete", s) /\ linked
    BY <1>9 DEF ServeComplete
  <2> HIDE DEF p
  <2>2. /\ s.pc = "served" /\ s.resume_from = client[c].resume_from
        /\ s.received = p /\ s.promised = OnDisk
    BY <1>1 DEF ClientRecords
  <2> HIDE DEF s
  <2> QED
    BY <1>2, <2>1, <2>2 DEF Knows, p
<1>10. CASE SendGrown(c)
  <2> DEFINE p == client[c].received
                    \o SubSeq(files[client[c].source], Offset(c) + 1, SourceLen(c))
             s == [client[c] EXCEPT !.received = p]
  <2>1. /\ Serving(c, "streaming", s) /\ client[c].pc = "streaming"
        /\ Offset(c) < client[c].promised /\ Offset(c) < SourceLen(c)
    BY <1>10 DEF SendGrown
  <2> HIDE DEF p
  <2>2. /\ s.pc = "streaming" /\ s.resume_from = client[c].resume_from
        /\ s.received = p /\ s.promised = client[c].promised
    BY <1>1, <2>1 DEF ClientRecords
  <2> HIDE DEF s
  <2> QED
    BY <1>2, <2>1, <2>2 DEF Knows, p
<1>11. CASE StreamEnds(c)
  <2> DEFINE s == [client[c] EXCEPT !.pc = "served", !.source = 0]
  <2>1. Serving(c, "streaming", s) /\ Offset(c) >= client[c].promised
    BY <1>11 DEF StreamEnds, EverythingSent
  <2>2. /\ s.pc = "served" /\ s.resume_from = client[c].resume_from
        /\ s.received = client[c].received /\ s.promised = client[c].promised
    BY <1>1 DEF ClientRecords
  <2> HIDE DEF s
  <2> QED
    BY <1>2, <2>1, <2>2 DEF Knows
<1> QED
  BY <1>4, <1>5, <1>6, <1>7, <1>8, <1>9, <1>10, <1>11 DEF Serve

\* What a file has beyond r is the same piece of the real one.
LEMMA PieceOfFile ==
    ASSUME FilesOK, FileIntact, NEW i \in 1..Len(files), NEW r \in 0..Size
    PROVE  LET n == Len(files[i])
               p == SubSeq(files[i], r + 1, n)
           IN  /\ n \in 0..Size
               /\ n > r => Len(p) = n - r /\ p = SubSeq(Blocks(Size), r + 1, n) /\ p \in Seq(Nat)
               /\ n <= r => p = <<>>
<1> DEFINE n == Len(files[i])
           p == SubSeq(files[i], r + 1, n)
<1>1. n \in Nat /\ n <= Size /\ files[i] = Blocks(n) /\ Size \in Nat
  BY FilesTypes, SizeAssumption DEF FileIntact
<1> HIDE DEF n
<1>2. ASSUME n > r PROVE Len(p) = n - r /\ p = SubSeq(Blocks(Size), r + 1, n) /\ p \in Seq(Nat)
  <2>1. n \in 0..Size /\ r \in 0..n
    BY <1>1, <1>2
  <2> QED
    BY <1>1, <2>1, PieceOfBlocks
<1>3. ASSUME n <= r PROVE p = <<>>
  <2>1. r + 1 \in Int /\ n \in Int /\ n < r + 1
    BY <1>1, <1>3
  <2> QED
    BY <2>1, SubSeqEmpty
<1>4. n \in 0..Size
  BY <1>1
<1> QED
  BY <1>2, <1>3, <1>4 DEF n

\* What is sent from a complete file is the rest of it.
LEMMA FirstPiece ==
    ASSUME FilesOK, FileIntact, NEW i \in 1..Len(files), NEW r \in 0..Size, NEW q,
           q = SubSeq(files[i], r + 1, Len(files[i]))
    PROVE  /\ r + Len(q) <= Size /\ q = SubSeq(Blocks(Size), r + 1, r + Len(q))
           /\ Len(files[i]) = Size => r + Len(q) = Size
<1> DEFINE n == Len(files[i])
<1>1. /\ n \in 0..Size
      /\ n > r => Len(q) = n - r /\ q = SubSeq(Blocks(Size), r + 1, n)
      /\ n <= r => q = <<>>
  BY PieceOfFile
<1> HIDE DEF n
<1>2. Size \in Nat /\ n \in Nat /\ n <= Size /\ r \in Nat /\ r <= Size
  BY <1>1, SizeAssumption
<1>3. CASE n > r
  <2>1. Len(q) = n - r /\ q = SubSeq(Blocks(Size), r + 1, n)
    BY <1>1, <1>3
  <2>2. r + Len(q) = n
    BY <1>2, <2>1
  <2> QED
    BY <1>2, <2>1, <2>2 DEF n
<1>4. CASE n <= r
  <2>1. q = <<>>
    BY <1>1, <1>4
  <2>2. n = Size => r = Size
    BY <1>2, <1>4
  <2> QED
    BY <2>1, <2>2, NothingReceived DEF n
<1> QED
  BY <1>2, <1>3, <1>4

\* What is sent from a growing file goes on where it was.
LEMMA NextPiece ==
    ASSUME FilesOK, FileIntact, NEW i \in 1..Len(files), NEW r \in 0..Size, NEW o \in 0..Size,
           NEW q \in Seq(1..Size), o = r + Len(q), q = SubSeq(Blocks(Size), r + 1, o),
           o < Len(files[i]), NEW s, s = q \o SubSeq(files[i], o + 1, Len(files[i]))
    PROVE  r + Len(s) <= Size /\ s = SubSeq(Blocks(Size), r + 1, r + Len(s))
<1> DEFINE n == Len(files[i])
           p == SubSeq(files[i], o + 1, n)
<1>1. n \in 0..Size /\ Len(p) = n - o /\ p = SubSeq(Blocks(Size), o + 1, n) /\ p \in Seq(Nat)
  BY PieceOfFile
<1>2. s = q \o p /\ o < n
  OBVIOUS
<1> HIDE DEF n, p
<1>3. Size \in Nat /\ n \in Nat /\ n <= Size /\ r \in Nat /\ o \in Nat /\ o <= Size
  BY <1>1, SizeAssumption
<1>4. q \in Seq(Nat) /\ Len(q) \in Nat
  <2> DEFINE S == 1..Size
  <2>1. q \in Seq(S) /\ S \subseteq Nat
    OBVIOUS
  <2> HIDE DEF S
  <2> QED
    BY <2>1, SeqMonotonic, LenProperties
<1>5. Len(s) = Len(q) + (n - o)
  <2>1. Len(q \o p) = Len(q) + Len(p)
    BY <1>1, <1>4, ConcatProperties
  <2>2. Len(s) = Len(q \o p)
    BY <1>2, Zenon
  <2>3. Len(p) = n - o
    BY <1>1
  <2> QED
    BY <2>1, <2>2, <2>3, Zenon
<1>6. r + Len(s) = n
  <2> DEFINE x == Len(q)
             y == Len(s)
  <2>1. o = r + x /\ y = x + (n - o) /\ x \in Nat /\ n \in Nat /\ r \in Nat
    BY <1>3, <1>4, <1>5, Zenon
  <2> HIDE DEF x, y
  <2>2. r + y = n
    BY <2>1, SMT
  <2> QED
    BY <2>2, Zenon DEF y
<1> DEFINE b == Blocks(Size)
<1>7. b \in Seq(Nat) /\ Len(b) = Size
  BY <1>3, BlocksType
<1>8. q = SubSeq(b, r + 1, o) /\ p = SubSeq(b, o + 1, n)
  BY <1>1
<1> HIDE DEF b
<1>9. SubSeq(b, r + 1, o) \o SubSeq(b, o + 1, n) = SubSeq(b, r + 1, n)
  <2> DEFINE m == r + 1
  <2>1. r <= o
    BY <1>3, <1>4
  <2>2. m \in 1..(Len(b) + 1) /\ o \in (m - 1)..Len(b) /\ n \in o..Len(b)
    BY <1>2, <1>3, <1>7, <2>1
  <2> HIDE DEF m
  <2>3. SubSeq(b, m, o) \o SubSeq(b, o + 1, n) = SubSeq(b, m, n)
    BY <1>7, <2>2, ConcatAdjacentSubSeq
  <2> QED
    BY <2>3 DEF m
<1> QED
  BY <1>2, <1>3, <1>6, <1>8, <1>9 DEF b

LEMMA IntactServe ==
    ASSUME Base, Base', Intact, NEW c \in Clients, Serve(c) \/ ClientCloses(c)
    PROVE  Intact'
<1>1. ClientStep(c) /\ MailboxStep(c) /\ UNCHANGED <<diskVars, in_progress, purging, crashes, job>>
  BY ServeSteps DEF Base, ServeStep
<1>2. Knows(c)
  BY ClientKnows DEF Base
<1>3. FileIntact' /\ WrittenInv'
  BY <1>1 DEF Intact, FileIntact, WrittenInv, Writes, Working
<1>4. /\ Size \in Nat /\ 0 \in 0..Size /\ 0 <= 2 * Size /\ 2 * Size \in Nat
  BY SizeAssumption
<1>5. /\ client[c].resume_from \in 0..Size /\ client[c].received \in Seq(1..Size)
      /\ client[c].promised <= 2 * Size
      /\ linked => Len(files) \in 1..Len(files)
      /\ client[c].pc = "streaming" => client[c].source \in 1..Len(files)
  <2>1. Len(files) \in Nat /\ (linked => Len(files) # 0)
    BY FilesTypes, EmptySeq DEF Base, FilesOK
  <2>2. client[c] \in ClientRecords /\ (client[c].pc = "streaming" => client[c].source # 0)
    BY DEF Base, ClientsOK
  <2> QED
    BY <2>1, <2>2 DEF ClientRecords, Base, InodesInv, Intact, SizesInv
<1>6. /\ NoClient.resume_from = 0 /\ NoClient.received = <<>> /\ NoClient.promised = 0
  BY DEF NoClient
<1>7. SizesInv'
  <2>1. mailbox' \in [Jobs -> {<<>>} \cup {<<m>> : m \in MessagesUpTo(0..(2 * Size))}]
    <3>1. Dropped \in MessagesUpTo(0..(2 * Size))
      BY <1>4 DEF Dropped, Message, MessagesUpTo
    <3> QED
      BY <1>1, <3>1 DEF MailboxStep, Intact, SizesInv
  <2>2. client'[c].promised <= 2 * Size
    <3>1. \A n : n <= 2 * Size => Promised(c, n) <= 2 * Size
      BY <1>4, <1>5 DEF Promised
    <3>2. cfs <= 2 * Size
      BY DEF Intact, SizesInv
    <3>3. mailbox[client[c].job] # <<>> => mailbox[client[c].job][1].size <= 2 * Size
      <4>1. client[c].job \in Jobs
        BY DEF Base, ClientsOK, ClientRecords
      <4>2. mailbox[client[c].job] # <<>> =>
              \E m \in MessagesUpTo(0..(2 * Size)) : mailbox[client[c].job] = <<m>>
        BY <4>1 DEF Intact, SizesInv
      <4> QED
        BY <4>2 DEF MessagesUpTo
    <3>4. linked => OnDisk <= 2 * Size
      BY OnDiskSize DEF Intact
    <3> QED
      BY <1>2, <1>4, <1>5, <1>6, <3>1, <3>2, <3>3, <3>4 DEF Knows
  <2> QED
    BY <1>1, <2>1, <2>2 DEF ClientStep, Intact, SizesInv
<1>8. /\ Offset(c)' <= Size
      /\ client'[c].received = SubSeq(Blocks(Size), client'[c].resume_from + 1, Offset(c)')
  <2>1. /\ Len(client[c].received) \in Nat
        /\ Offset(c) = client[c].resume_from + Len(client[c].received)
    BY <1>5, LenProperties DEF Offset
  <2>2. Offset(c) <= Size /\ Offset(c) \in 0..Size
    <3>1. Offset(c) <= Size
      BY DEF Intact, ReceivedInv
    <3> QED
      BY <1>4, <1>5, <2>1, <3>1
  <2>3. client[c].received = SubSeq(Blocks(Size), client[c].resume_from + 1, Offset(c))
    BY DEF Intact, ReceivedInv
  <2>4. Offset(c)' = client'[c].resume_from + Len(client'[c].received)
    BY DEF Offset
  <2>5. CASE client'[c] = NoClient
    BY <1>4, <1>6, <2>4, <2>5, NothingReceived
  <2>6. CASE /\ client'[c].resume_from = client[c].resume_from
             /\ client'[c].received = client[c].received
    BY <2>1, <2>2, <2>3, <2>4, <2>6
  <2>7. CASE /\ linked /\ client'[c].resume_from = client[c].resume_from
             /\ client'[c].received =
                   SubSeq(files[Len(files)], client[c].resume_from + 1, OnDisk)
    <3> DEFINE r == client[c].resume_from
               q == client'[c].received
    <3>1. q = SubSeq(files[Len(files)], r + 1, Len(files[Len(files)]))
      BY <2>7 DEF OnDisk
    <3>2. Len(files) \in 1..Len(files) /\ r \in 0..Size
      BY <1>5, <2>7
    <3> HIDE DEF q, r
    <3>3. r + Len(q) <= Size /\ q = SubSeq(Blocks(Size), r + 1, r + Len(q))
      BY <3>1, <3>2, FirstPiece DEF Base, Intact
    <3> QED
      BY <2>4, <2>7, <3>3 DEF q, r
  <2>8. CASE /\ client[c].pc = "streaming" /\ Offset(c) < SourceLen(c)
             /\ client'[c].resume_from = client[c].resume_from
             /\ client'[c].received = client[c].received
                   \o SubSeq(files[client[c].source], Offset(c) + 1, SourceLen(c))
    <3> DEFINE r == client[c].resume_from
               o == Offset(c)
               q == client[c].received
               s == client'[c].received
               i == client[c].source
    <3>1. s = q \o SubSeq(files[i], o + 1, Len(files[i])) /\ o < Len(files[i])
      BY <2>8 DEF SourceLen
    <3>2. /\ r \in 0..Size /\ o \in 0..Size /\ q \in Seq(1..Size) /\ i \in 1..Len(files)
          /\ o = r + Len(q) /\ q = SubSeq(Blocks(Size), r + 1, o)
      BY <1>5, <2>1, <2>2, <2>3, <2>8
    <3> HIDE DEF q, r, o, s, i
    <3>3. r + Len(s) <= Size /\ s = SubSeq(Blocks(Size), r + 1, r + Len(s))
      <4>1. FilesOK /\ FileIntact
        BY DEF Base, Intact
      <4> QED
        BY <3>1, <3>2, <4>1, NextPiece, ZenonT(20)
    <3> QED
      BY <2>4, <2>8, <3>3 DEF s, r
  <2> QED
    BY <1>2, <2>5, <2>6, <2>7, <2>8 DEF Knows
<1>9. ReceivedInv'
  <2>1. ASSUME NEW d \in Clients \ {c}
        PROVE  /\ Offset(d)' <= Size
               /\ client'[d].received = SubSeq(Blocks(Size), client'[d].resume_from + 1, Offset(d)')
    <3>1. client'[d] = client[d] /\ Offset(d)' = Offset(d)
      BY <1>1 DEF ClientStep, Offset
    <3> QED
      BY <3>1 DEF Intact, ReceivedInv
  <2> QED
    BY <1>8, <2>1 DEF ReceivedInv
<1> QED
  BY <1>3, <1>7, <1>9 DEF Intact

LEMMA IntactStep == Base /\ Base' /\ Intact /\ FlushedInTime /\ [Next]_vars => Intact'
<1> SUFFICES ASSUME Base, Base', Intact, FlushedInTime, [Next]_vars PROVE Intact'
  OBVIOUS
<1>1. ASSUME KeepsFiles, cfs' <= 2 * Size, UNCHANGED <<job, mailbox, client>> PROVE Intact'
  <2>1. FileIntact' /\ WrittenInv'
    BY <1>1, KeptIntact
  <2>2. SizesInv' /\ ReceivedInv'
    BY <1>1 DEF Intact, SizesInv, ReceivedInv, Offset
  <2> QED
    BY <2>1, <2>2 DEF Intact
<1>2. CASE Purge
  <2>1. CASE PurgePackage
    BY <1>1, <2>1, UnlinkEffect DEF PurgePackage, Base, Intact, SizesInv
  <2>2. CASE PurgeCfsCheck
    BY <1>1, <2>2, SameFiles DEF PurgeCfsCheck, Base, Intact, SizesInv
  <2>3. CASE PurgeCfsRemove
    <3>1. cfs' <= 2 * Size
      BY <2>3, SizeAssumption DEF PurgeCfsRemove, Missing
    <3> QED
      BY <1>1, <2>3, <3>1, SameFiles DEF PurgeCfsRemove, Base
  <2> QED
    BY <1>2, <2>1, <2>2, <2>3 DEF Purge
<1>3. CASE CrashAndRestart
  <2>1. /\ PersistCacheState
        /\ job' = [j \in Jobs |-> NoJob]
        /\ mailbox' = [j \in Jobs |-> <<Dropped>>]
        /\ client' = [c \in Clients |-> NoClient]
    BY <1>3 DEF CrashAndRestart
  <2>2. KeepsFiles /\ cfs' <= 2 * Size
    BY <2>1, PersistSizes
  <2>3. NoJob.inode = 0 /\ NoJob.size_written = 0 /\ NoJob.length = 0 /\ NoJob.buffer = <<>>
    BY DEF NoJob
  <2>4. NoClient.resume_from = 0 /\ NoClient.promised = 0 /\ NoClient.received = <<>>
    BY DEF NoClient
  <2>5. FileIntact' /\ WrittenInv'
    BY <2>1, <2>2, <2>3, KeptIntact
  <2>6. Size \in Nat /\ 0 \in 0..Size /\ 0 \in 0..(2 * Size)
    BY SizeAssumption
  <2>7. Dropped \in MessagesUpTo(0..(2 * Size))
    BY <2>6 DEF Dropped, Message, MessagesUpTo
  <2>8. SizesInv'
    BY <2>1, <2>2, <2>3, <2>4, <2>6, <2>7 DEF SizesInv
  <2>9. ReceivedInv'
    BY <2>1, <2>4, <2>6, NothingReceived DEF ReceivedInv, Offset
  <2> QED
    BY <2>5, <2>8, <2>9 DEF Intact
<1>4. CASE UNCHANGED vars
  BY <1>1, <1>4, SameFiles DEF Base, Intact, SizesInv
<1> QED
  BY <1>2, <1>3, <1>4, IntactRequest, IntactServe, IntactDownload DEF Next

\* In the instances with one job thread, which the runs check, FlushedInTime
\* always holds: there is no other job that could find the file too short.
LEMMA OneThreadFlushesInTime == (\A i, j \in Jobs : i = j) => FlushedInTime
BY DEF FlushedInTime

\* While every job flushes in time, what is on disk, in the buffers and at the
\* clients is always a part of the real file.
THEOREM IntactCorrect == Spec /\ []FlushedInTime => []Intact
BY BaseCorrect, IntactInit, IntactStep, PTL DEF Spec

\* Every variable has its type, the bounds of all sizes included.
THEOREM TypeCorrect == Spec /\ []FlushedInTime => []TypeOK
<1>1. Base /\ Intact => TypeOK
  <2> SUFFICES ASSUME Base, Intact PROVE TypeOK
    OBVIOUS
  <2>1. files \in Seq(Seq(1..Size)) /\ Len(files) <= MaxFiles /\ linked \in BOOLEAN
        /\ (linked => files # <<>>) /\ Len(files) \in Nat
    BY FilesTypes DEF Base, FilesOK
  <2>2. Size \in Nat /\ 2 * Size \in Nat
    BY SizeAssumption
  <2>3. /\ cfs \in {Missing, Torn} \cup 0..(2 * Size)
        /\ in_progress \in BOOLEAN /\ purging \in BOOLEAN /\ crashes \in 0..MaxCrashes
    BY <2>2 DEF Base, RestOK, OrderInv, Intact, SizesInv
  <2>4. job \in [Jobs -> JobStates]
    <3>1. ASSUME NEW j \in Jobs PROVE job[j] \in JobStates
      <4>1. job[j] \in JobRecords
        BY DEF Base, JobsOK
      <4>2. job[j].inode \in Nat /\ job[j].size_written \in Nat /\ job[j].length \in Nat
        BY <4>1 DEF JobRecords
      <4>3. job[j].inode <= Len(files)
        BY DEF Base, InodesInv
      <4>4. job[j].size_written <= Size /\ job[j].length <= 2 * Size
        BY DEF Intact, SizesInv
      <4>5. /\ job[j].inode \in 0..Len(files) /\ job[j].size_written \in 0..Size
            /\ job[j].length \in 0..(2 * Size)
        BY <2>1, <2>2, <4>2, <4>3, <4>4
      <4> QED
        BY <4>1, <4>5 DEF JobRecords, JobStates
    <3> QED
      BY <3>1 DEF Base, JobsOK
  <2>5. \A j \in Jobs : job[j].left = 0 <=> job[j].pc = "ended"
    BY DEF Base, JobsOK, JobOK
  <2>6. mailbox \in [Jobs -> {<<>>} \cup {<<m>> : m \in Messages}]
    BY DEF Intact, SizesInv, Messages, MessagesUpTo
  <2>7. client \in [Clients -> ClientStates]
    <3>1. ASSUME NEW c \in Clients PROVE client[c] \in ClientStates
      <4>1. client[c] \in ClientRecords
        BY DEF Base, ClientsOK
      <4>2. client[c].source \in Nat /\ client[c].promised \in Nat
        BY <4>1 DEF ClientRecords
      <4>3. client[c].source <= Len(files) /\ client[c].promised <= 2 * Size
        BY DEF Base, InodesInv, Intact, SizesInv
      <4>4. client[c].source \in 0..Len(files) /\ client[c].promised \in 0..(2 * Size)
        BY <2>1, <2>2, <4>2, <4>3
      <4> QED
        BY <4>1, <4>4 DEF ClientRecords, ClientStates
    <3> QED
      BY <3>1 DEF Base, ClientsOK
  <2> QED
    BY <2>1, <2>3, <2>4, <2>5, <2>6, <2>7 DEF TypeOK
<1> QED
  BY <1>1, BaseCorrect, IntactCorrect, PTL

\* Every file on disk is a prefix of the real one, in however many attempts,
\* requests and lives of flexo it was written, and whatever was in a buffer when
\* flexo was killed.
THEOREM FilesIntact == Spec /\ []FlushedInTime => []FileIntact
<1>1. Intact => FileIntact
  BY DEF Intact
<1> QED
  BY <1>1, IntactCorrect, PTL

\* "no file needs to be downloaded more often than once" (README.md).
THEOREM NoBlockTwice == Spec /\ []FlushedInTime => []DownloadedOnce
<1>1. Base /\ Intact => DownloadedOnce
  <2> SUFFICES ASSUME Base, Intact, NEW i \in 1..Len(files), NEW k \in 1..Len(files[i])
               PROVE  files[i][k] = k
    BY DEF DownloadedOnce
  <2>1. files[i] = Blocks(Len(files[i])) /\ Len(files[i]) \in Nat
    BY FilesTypes DEF Base, Intact, FileIntact
  <2> QED
    BY <2>1, BlocksType
<1> QED
  BY <1>1, BaseCorrect, IntactCorrect, PTL

\* If every job flushes before the next one is scheduled, then what a client has
\* been sent is at any time the next piece of the real file, from where it resumed:
\* nothing skipped, nothing twice, nothing beyond the end.  Kills, purges, failed
\* writes and mirrors that ignore Range are allowed.  The code does not guarantee
\* the hypothesis (lib.rs removes the order before it drops the BufWriter), and
\* Download_flush_race shows a step that breaks it.
THEOREM Ordered == Spec /\ []FlushedInTime => []DeliveredInOrder
<1>1. Intact => DeliveredInOrder
  BY DEF Intact, ReceivedInv, DeliveredInOrder
<1> QED
  BY <1>1, IntactCorrect, PTL

-----------------------------------------------------------------------------
(* The CFS file. *)

LEMMA SizesType ==
    /\ Size \in Nat \ {0} /\ Size \in Sizes /\ Missing \notin Sizes /\ Torn \notin Sizes
    /\ Missing # Torn /\ \A n \in Sizes : n \in Nat /\ n >= Size
BY SizeAssumption DEF Sizes, Missing, Torn

\* While no job works, persist_and_get_cache_state finds nothing to correct.
LEMMA CfsPersist ==
    ASSUME Base, CfsInv, ~in_progress, PersistCacheState
    PROVE  UNCHANGED cfs /\ (cfs # Missing => UNCHANGED <<files, linked>>)
<1>1. cfs \in {Missing} \cup Sizes
  BY DEF CfsInv, Base, OrderInv, Working
<1>2. CASE cfs = Missing
  <2>1. linked => OnDisk = 0
    <3>1. linked => Len(files) \in 1..Len(files)
      BY FilesTypes, EmptySeq DEF Base, FilesOK
    <3>2. linked => files[Len(files)] = <<>>
      BY <1>2, <3>1 DEF CfsInv
    <3> QED
      BY <3>2, EmptySeq DEF OnDisk
  <2>2. ~IsCached
    BY <1>2, <2>1 DEF IsCached, Missing
  <2> QED
    BY <1>2, <2>2 DEF PersistCacheState
<1>3. CASE cfs \in Sizes
  <2>1. cfs >= 0 /\ cfs # Missing
    BY <1>3, SizesType
  <2>2. ~(linked /\ ~IsCached) /\ KnownSize = cfs
    BY <2>1 DEF IsCached, KnownSize
  <2> QED
    BY <2>2 DEF PersistCacheState
<1> QED
  BY <1>1, <1>2, <1>3

LEMMA CfsInit == Init => CfsInv
<1> SUFFICES ASSUME Init PROVE CfsInv
  OBVIOUS
<1>1. NoJob.pc = "ended" /\ NoJob.buffer = <<>>
  BY DEF NoJob
<1>2. files = <<>> /\ cfs = Missing /\ purging = FALSE /\ \A j \in Jobs : job[j] = NoJob
  BY DEF Init
<1>3. \A i \in 1..Len(files) : files[i] = <<>>
  <2>1. Len(files) = 0
    BY <1>2, EmptySeq
  <2> QED
    BY <2>1
<1> QED
  BY <1>1, <1>2, <1>3 DEF CfsInv, Missing, Torn

LEMMA CfsRequest ==
    ASSUME Base, Base', CfsInv, NEW c \in Clients, Request(c)
    PROVE  CfsInv'
<1>1. /\ UNCHANGED purging
      /\ (PersistCacheState /\ ~in_progress) \/ UNCHANGED diskVars
      /\ \/ UNCHANGED job
         \/ \E j \in Jobs :
               job' = [job EXCEPT ![j] = [NoJob EXCEPT !.pc = "open", !.left = NumMirrors]]
               /\ job[j].pc = "ended"
  BY RequestSteps DEF Base
<1> DEFINE s == [NoJob EXCEPT !.pc = "open", !.left = NumMirrors]
<1>2. s.pc = "open" /\ s.buffer = <<>>
  BY DEF NoJob
<1> HIDE DEF s
<1>3. \A i \in Jobs : job'[i] = job[i] \/ (job'[i] = s /\ job[i].pc = "ended")
  BY <1>1 DEF s, Base, JobsOK
<1>4. KeepsFiles /\ UNCHANGED cfs /\ (cfs # Missing => UNCHANGED linked)
  BY <1>1, CfsPersist, PersistEffect, SameFiles DEF Base
<1>5. (\E j \in Jobs : job[j].pc \in {"request", "cfs", "body"}) => UNCHANGED linked
  BY <1>1 DEF Base, OrderInv, Working
<1>6. Len(files) \in Nat /\ Len(files') \in Nat
  BY FilesTypes, LenProperties DEF Base, FilesOK
<1>7. cfs = Missing => \A i \in 1..Len(files') : files'[i] = <<>>
  BY <1>4, <1>6 DEF CfsInv, KeepsFiles
<1> QED
  BY <1>1, <1>2, <1>3, <1>4, <1>5, <1>7 DEF CfsInv

LEMMA CfsDownload ==
    ASSUME Base, Base', CfsInv, NEW j \in Jobs, Download(j)
    PROVE  CfsInv'
<1>1. JobStep(j) /\ CfsStep(j) /\ Counts(j)
  BY JobSteps, DownloadMails, JobCounts DEF Base
<1>2. UNCHANGED <<files, linked>> \/ OpenStep(j) \/ GrowStep(j)
  BY DownloadFiles DEF Base
<1>3. \A i \in Jobs \ {j} : job'[i] = job[i]
  BY <1>1 DEF JobStep
<1>4. ASSUME NEW i \in Jobs \ {j}, job[i].pc \in {"cfs", "body"} PROVE UNCHANGED cfs
  <2>1. job[j].pc \notin {"request", "cfs"}
    BY <1>4 DEF Base, OrderInv, Working
  <2> QED
    BY <1>1, <2>1 DEF CfsStep
<1>5. Size \in Nat /\ job[j].size_written \in Nat /\ job[j].length \in Nat
  BY SizeAssumption DEF Base, JobsOK, JobRecords
<1>6. ASSUME NEW cl \in ContentLengths(j) PROVE job[j].size_written + cl \in Sizes
  <2>1. cl = Size - job[j].size_written \/ (IgnoresRange /\ cl = Size)
    BY <1>6 DEF ContentLengths
  <2> QED
    BY <1>5, <2>1 DEF Sizes
<1>7. job'[j].pc \in {"cfs", "body"} => job'[j].length \in Sizes
  BY <1>1, <1>6 DEF CfsStep, CfsInv
<1>8. /\ cfs' \in {Missing, Torn} \cup Sizes
      /\ cfs' = Missing => cfs = Missing
      /\ cfs = Torn \/ cfs' = cfs \/ cfs' = Torn
  BY <1>1, SizesType DEF CfsStep, CfsInv
<1>9. cfs' = Torn => \E i \in Jobs : job'[i].pc = "cfs"
  <2> SUFFICES ASSUME cfs' = Torn PROVE \E i \in Jobs : job'[i].pc = "cfs"
    OBVIOUS
  <2>1. Torn \notin Sizes /\ Missing # Torn
    BY SizesType
  <2>2. CASE UNCHANGED cfs /\ job[j].pc # "cfs"
    BY <1>3, <2>2 DEF CfsInv
  <2>3. CASE job[j].pc = "cfs" /\ cfs' = IF cfs = Missing THEN Missing ELSE job[j].length
    BY <2>1, <2>3 DEF CfsInv
  <2> QED
    BY <1>1, <2>2, <2>3 DEF CfsStep
<1>10. \A i \in Jobs : job'[i].pc = "cfs" => cfs' = Torn
  BY <1>1, <1>3, <1>4 DEF CfsStep, CfsInv
<1>11. \A i \in Jobs : job'[i].pc = "body" => cfs' \in Sizes
  <2>1. Missing # Torn
    BY SizesType
  <2> QED
    BY <1>1, <1>3, <1>4, <2>1 DEF CfsStep, CfsInv
<1>12. ASSUME cfs = Missing
       PROVE  /\ \A i \in 1..Len(files') : files'[i] = <<>>
              /\ \A i \in Jobs : job'[i].buffer = <<>>
  <2>1. job[j].pc # "body" /\ ~WriteBlock(j) /\ ~WriteFails(j)
    BY <1>12, SizesType DEF CfsInv, WriteBlock, WriteFails, Running
  <2>2. \A i \in Jobs : job'[i].buffer = <<>>
    BY <1>1, <1>3, <1>12, <2>1 DEF Counts, CfsInv
  <2>3. Len(files) \in Nat /\ Len(files') \in Nat
    BY FilesTypes, LenProperties DEF Base, FilesOK
  <2>4. CASE UNCHANGED <<files, linked>>
    BY <1>12, <2>2, <2>4 DEF CfsInv
  <2>5. CASE OpenStep(j)
    <3>1. ASSUME NEW i \in 1..Len(files'), i \notin 1..Len(files) PROVE files'[i] = <<>>
      <4>1. i = Len(files') /\ ~linked
        BY <2>3, <2>5, <3>1 DEF OpenStep
      <4> QED
        BY <2>5, <4>1 DEF OpenStep
    <3> QED
      BY <1>12, <2>2, <2>5, <3>1 DEF OpenStep, CfsInv
  <2>6. CASE GrowStep(j)
    <3> DEFINE n == job[j].inode
    <3>1. n \in 1..Len(files) /\ UNCHANGED linked
      BY <2>3, <2>6 DEF GrowStep, Base, JobsOK, JobRecords, InodesInv
    <3>2. PICK bs \in Seq(1..Size) : /\ \E d \in Seq(1..Size) : bs \o d = job[j].buffer
                                     /\ files' = [files EXCEPT ![n] = @ \o bs]
      BY <2>1, <2>6 DEF GrowStep, Appended
    <3>3. bs = <<>> /\ files[n] = <<>> /\ \A i \in 1..Len(files) : files[i] = <<>>
      BY <1>12, <3>1, <3>2, EmptyPrefix DEF CfsInv
    <3>4. /\ Len(files') = Len(files) /\ files'[n] = files[n] \o bs
          /\ \A i \in 1..Len(files) : i # n => files'[i] = files[i]
      BY <3>1, <3>2, AppendedEffect DEF Base
    <3>5. files[n] \o bs = <<>>
      BY <3>3, ConcatEmptySeq, EmptySeq
    <3> QED
      BY <2>2, <3>3, <3>4, <3>5
  <2> QED
    BY <1>2, <2>4, <2>5, <2>6
<1>13. ASSUME ~PurgesPackages
       PROVE  /\ cfs' # Missing => linked'
              /\ \A i \in Jobs : job'[i].pc \in {"request", "cfs", "body"} => linked'
  <2>1. linked => linked'
    BY <1>2 DEF OpenStep, GrowStep
  <2>2. OpenFile(j) => linked'
    BY DEF OpenFile
  <2>3. cfs' # Missing => linked'
    BY <1>1, <1>13, <2>1 DEF CfsStep, CfsInv
  <2>4. job'[j].pc \in {"request", "cfs", "body"} =>
           OpenFile(j) \/ job[j].pc \in {"request", "cfs", "body"}
    BY <1>1 DEF CfsStep
  <2> QED
    BY <1>3, <1>13, <2>1, <2>2, <2>3, <2>4 DEF CfsInv
<1>14. purging' = FALSE
  BY <1>1 DEF JobStep, CfsInv
<1> QED
  BY <1>3, <1>7, <1>8, <1>9, <1>10, <1>11, <1>12, <1>13, <1>14 DEF CfsInv

LEMMA CfsInvStep ==
    ASSUME CfsUndisturbed
    PROVE  Base /\ Base' /\ CfsInv /\ [Next]_vars => CfsInv'
<1> SUFFICES ASSUME Base, Base', CfsInv, [Next]_vars PROVE CfsInv'
  OBVIOUS
<1>1. CASE UNCHANGED <<files, linked, cfs, purging, job>>
  BY <1>1 DEF CfsInv
<1>2. ASSUME NEW c \in Clients, Serve(c) \/ ClientCloses(c) PROVE CfsInv'
  BY <1>1, <1>2, ServeSteps DEF Base, ServeStep
<1>3. CASE Purge
  <2>1. CASE PurgePackage
    <3>1. /\ KeepsFiles /\ PurgesPackages /\ UNCHANGED <<cfs, purging, job>>
      BY <2>1, UnlinkEffect DEF PurgePackage, Base
    <3>2. Len(files) \in Nat /\ Len(files') \in Nat
      BY FilesTypes, LenProperties DEF Base, FilesOK
    <3>3. cfs = Missing => \A i \in 1..Len(files') : files'[i] = <<>>
      BY <3>1, <3>2 DEF CfsInv, KeepsFiles
    <3> QED
      BY <3>1, <3>3 DEF CfsInv
  <2>2. ~PurgeCfsCheck
    BY DEF PurgeCfsCheck, CfsUndisturbed, CfsInv
  <2>3. ~PurgeCfsRemove
    BY DEF PurgeCfsRemove, CfsInv
  <2> QED
    BY <1>3, <2>1, <2>2, <2>3 DEF Purge
<1>4. ~CrashAndRestart
  <2>1. crashes \in Nat /\ MaxCrashes = 0
    BY DEF Base, RestOK, CfsUndisturbed
  <2> QED
    BY <2>1 DEF CrashAndRestart
<1> QED
  BY <1>1, <1>2, <1>3, <1>4, CfsRequest, CfsDownload DEF Next

\* While flexo is not killed, no mirror ignores Range, and packages and CFS files
\* are not both purged, the CFS file holds the size that the complete file will
\* have, whatever is retried at however many mirrors, and even if jobs flush late
\* or writes fail.  TLC violates CfsIsCompleteSize, or DeliveredWhole for a kill,
\* if any one of the three hypotheses is dropped.
THEOREM SizeKnown ==
    ASSUME SizeUndisturbed
    PROVE  Spec => []CfsIsCompleteSize
<1>1. CfsInv => CfsIsCompleteSize
  BY DEF CfsInv, CfsIsCompleteSize, Missing, Torn, SizeUndisturbed, Sizes
<1>2. CfsUndisturbed
  BY DEF SizeUndisturbed
<1>3. Base /\ Base' /\ CfsInv /\ [Next]_vars => CfsInv'
  BY <1>2, CfsInvStep
<1> QED
  BY <1>1, <1>3, BaseCorrect, CfsInit, PTL DEF Spec

-----------------------------------------------------------------------------
(* Whoever is served to the end has got the whole file. *)

\* A file that is complete stays as it is.
LEMMA WholeKept ==
    ASSUME Undisturbed, Base, Base', CfsInv, Intact, Intact', Whole, [Next]_vars
    PROVE  Whole'
<1>1. Len(files) \in 1..Len(files) /\ OnDisk = Size /\ linked /\ Size \in Nat \ {0}
  BY OnDiskSize, SizeAssumption DEF Whole, Intact
<1>2. CASE UNCHANGED <<files, linked>>
  <2>1. files' = files /\ linked' = linked
    BY <1>2
  <2>2. OnDisk' = OnDisk
    BY <2>1 DEF OnDisk
  <2> QED
    BY <1>1, <2>1, <2>2 DEF Whole
<1>3. PersistCacheState => UNCHANGED <<files, linked>>
  <2>1. OnDisk > 0
    BY <1>1
  <2>2. IsCached
    BY <1>1, <2>1 DEF IsCached
  <2> QED
    BY <2>2 DEF PersistCacheState
<1>4. ASSUME NEW c \in Clients, Request(c) PROVE Whole'
  BY <1>2, <1>3, <1>4, RequestSteps DEF Base
<1>5. ASSUME NEW c \in Clients, Serve(c) \/ ClientCloses(c) PROVE Whole'
  BY <1>2, <1>5, ServeSteps DEF Base, ServeStep
<1>6. ASSUME NEW j \in Jobs, GrowStep(j) PROVE Whole'
  <2> DEFINE n == job[j].inode
  <2>1. n \in 1..Len(files) /\ UNCHANGED linked
    BY <1>1, <1>6 DEF GrowStep, Base, JobsOK, JobRecords, InodesInv
  <2>2. PICK bs \in Seq(1..Size) : files' = [files EXCEPT ![n] = @ \o bs]
    BY <1>6 DEF GrowStep, Appended
  <2>3. /\ Len(files') = Len(files) /\ files'[n] = files[n] \o bs
        /\ \A i \in 1..Len(files) : i # n => files'[i] = files[i]
    BY <2>1, <2>2, AppendedEffect DEF Base
  <2>4. Len(files[n] \o bs) = Len(files[n]) + Len(bs) /\ Len(files[n]) \in Nat /\ Len(bs) \in Nat
    <3>1. files[n] \in Seq(1..Size)
      BY <2>1, FilesTypes DEF Base
    <3> QED
      BY <3>1, ConcatProperties, LenProperties
  <2>5. Len(files'[n]) <= Size
    BY <2>1, <2>3 DEF Intact, FileIntact
  <2> HIDE DEF n
  <2>6. Len(files'[Len(files)]) = Size
    <3>1. CASE n = Len(files)
      BY <1>1, <2>3, <2>4, <2>5, <3>1 DEF OnDisk
    <3>2. CASE n # Len(files)
      BY <1>1, <2>3, <3>2 DEF OnDisk
    <3> QED
      BY <3>1, <3>2
  <2> QED
    BY <1>1, <2>1, <2>3, <2>6 DEF Whole, OnDisk
<1>7. ASSUME NEW j \in Jobs, Download(j) PROVE Whole'
  <2>1. UNCHANGED <<files, linked>> \/ OpenStep(j) \/ GrowStep(j)
    BY <1>7, DownloadFiles DEF Base
  <2>2. OpenStep(j) => UNCHANGED <<files, linked>>
    BY <1>1 DEF OpenStep
  <2> QED
    BY <1>2, <1>6, <2>1, <2>2
<1>8. CASE Purge
  BY <1>2, <1>8 DEF Purge, PurgePackage, PurgeCfsCheck, PurgeCfsRemove, Undisturbed
<1>9. ~CrashAndRestart
  <2>1. crashes \in Nat /\ MaxCrashes = 0
    BY DEF Base, RestOK, Undisturbed
  <2> QED
    BY <2>1 DEF CrashAndRestart
<1> QED
  BY <1>2, <1>4, <1>5, <1>7, <1>8, <1>9 DEF Next

LEMMA WholeInit == Init => WholeInv
<1> SUFFICES ASSUME Init PROVE WholeInv
  OBVIOUS
<1>1. NoJob.inode = 0 /\ Dropped.kind = "Dropped"
  BY DEF NoJob, Dropped, Message
<1>2. NoClient.pc = "idle"
  BY DEF NoClient
<1>3. \A j \in Jobs : job[j] = NoJob /\ mailbox[j][1] = Dropped
  BY DEF Init
<1> QED
  BY <1>1, <1>2, <1>3 DEF WholeInv, WorkingInv, MailsInv, ClientInv, Init

LEMMA WholeRequest ==
    ASSUME Undisturbed, Base, Base', CfsInv, Intact, Intact', WholeInv,
           NEW c \in Clients, Request(c), Whole => Whole'
    PROVE  WholeInv'
<1>1. /\ ClientStep(c)
      /\ client'[c].pc \in {"idle", "open_complete", "await_size", "await_cfs"}
      /\ client'[c].pc = "open_complete" =>
            PersistCacheState /\ ~in_progress /\ IsCached /\ KnownSize = OnDisk
      /\ (PersistCacheState /\ ~in_progress) \/ UNCHANGED diskVars
      /\ \/ UNCHANGED <<in_progress, job, mailbox>>
         \/ \E j \in Jobs :
               /\ job[j].pc = "ended"
               /\ job' = [job EXCEPT ![j] = [NoJob EXCEPT !.pc = "open", !.left = NumMirrors]]
               /\ mailbox' = [mailbox EXCEPT ![j] = <<>>]
  BY RequestSteps DEF Base
<1> DEFINE s == [NoJob EXCEPT !.pc = "open", !.left = NumMirrors]
<1>2. s.inode = 0
  BY DEF NoJob
<1> HIDE DEF s
<1>3. \A i \in Jobs : (job'[i] = job[i] \/ job'[i] = s) /\ mailbox'[i] \in {mailbox[i], <<>>}
  BY <1>1 DEF s, Base, JobsOK, MailboxOK
<1>4. WorkingInv'
  <2> SUFFICES ASSUME NEW j \in Jobs, Working(j)', job'[j].inode # 0
               PROVE  linked' /\ job'[j].inode = Len(files')
    BY DEF WorkingInv
  <2>1. job'[j] = job[j]
    BY <1>2, <1>3
  <2>2. Working(j) /\ job[j].inode # 0 /\ in_progress
    BY <2>1 DEF Working, Base, OrderInv
  <2> QED
    BY <1>1, <2>1, <2>2 DEF WholeInv, WorkingInv
<1>5. MailsInv'
  BY <1>3 DEF WholeInv, MailsInv
<1>6. ClientInv(c)'
  <2> SUFFICES ASSUME client'[c].pc = "open_complete" PROVE Whole'
    BY <1>1 DEF ClientInv
  <2>1. PersistCacheState /\ ~in_progress /\ IsCached /\ KnownSize = OnDisk
    BY <1>1
  <2>2. UNCHANGED cfs
    BY <2>1, CfsPersist
  <2>3. cfs' = KnownSize
    BY <2>1 DEF PersistCacheState
  <2>4. linked /\ OnDisk \in Nat
    BY <2>1, OnDiskSize DEF IsCached, Intact
  <2>5. KnownSize \in Nat /\ cfs = OnDisk
    BY <2>1, <2>2, <2>3, <2>4
  <2>6. OnDisk >= Size
    BY <2>4, <2>5, SizesType DEF CfsInv, Missing, Torn
  <2>7. OnDisk = Size
    BY <2>4, <2>6, OnDiskSize, SizesType DEF Intact
  <2> QED
    BY <2>4, <2>7 DEF Whole
<1>7. \A d \in Clients : ClientInv(d)'
  BY <1>1, <1>6 DEF ClientStep, ClientInv, WholeInv, Offset
<1> QED
  BY <1>4, <1>5, <1>7 DEF WholeInv

LEMMA WholeServe ==
    ASSUME Base, Base', CfsInv, Intact, Intact', WholeInv,
           NEW c \in Clients, Serve(c) \/ ClientCloses(c), Whole => Whole'
    PROVE  WholeInv'
<1>1. /\ ClientStep(c) /\ MailboxStep(c)
      /\ UNCHANGED <<diskVars, in_progress, purging, crashes, job>>
  BY ServeSteps DEF Base, ServeStep
<1>2. Knows(c)
  BY ClientKnows DEF Base
<1>3. WorkingInv'
  BY <1>1 DEF WholeInv, WorkingInv, Working
<1>4. MailsInv'
  <2>1. <<Dropped>>[1].kind = "Dropped"
    BY DEF Dropped, Message
  <2>2. \A j \in Jobs : mailbox'[j] \in {mailbox[j], <<Dropped>>}
    BY <1>1 DEF MailboxStep, Base, MailboxOK
  <2> QED
    BY <2>1, <2>2 DEF WholeInv, MailsInv
<1>5. /\ Size \in Nat /\ client[c].resume_from \in 0..Size
      /\ Offset(c)' = client'[c].resume_from + Len(client'[c].received)
      /\ Offset(c) = client[c].resume_from + Len(client[c].received)
      /\ Offset(c) \in Nat /\ Offset(c) <= Size
  <2>1. client[c].resume_from \in 0..Size /\ Len(client[c].received) \in Nat
    BY LenProperties DEF Base, ClientsOK, ClientRecords
  <2> QED
    BY <2>1, SizeAssumption DEF Offset, Intact, ReceivedInv
<1>6. \A n \in Sizes : Promised(c, n) \in Sizes
  <2> SUFFICES ASSUME NEW n \in Sizes PROVE Promised(c, n) \in Sizes
    OBVIOUS
  <2>1. n \in Nat /\ n >= client[c].resume_from
    BY <1>5, SizesType
  <2> QED
    BY <1>5, <2>1 DEF Promised
<1>7. ClientInv(c)
  BY DEF WholeInv
<1>8. ClientInv(c)'
  <2>1. CASE client'[c] = NoClient
    <3>1. NoClient.pc = "idle"
      BY DEF NoClient
    <3> QED
      BY <2>1, <3>1 DEF ClientInv
  <2>2. CASE client[c].pc = "await_size" /\ mailbox[client[c].job] # <<>>
    <3>1. client[c].job \in Jobs
      BY DEF Base, ClientsOK, ClientRecords
    <3>2. /\ mailbox[client[c].job][1].kind = "JobSize" => mailbox[client[c].job][1].size \in Sizes
          /\ mailbox[client[c].job][1].kind = "Completed" => Whole
      BY <2>2, <3>1 DEF WholeInv, MailsInv
    <3>3. \/ client'[c] = NoClient
          \/ client'[c].pc = "open_growing" /\ client'[c].promised \in Sizes
          \/ client'[c].pc = "open_complete" /\ Whole
      BY <1>2, <1>6, <2>2, <3>2 DEF Knows
    <3> QED
      BY <2>1, <3>3 DEF ClientInv
  <2>3. CASE client'[c].pc = "open_growing" /\ cfs >= 0 /\ client'[c].promised = Promised(c, cfs)
    <3>1. cfs \in Sizes
      BY <2>3 DEF CfsInv, Missing, Torn
    <3> QED
      BY <1>6, <2>3, <3>1 DEF ClientInv
  <2>4. CASE /\ client[c].pc \in {"open_growing", "streaming"} /\ client'[c].pc = "streaming"
             /\ client'[c].promised = client[c].promised
    BY <1>7, <2>4 DEF ClientInv
  <2>5. CASE /\ client[c].pc = "open_complete" /\ client'[c].pc = "served" /\ linked
             /\ client'[c].resume_from = client[c].resume_from
             /\ client'[c].received = SubSeq(files[Len(files)], client[c].resume_from + 1, OnDisk)
    <3> DEFINE r == client[c].resume_from
               q == client'[c].received
    <3>1. q = SubSeq(files[Len(files)], r + 1, Len(files[Len(files)])) /\ Len(files[Len(files)]) = Size
      BY <1>7, <2>5 DEF OnDisk, ClientInv, Whole
    <3>2. Len(files) \in 1..Len(files) /\ r \in 0..Size
      BY <1>5, <2>5, OnDiskSize DEF Intact
    <3> HIDE DEF q, r
    <3>3. r + Len(q) = Size
      BY <3>1, <3>2, FirstPiece DEF Base, Intact
    <3>4. Offset(c)' = Size
      BY <1>5, <2>5, <3>3 DEF q, r
    <3> QED
      BY <2>5, <3>4 DEF ClientInv
  <2>6. CASE /\ client[c].pc = "streaming" /\ client'[c].pc = "served"
             /\ Offset(c) >= client[c].promised
             /\ client'[c].resume_from = client[c].resume_from
             /\ client'[c].received = client[c].received
    <3>1. client[c].promised \in Nat /\ client[c].promised >= Size
      BY <1>7, <2>6, SizesType DEF ClientInv
    <3>2. Offset(c)' = Size
      BY <1>5, <2>6, <3>1
    <3> QED
      BY <2>6, <3>2 DEF ClientInv
  <2> QED
    BY <1>2, <2>1, <2>2, <2>3, <2>4, <2>5, <2>6 DEF Knows
<1>9. \A d \in Clients : ClientInv(d)'
  <2>1. ASSUME NEW d \in Clients \ {c} PROVE ClientInv(d)'
    <3>1. client'[d] = client[d] /\ Offset(d)' = Offset(d)
      BY <1>1 DEF ClientStep, Offset
    <3>2. ClientInv(d)
      BY DEF WholeInv
    <3> QED
      BY <3>1, <3>2 DEF ClientInv
  <2> QED
    BY <1>8, <2>1
<1> QED
  BY <1>3, <1>4, <1>9 DEF WholeInv

LEMMA WholeDownload ==
    ASSUME Base, Base', CfsInv, Intact, Intact', WholeInv,
           NEW j \in Jobs, Download(j), Whole => Whole'
    PROVE  WholeInv'
<1>1. JobStep(j) /\ Counts(j) /\ MailsStep(j)
  BY JobSteps, JobCounts, DownloadMails DEF Base
<1>2. UNCHANGED <<files, linked>> \/ OpenStep(j) \/ GrowStep(j)
  BY DownloadFiles DEF Base
<1>3. GrowStep(j) => Len(files') = Len(files) /\ UNCHANGED linked
  BY GrowIntact DEF Base, GrowStep
<1>4. WorkingInv'
  <2>1. ASSUME NEW i \in Jobs \ {j}, Working(i)', job'[i].inode # 0
        PROVE  linked' /\ job'[i].inode = Len(files')
    <3>1. job'[i] = job[i] /\ Working(i)
      BY <1>1, <2>1 DEF JobStep, Working
    <3>2. linked /\ job[i].inode = Len(files)
      BY <2>1, <3>1 DEF WholeInv, WorkingInv
    <3>3. OpenStep(j) => UNCHANGED <<files, linked>>
      BY <3>2 DEF OpenStep
    <3> QED
      BY <1>2, <1>3, <3>1, <3>2, <3>3
  <2>2. ASSUME Working(j)', job'[j].inode # 0
        PROVE  linked' /\ job'[j].inode = Len(files')
    <3>1. Working(j)
      BY <1>1, <2>2 DEF JobStep
    <3>2. job[j].inode # 0 => linked /\ job[j].inode = Len(files)
      BY <3>1 DEF WholeInv, WorkingInv
    <3>3. OpenFile(j) => linked'
      BY DEF OpenFile
    <3>4. WriteBlock(j) \/ WriteFails(j) => GrowStep(j)
      BY DownloadFiles DEF Base
    <3> QED
      BY <1>1, <1>3, <2>2, <3>2, <3>3, <3>4 DEF Counts
  <2> QED
    BY <2>1, <2>2 DEF WorkingInv
<1>5. ASSUME RangeNotSatisfiable(j) PROVE Whole'
  <2>1. /\ job[j].pc = "request" /\ job[j].size_written >= Size /\ Working(j)
    BY <1>5 DEF RangeNotSatisfiable, Ends, Running, Working
  <2>2. /\ job[j].inode # 0 /\ job[j].buffer = <<>> /\ job[j].size_written \in Nat
        /\ job[j].size_written <= Size /\ Size \in Nat
    BY <2>1, SizeAssumption DEF Base, JobsOK, JobRecords, JobOK, Intact, SizesInv
  <2>3. linked /\ job[j].inode = Len(files) /\ Len(files) \in 1..Len(files)
    BY <2>1, <2>2, OnDiskSize DEF WholeInv, WorkingInv, Intact
  <2>4. files[Len(files)] \o <<>> = Blocks(Size)
    <3>1. job[j].size_written = Size
      BY <2>1, <2>2
    <3> QED
      BY <2>1, <2>2, <2>3, <3>1 DEF Intact, WrittenInv, Writes
  <2>5. files[Len(files)] = Blocks(Size)
    <3>1. files[Len(files)] \in Seq(1..Size)
      BY <2>3, FilesTypes DEF Base
    <3> QED
      BY <2>4, <3>1, ConcatEmptySeq
  <2>6. OnDisk = Size
    BY <2>2, <2>5, BlocksType DEF OnDisk
  <2> QED
    BY <2>3, <2>6 DEF Whole
<1>6. MailsInv'
  <2>1. CASE UNCHANGED mailbox
    BY <2>1 DEF WholeInv, MailsInv
  <2>2. ASSUME NEW m \in MessagesUpTo(Nat), Send(j, m),
               m.kind = "JobSize" => job[j].pc = "cfs" /\ m.size = job[j].length,
               m.kind = "Completed" => RangeNotSatisfiable(j)
        PROVE  MailsInv'
    <3>1. /\ \A i \in Jobs \ {j} : mailbox'[i] = mailbox[i]
          /\ mailbox'[j] = IF mailbox[j] = <<>> THEN <<m>> ELSE mailbox[j]
      BY <2>2, SendEffect DEF Base
    <3>2. m.kind = "JobSize" => m.size \in Sizes
      BY <2>2 DEF CfsInv
    <3>3. m.kind = "Completed" => Whole'
      BY <1>5, <2>2
    <3> QED
      BY <3>1, <3>2, <3>3 DEF WholeInv, MailsInv
  <2> QED
    BY <1>1, <2>1, <2>2 DEF MailsStep
<1>7. \A c \in Clients : ClientInv(c)'
  <2>1. UNCHANGED client
    BY <1>1 DEF JobStep
  <2> QED
    BY <2>1 DEF WholeInv, ClientInv, Offset
<1> QED
  BY <1>4, <1>6, <1>7 DEF WholeInv

LEMMA WholeStep ==
    ASSUME Undisturbed
    PROVE  Base /\ Base' /\ CfsInv /\ Intact /\ Intact' /\ WholeInv /\ [Next]_vars => WholeInv'
<1> SUFFICES ASSUME Base, Base', CfsInv, Intact, Intact', WholeInv, [Next]_vars PROVE WholeInv'
  OBVIOUS
<1>1. Whole => Whole'
  BY WholeKept
<1>2. CASE UNCHANGED <<files, linked, job, mailbox, client>>
  <2>1. WorkingInv' /\ MailsInv'
    BY <1>1, <1>2 DEF WholeInv, WorkingInv, MailsInv, Working
  <2>2. \A c \in Clients : ClientInv(c)'
    BY <1>1, <1>2 DEF WholeInv, ClientInv, Offset
  <2> QED
    BY <2>1, <2>2 DEF WholeInv
<1>3. CASE Purge
  BY <1>2, <1>3 DEF Purge, PurgePackage, PurgeCfsCheck, PurgeCfsRemove, Undisturbed
<1>4. ~CrashAndRestart
  <2>1. crashes \in Nat /\ MaxCrashes = 0
    BY DEF Base, RestOK, Undisturbed
  <2> QED
    BY <2>1 DEF CrashAndRestart
<1> QED
  BY <1>1, <1>2, <1>3, <1>4, WholeRequest, WholeServe, WholeDownload DEF Next

\* A client that is served to the end has got exactly the rest of the real file,
\* if it came from a file that was complete as well as from one that still grew:
\* while no package is purged, flexo is not killed, and every job flushes before
\* the next one is scheduled.  Writes may fail and mirrors may ignore Range.  Each
\* of the three hypotheses is needed: a purge (Download_purged_hit) and a kill violate
\* it, and late flushes make the file itself wrong (Download_flush_race).
THEOREM ServedWhole ==
    ASSUME Undisturbed
    PROVE  Spec /\ []FlushedInTime => []DeliveredWhole
<1>1. CfsUndisturbed
  BY DEF Undisturbed, CfsUndisturbed
<1>2. Intact /\ WholeInv => DeliveredWhole
  BY DEF Intact, ReceivedInv, WholeInv, ClientInv, DeliveredWhole
<1>3. Base /\ Base' /\ CfsInv /\ [Next]_vars => CfsInv'
  BY <1>1, CfsInvStep
<1>4. Base /\ Base' /\ CfsInv /\ Intact /\ Intact' /\ WholeInv /\ [Next]_vars => WholeInv'
  BY WholeStep
<1>5. Init => CfsInv /\ WholeInv
  BY CfsInit, WholeInit
<1> QED
  BY <1>2, <1>3, <1>4, <1>5, BaseCorrect, IntactCorrect, PTL DEF Spec

=============================================================================
