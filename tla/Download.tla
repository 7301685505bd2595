------------------------------ MODULE Download -------------------------------
(***************************************************************************)
(* How one cacheable file gets from the mirrors into the cache and from    *)
(* the cache to the clients: the curl callbacks, the cache state and the   *)
(* CFS file of src/flexo/src/mirror_flexo.rs, the request handler and the  *)
(* purging of src/flexo/src/main.rs, and the part of the job thread of     *)
(* src/flexo/src/lib.rs that touches the file.                             *)
(*                                                                         *)
(* The content of the file is the blocks 1..Size in this order, the same   *)
(* at every mirror.  A job appends through a BufWriter to the file it has  *)
(* opened; clients read that file while it grows.  The hidden CFS file     *)
(* beside it holds the size the file will have.  Which mirror a job asks   *)
(* next is the matter of Scheduler, here an attempt is just one of         *)
(* NumMirrors.                                                             *)
(*                                                                         *)
(* An operator Mutant_X is a plausible mistake in the operator below it;   *)
(* nothing uses it, README.md says which property it breaks.               *)
(***************************************************************************)
EXTENDS Integers, Sequences

CONSTANTS
    Size,            \* blocks of the complete file
    NumMirrors,      \* the attempts a job has, the last one is its last chance
    Jobs,            \* bound: the job threads for this file at one time
    Clients,         \* bound: the requests for this file at one time
    IgnoresRange,    \* whether a mirror may answer a range request with 200
    WritesFail,      \* whether a write to the file may fail, as on a full disk
    PurgesPackages,  \* whether flexo_purge_cache may remove the file
    PurgesCfs,       \* whether purge_cfs_files runs
    MaxFiles,        \* bound: files on disk, removed but open ones included
    MaxCrashes       \* bound: how often flexo is killed and started again

ASSUME SizeAssumption == Size \in Nat \ {0} /\ NumMirrors \in Nat \ {0}

ASSUME JobsAssumption == Jobs # {}

ASSUME EnvironmentAssumption ==
    /\ {IgnoresRange, WritesFail, PurgesPackages, PurgesCfs} \subseteq BOOLEAN
    /\ MaxFiles \in Nat \ {0}
    /\ MaxCrashes \in Nat

Blocks(n) == [k \in 1..n |-> k]

\* A CFS file that is not there, and one that is truncated but not yet written.
Missing == -1
Torn    == -2

VARIABLES
    files,        \* the blocks on disk, of each file that is there or open
    linked,       \* whether the youngest of them is (still) in the directory
    cfs,          \* the number in the CFS file, or Missing, or Torn
    in_progress,  \* whether the order is in orders_in_progress
    purging,      \* purge_cfs_files has found no file and removes the CFS next
    crashes,
    job,          \* the state of each job thread, see NoJob
    mailbox,      \* the first message of a job's channel, the one that is read
    client        \* the state of each client's thread, see NoClient

diskVars == <<files, linked, cfs>>
vars     == <<diskVars, in_progress, purging, crashes, job, mailbox, client>>

\* inode: the file it has opened, 0 for none.  left: the attempts it has left,
\* this one included.  length: client_content_length.
NoJob ==
    [pc |-> "ended", inode |-> 0, size_written |-> 0, buffer |-> <<>>,
     left |-> 0, length |-> 0, result |-> "Complete"]

\* job: the one it has scheduled.  promised: complete_filesize, from which the
\* header is made.  source: the file it has opened, 0 for none.  received: the
\* blocks that it has sent to the client.
NoClient ==
    [pc |-> "idle", job |-> CHOOSE j \in Jobs : TRUE, resume_from |-> 0,
     promised |-> 0, source |-> 0, received |-> <<>>]

Message(k, n) == [kind |-> k, size |-> n]
Dropped       == Message("Dropped", 0)  \* the receiver is gone

Init ==
    /\ files = <<>> /\ linked = FALSE /\ cfs = Missing
    /\ in_progress = FALSE
    /\ purging = FALSE
    /\ crashes = 0
    /\ job = [j \in Jobs |-> NoJob]
    /\ mailbox = [j \in Jobs |-> <<Dropped>>]
    /\ client = [c \in Clients |-> NoClient]

-----------------------------------------------------------------------------
(* The cache state. *)

OnDisk == Len(files[Len(files)])

\* persist_and_get_cache_state: without a CFS file a file is taken to be
\* complete, and an empty one is removed.
IsCached  == linked /\ (cfs >= 0 \/ OnDisk > 0)
KnownSize == IF cfs >= 0 THEN cfs ELSE OnDisk

Opened(i) == \/ \E j \in Jobs : job[j].inode = i
             \/ \E c \in Clients : client[c].source = i

\* A removed file lives on while somebody has it open.  MaxFiles bounds it.
Unlink ==
    /\ linked' = FALSE
    /\ IF Opened(Len(files))
       THEN Len(files) < MaxFiles /\ UNCHANGED files
       ELSE files' = SubSeq(files, 1, Len(files) - 1)

\* The file is opened, its CFS file read, and if there is none the path is looked
\* up again.  A purge between these accesses does what one before or after them
\* does, except before that second look, whose expect then panics: it ends flexo,
\* see CrashAndRestart.
PersistCacheState ==
    /\ cfs' = IF IsCached THEN KnownSize ELSE cfs
    /\ IF linked /\ ~IsCached THEN Unlink ELSE UNCHANGED <<files, linked>>

-----------------------------------------------------------------------------
(* Requests: try_schedule and what serve_request does with its outcome. *)

Redirected(r) == IF IsCached THEN OnDisk < r ELSE r > 0
Cached(r)     == IsCached /\ OnDisk >= r /\ KnownSize = OnDisk

Begin(c, r, there) ==
    /\ client[c].pc \in {"idle", "served"}
    /\ client' = [client EXCEPT ![c] = [NoClient EXCEPT !.pc = there, !.resume_from = r]]
    /\ UNCHANGED <<crashes, purging>>

\* The client is sent to the best mirror, flexo is done with it.
RequestRedirected(c, r) ==
    /\ ~in_progress /\ Redirected(r)
    /\ PersistCacheState
    /\ Begin(c, 0, "idle")
    /\ UNCHANGED <<in_progress, job, mailbox>>

RequestCached(c, r) ==
    /\ ~in_progress /\ Cached(r)
    /\ PersistCacheState
    /\ Begin(c, r, "open_complete")
    /\ UNCHANGED <<in_progress, job, mailbox>>

RequestScheduled(c, r, j) ==
    /\ ~in_progress /\ ~Redirected(r) /\ ~Cached(r)
    /\ job[j].pc = "ended"
    /\ \A d \in Clients : client[d].pc = "await_size" => client[d].job # j
    /\ PersistCacheState
    /\ client[c].pc \in {"idle", "served"}
    /\ client' = [client EXCEPT ![c] =
          [NoClient EXCEPT !.pc = "await_size", !.resume_from = r, !.job = j]]
    /\ in_progress' = TRUE
    /\ job' = [job EXCEPT ![j] = [NoJob EXCEPT !.pc = "open", !.left = NumMirrors]]
    /\ mailbox' = [mailbox EXCEPT ![j] = <<>>]
    /\ UNCHANGED <<crashes, purging>>

RequestInProgress(c, r) ==
    /\ in_progress
    /\ Begin(c, r, "await_cfs")
    /\ UNCHANGED <<diskVars, in_progress, job, mailbox>>

\* The thread of c is at `here`, and goes on in the state s.
Serving(c, here, s) ==
    /\ client[c].pc = here
    /\ client' = [client EXCEPT ![c] = s]
    /\ UNCHANGED <<diskVars, in_progress, purging, crashes, job>>

\* The answer is 404, 400 or 500, or the connection is closed.
Rejected == NoClient

Promised(c, n) == IF n > client[c].resume_from THEN n ELSE client[c].resume_from

\* receive_content_length takes the first message and drops the receiver.
Receive(c, kinds) ==
    /\ \E i \in 1..Len(mailbox[client[c].job]) :
          mailbox[client[c].job][i].kind \in kinds
    /\ mailbox' = [mailbox EXCEPT ![client[c].job] = <<Dropped>>]

ReceiveJobSize(c) ==
    /\ Receive(c, {"JobSize"})
    /\ Serving(c, "await_size",
               [client[c] EXCEPT !.pc = "open_growing", !.job = NoClient.job,
                  !.promised = Promised(c, mailbox[client[c].job][1].size)])

ReceiveCompleted(c) ==
    /\ Receive(c, {"Completed"})
    /\ Serving(c, "await_size",
               [client[c] EXCEPT !.pc = "open_complete", !.job = NoClient.job])

ReceiveRejection(c) ==
    /\ Receive(c, {"Unavailable", "OrderError"})
    /\ Serving(c, "await_size", Rejected)

\* recv_timeout fails: the job is over, or TIMEOUT_RECEIVE_CONTENT_LENGTH is.
ReceiveNothing(c) ==
    /\ mailbox[client[c].job] = <<>>
    /\ mailbox' = [mailbox EXCEPT ![client[c].job] = <<Dropped>>]
    /\ Serving(c, "await_size", Rejected)

\* try_complete_filesize_from_path polls the CFS file for two seconds.
ReadCfs(c) ==
    /\ cfs >= 0
    /\ Serving(c, "await_cfs",
               [client[c] EXCEPT !.pc = "open_growing", !.promised = Promised(c, cfs)])
    /\ UNCHANGED mailbox

CfsTimeout(c) ==
    /\ cfs < 0
    /\ Serving(c, "await_cfs", Rejected)
    /\ UNCHANGED mailbox

OpenGrowing(c) ==
    /\ linked
    /\ Serving(c, "open_growing",
               [client[c] EXCEPT !.pc = "streaming", !.source = Len(files)])
    /\ UNCHANGED mailbox

\* serve_from_complete_file: the length the file has at this moment is promised
\* and sent.
ServeComplete(c) ==
    /\ linked
    /\ Serving(c, "open_complete",
               [client[c] EXCEPT !.pc = "served", !.promised = OnDisk,
                  !.received = SubSeq(files[Len(files)], client[c].resume_from + 1, OnDisk)])
    /\ UNCHANGED mailbox

\* File::open fails, the connection is closed.
OpenFailsForClient(c) ==
    /\ ~linked
    /\ \E here \in {"open_growing", "open_complete"} : Serving(c, here, Rejected)
    /\ UNCHANGED mailbox

Mutant_OffsetWithoutResume(c) == Len(client[c].received)
Offset(c)    == client[c].resume_from + Len(client[c].received)
SourceLen(c) == Len(files[client[c].source])

\* The iterations of serve_growing_file_loop: the file has grown, or nothing
\* came for GROWING_FILE_STALL_TIMEOUT, or everything is sent.
SendGrown(c) ==
    /\ client[c].pc = "streaming"
    /\ Offset(c) < client[c].promised /\ Offset(c) < SourceLen(c)
    /\ Serving(c, "streaming",
               [client[c] EXCEPT !.received =
                  @ \o SubSeq(files[client[c].source], Offset(c) + 1, SourceLen(c))])
    /\ UNCHANGED mailbox

Mutant_StallsBeforeTheFirstByte(c) == Offset(c) = 0 /\ Offset(c) >= SourceLen(c)
Stalled(c) == Offset(c) >= SourceLen(c)

StreamStalls(c) ==
    /\ client[c].pc = "streaming"
    /\ Offset(c) < client[c].promised /\ Stalled(c)
    /\ Serving(c, "streaming", Rejected)
    /\ UNCHANGED mailbox

Mutant_SentWhenStalled(c) ==
    Offset(c) >= client[c].promised \/ (Offset(c) > 0 /\ Offset(c) = SourceLen(c))
EverythingSent(c) == Offset(c) >= client[c].promised

StreamEnds(c) ==
    /\ client[c].pc = "streaming" /\ EverythingSent(c)
    /\ Serving(c, "streaming", [client[c] EXCEPT !.pc = "served", !.source = 0])
    /\ UNCHANGED mailbox

\* The client closes the connection while it is served.
ClientCloses(c) ==
    /\ Serving(c, "streaming", Rejected)
    /\ UNCHANGED mailbox

-----------------------------------------------------------------------------
(* The job thread: acquire_resources, the callbacks, and its end. *)

\* The thread of j is at `here`, and goes on in the state s.
Running(j, here, s) ==
    /\ job[j].pc = here
    /\ job' = [job EXCEPT ![j] = s]
    /\ UNCHANGED <<purging, crashes, client>>

Send(j, message) ==
    mailbox' = [mailbox EXCEPT ![j] = IF @ = <<>> THEN <<message>> ELSE @]

Mutant_StartAfresh(f) == 0
AlreadyWritten(f) == Len(f)

\* Opened for appending; size_written is the length on disk.
OpenFile(j) ==
    /\ linked' = TRUE
    /\ files' = IF linked THEN files ELSE Append(files, <<>>)
    /\ Running(j, "open",
               [job[j] EXCEPT !.pc = "request", !.inode = Len(files'),
                  !.size_written = AlreadyWritten(files'[Len(files')])])
    /\ UNCHANGED <<cfs, in_progress, mailbox>>

OpenFails(j) ==
    /\ Running(j, "open", [job[j] EXCEPT !.pc = "remove", !.result = "ClientError"])
    /\ Send(j, Message("OrderError", 0))
    /\ UNCHANGED <<diskVars, in_progress>>

\* The Content-Length of a 200 or 206.
ContentLengths(j) ==
    (IF job[j].size_written < Size THEN {Size - job[j].size_written} ELSE {}) \cup
    (IF IgnoresRange THEN {Size} ELSE {})

\* create_cfs_file truncates the CFS file, then writes it.
HeaderAccepted(j) ==
    /\ \E cl \in ContentLengths(j) :
          Running(j, "request",
                  [job[j] EXCEPT !.pc = "cfs", !.length = job[j].size_written + cl])
    /\ cfs' = Torn
    /\ UNCHANGED <<files, linked, in_progress, mailbox>>

Mutant_ProviderContentLength(j) == job[j].length - job[j].size_written
ClientContentLength(j) == job[j].length

Mutant_AnnounceNothing(j) == UNCHANGED mailbox
Announce(j) == Send(j, Message("JobSize", ClientContentLength(j)))

\* If it was removed in between, the number goes to a file nobody can open.
WriteCfs(j) ==
    /\ Running(j, "cfs", [job[j] EXCEPT !.pc = "body"])
    /\ cfs' = IF cfs = Missing THEN Missing ELSE ClientContentLength(j)
    /\ Announce(j)
    /\ UNCHANGED <<files, linked, in_progress>>

\* The transfer is over with the result r, as far as curl is concerned.
Ends(j, here, r) ==
    /\ Running(j, here, [job[j] EXCEPT !.pc = "settle", !.result = r])
    /\ UNCHANGED <<diskVars, in_progress>>

\* 416: the mirror has nothing beyond what is in the cache.
RangeNotSatisfiable(j) ==
    /\ job[j].size_written >= Size
    /\ Ends(j, "request", "Error")
    /\ Send(j, Message("Completed", 0))

Mutant_LastIsZero(j) == job[j].left = 0
LastChance(j) == job[j].left = 1

\* Any other status: the client hears of it from the last mirror only.  A job
\* that resumes counts a success without a body as Complete, and a body that
\* breaks off as Partial.  (One that does not resume panics on such a success.)
Unavailable(j) ==
    /\ \E r \in {"Unavailable", "Error"} \cup
               (IF job[j].size_written > 0 THEN {"Complete", "Partial"} ELSE {}) :
          Ends(j, "request", r)
    /\ IF LastChance(j) THEN Send(j, Message("Unavailable", 0)) ELSE UNCHANGED mailbox

\* No connection, no usable header, a timeout, or the connection breaks.
TransferFails(j) ==
    /\ \E here \in {"request", "body"} :
          Ends(j, here, IF job[j].size_written > 0 THEN "Partial" ELSE "Error")
    /\ UNCHANGED mailbox

\* What goes to the file, and what stays in the buffer: BufWriter keeps a small
\* block, flushes what it has before it keeps another, and lets a large one
\* through.
BufferStates(old, b) == {<<<<>>, old \o b>>, <<old, b>>, <<old \o b, <<>>>>}

Appended(j, bs) == [files EXCEPT ![job[j].inode] = @ \o bs]

\* The n oldest blocks of the buffer get to the file.
FlushedUpTo(j, n) == Appended(j, SubSeq(job[j].buffer, 1, n))

\* curl itself rejects the body of a 200 that answers a range request.
WriteBlock(j) ==
    /\ job[j].length = Size /\ job[j].size_written < Size
    /\ \E s \in BufferStates(job[j].buffer, <<job[j].size_written + 1>>) :
          /\ Running(j, "body",
                     [job[j] EXCEPT !.size_written = @ + 1, !.buffer = s[2]])
          /\ files' = Appended(j, s[1])
    /\ Send(j, Message("Progress", 0))
    /\ UNCHANGED <<linked, cfs, in_progress>>

\* size_written counts the block already.  The transfer is paused, and neither
\* the code nor curl's low speed limit ever ends it: the job stays "paused", and
\* what is left in its buffer is of no use any more.
WriteFails(j) ==
    /\ WritesFail
    /\ job[j].length = Size /\ job[j].size_written < Size
    /\ Running(j, "body",
               [job[j] EXCEPT !.pc = "paused", !.size_written = @ + 1, !.buffer = <<>>])
    /\ \E n \in 0..Len(job[j].buffer) : files' = FlushedUpTo(j, n)
    /\ UNCHANGED <<linked, cfs, in_progress, mailbox>>

\* curl also takes the transfer to be complete when it resumes at the very length
\* that a 200 announces.
TransferCompletes(j) ==
    /\ job[j].size_written = Size
    /\ Ends(j, "body", "Complete")
    /\ UNCHANGED mailbox

\* A BufWriter that is dropped flushes, and ignores an error.
Flush(j) ==
    \E n \in (IF WritesFail THEN 0..Len(job[j].buffer) ELSE {Len(job[j].buffer)}) :
        files' = IF job[j].inode = 0 THEN files ELSE FlushedUpTo(j, n)

\* The channel is dropped before the next attempt, and its BufWriter flushes.
TryNext(j) ==
    /\ job[j].result # "Complete" /\ ~LastChance(j)
    /\ Running(j, "settle", [NoJob EXCEPT !.pc = "open", !.left = job[j].left - 1])
    /\ Flush(j)
    /\ UNCHANGED <<linked, cfs, in_progress, mailbox>>

LeaveLoop(j) ==
    /\ job[j].result = "Complete" \/ LastChance(j)
    /\ Running(j, "settle", [job[j] EXCEPT !.pc = "remove"])
    /\ UNCHANGED <<diskVars, in_progress, mailbox>>

RemoveOrder(j) ==
    /\ Running(j, "remove", [job[j] EXCEPT !.pc = "release"])
    /\ in_progress' = FALSE
    /\ UNCHANGED <<diskVars, mailbox>>

\* release_job_resources drops the BufWriter, which flushes, after the order
\* has been removed.
Release(j) ==
    /\ Running(j, "release", NoJob)
    /\ Flush(j)
    /\ UNCHANGED <<linked, cfs, in_progress, mailbox>>

-----------------------------------------------------------------------------
(* Purging, and a flexo that is killed and started again. *)

PurgePackage ==
    /\ PurgesPackages /\ linked
    /\ Unlink
    /\ UNCHANGED <<cfs, in_progress, purging, crashes, job, mailbox, client>>

PurgeCfsCheck ==
    /\ PurgesCfs /\ ~purging /\ cfs # Missing /\ ~linked
    /\ purging' = TRUE
    /\ UNCHANGED <<diskVars, in_progress, crashes, job, mailbox, client>>

PurgeCfsRemove ==
    /\ purging
    /\ cfs' = Missing
    /\ purging' = FALSE
    /\ UNCHANGED <<files, linked, in_progress, crashes, job, mailbox, client>>

\* flexo is killed, or a thread panics, which exits the process too.  What is in
\* memory is lost, a BufWriter's blocks included; at the start
\* inspect_and_initialize_cache looks at the file.
CrashAndRestart ==
    /\ crashes < MaxCrashes
    /\ crashes' = crashes + 1
    /\ PersistCacheState
    /\ in_progress' = FALSE
    /\ purging' = FALSE
    /\ job' = [j \in Jobs |-> NoJob]
    /\ mailbox' = [j \in Jobs |-> <<Dropped>>]
    /\ client' = [c \in Clients |-> NoClient]

-----------------------------------------------------------------------------
Request(c) == \E r \in 0..Size :
    \/ RequestRedirected(c, r)
    \/ RequestCached(c, r)
    \/ \E j \in Jobs : RequestScheduled(c, r, j)
    \/ RequestInProgress(c, r)

Serve(c) ==
    \/ ReceiveJobSize(c) \/ ReceiveCompleted(c) \/ ReceiveRejection(c)
    \/ ReceiveNothing(c)
    \/ ReadCfs(c) \/ CfsTimeout(c)
    \/ OpenGrowing(c) \/ ServeComplete(c) \/ OpenFailsForClient(c)
    \/ SendGrown(c) \/ StreamStalls(c) \/ StreamEnds(c)

Download(j) ==
    \/ OpenFile(j) \/ OpenFails(j)
    \/ HeaderAccepted(j) \/ WriteCfs(j)
    \/ RangeNotSatisfiable(j) \/ Unavailable(j) \/ TransferFails(j)
    \/ WriteBlock(j) \/ WriteFails(j) \/ TransferCompletes(j)
    \/ TryNext(j) \/ LeaveLoop(j) \/ RemoveOrder(j) \/ Release(j)

Purge == PurgePackage \/ PurgeCfsCheck \/ PurgeCfsRemove

Next ==
    \/ \E c \in Clients : Request(c) \/ Serve(c) \/ ClientCloses(c)
    \/ \E j \in Jobs : Download(j)
    \/ Purge
    \/ CrashAndRestart

\* A client's thread runs on; nothing is assumed of the jobs, the mirrors, the
\* purging or the clients themselves.
Fairness == \A c \in Clients : WF_vars(Serve(c))

Spec     == Init /\ [][Next]_vars
FairSpec == Spec /\ Fairness

-----------------------------------------------------------------------------
(* Properties. *)

JobStates ==
    [pc : {"ended", "open", "request", "cfs", "body", "paused", "settle", "remove",
           "release"},
     inode : 0..Len(files), size_written : 0..Size, buffer : Seq(1..Size),
     left : 0..NumMirrors, length : 0..(2 * Size),
     result : {"Complete", "Partial", "Error", "Unavailable", "ClientError"}]

Messages ==
    [kind : {"JobSize", "Progress", "Completed", "Unavailable", "OrderError", "Dropped"},
     size : 0..(2 * Size)]

ClientStates ==
    [pc : {"idle", "await_size", "await_cfs", "open_growing", "open_complete",
           "streaming", "served"},
     job : Jobs, resume_from : 0..Size, promised : 0..(2 * Size),
     source : 0..Len(files), received : Seq(1..Size)]

\* Every variable has its type: no file is used after it is gone, and a job has
\* attempts left exactly while it runs.
TypeOK ==
    /\ files \in Seq(Seq(1..Size)) /\ Len(files) <= MaxFiles
    /\ linked \in BOOLEAN /\ (linked => files # <<>>)
    /\ cfs \in {Missing, Torn} \cup 0..(2 * Size)
    /\ in_progress \in BOOLEAN /\ purging \in BOOLEAN
    /\ crashes \in 0..MaxCrashes
    /\ job \in [Jobs -> JobStates]
    /\ \A j \in Jobs : job[j].left = 0 <=> job[j].pc = "ended"
    /\ mailbox \in [Jobs -> {<<>>} \cup {<<m>> : m \in Messages}]
    /\ client \in [Clients -> ClientStates]

\* Every file on disk is a prefix of the real one, whoever has written it, in
\* however many attempts and lives of flexo, and whatever was lost in a buffer.
FileIntact == \A i \in 1..Len(files) :
    files[i] = Blocks(Len(files[i])) /\ Len(files[i]) <= Size

\* "no file needs to be downloaded more often than once" (README.md): no block
\* gets into a file twice.
DownloadedOnce == \A i \in 1..Len(files) :
    \A k, l \in 1..Len(files[i]) : k # l => files[i][k] # files[i][l]

\* The CFS file holds "the expected file size when the download has completed"
\* (the comment in persist_and_get_cache_state).
CfsIsCompleteSize == cfs >= 0 => cfs = Size

\* A client that is served to the end has got exactly the rest of the real
\* file, from where it resumed.
DeliveredWhole == \A c \in Clients :
    client[c].pc = "served" =>
        client[c].received = SubSeq(Blocks(Size), client[c].resume_from + 1, Size)

\* What a client is sent is always the next piece of the real file, even if it
\* is not sent everything.
DeliveredInOrder == \A c \in Clients :
    client[c].received = SubSeq(Blocks(Size), client[c].resume_from + 1, Offset(c))

\* receive_content_length panics, and with it flexo exits, if the first message
\* is a Progress.
NeverProgressFirst == \A j \in Jobs :
    mailbox[j] # <<>> => mailbox[j][1].kind # "Progress"

\* No client waits for ever, whatever becomes of the job and of the mirrors.
RequestAnswered == \A c \in Clients :
    (client[c].pc \notin {"idle", "served"}) ~> (client[c].pc \in {"idle", "served"})
=============================================================================
