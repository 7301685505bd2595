----------------------------- MODULE Connections -----------------------------
(***************************************************************************)
(* The threads of src/flexo/src/main.rs that serve the connections, and    *)
(* what each does when its connection has ended: it purges the package     *)
(* cache if it has tainted it, under cache_purge_mutex, and sweeps the     *)
(* uncacheable files, under no lock.                                       *)
(*                                                                         *)
(* The cache holds versions of one package, a larger number is a younger   *)
(* version.  How a version is downloaded and sent is the matter of         *)
(* Download, here a job creates the file, completes or gives up.           *)
(*                                                                         *)
(* An operator Mutant_X is a plausible mistake in the operator below it;   *)
(* nothing uses it, README.md says which property it breaks.               *)
(***************************************************************************)
EXTENDS Integers, FiniteSets

CONSTANTS
    Connections,          \* bound: the connections that are ever made
    NumVersions,          \* bound: the versions the package ever has
    NumVersionsRetain,    \* num_versions_retain, 0 to never purge
    NumFiles,             \* bound: the uncacheable files
    MaxRequests,          \* bound: the requests on one connection
    NoThread              \* nobody holds the mutex

ASSUME RetainAssumption == NumVersionsRetain \in Nat

ASSUME NoThreadAssumption == NoThread \notin Connections

ASSUME BoundsAssumption == {NumVersions, NumFiles, MaxRequests} \subseteq Nat

Versions == 1..NumVersions

VARIABLES
    stored,       \* the versions that have a file in the cache
    complete,     \* those of them whose file is complete
    job,          \* the job of each version
    stale,        \* the uncacheable files that are older than five minutes
    purge_mutex,  \* the thread that holds cache_purge_mutex, or NoThread
    forgotten,    \* history: fetched for a connection that did not report it
    conn          \* the state of each thread, see NoConnection

cacheVars == <<stored, complete>>
vars == <<cacheVars, job, stale, purge_mutex, forgotten, conn>>

\* fetched: history, the versions whose job it has scheduled or joined.
\* listing: what the purging or the sweep has still to remove.
NoConnection ==
    [pc |-> "waiting", requests |-> 0, version |-> 0, origin |-> "NoPayload",
     cache_tainted |-> FALSE, fetched |-> {}, listing |-> {}]

Newest(S, n) == {v \in S : Cardinality({w \in S : w > v}) < n}

\* flexo starts with a cache that has been purged.
Init ==
    /\ stored \in {S \in SUBSET Versions : Cardinality(S) <= NumVersionsRetain}
    /\ complete = stored
    /\ job = [v \in Versions |-> "none"]
    /\ stale = 1..NumFiles
    /\ purge_mutex = NoThread
    /\ forgotten = {}
    /\ conn = [c \in Connections |-> NoConnection]

\* The thread of c is at `here`, and goes on in the state s.
Thread(c, here, s) ==
    /\ conn[c].pc = here
    /\ conn' = [conn EXCEPT ![c] = s]

-----------------------------------------------------------------------------
(* serve_client: the requests of a connection. *)

Accept(c) ==
    /\ Thread(c, "waiting", [conn[c] EXCEPT !.pc = "reading"])
    /\ UNCHANGED <<cacheVars, job, stale, purge_mutex, forgotten>>

\* A request for the version v, that try_schedule answers with `origin`.
Request(c, v, there, origin) ==
    /\ conn[c].requests < MaxRequests
    /\ Thread(c, "reading",
              [conn[c] EXCEPT !.pc = there, !.requests = @ + 1,
                 !.version = v, !.origin = origin,
                 !.fetched = IF origin = "RemoteMirror" THEN @ \cup {v} ELSE @])
    /\ UNCHANGED <<cacheVars, stale, purge_mutex, forgotten>>

RequestCached(c, v) ==
    /\ job[v] = "none" /\ v \in complete
    /\ Request(c, v, "opening", "Cache")
    /\ UNCHANGED job

\* try_schedule removes an empty file and the job creates it anew; here it just
\* stays.
RequestScheduled(c, v) ==
    /\ job[v] = "none" /\ v \notin complete
    /\ Request(c, v, "opening", "RemoteMirror")
    /\ job' = [job EXCEPT ![v] = "scheduled"]

RequestInProgress(c, v) ==
    /\ job[v] # "none"
    /\ Request(c, v, "joining", "RemoteMirror")
    /\ UNCHANGED job

OpenFile(c) ==
    /\ conn[c].version \in stored
    /\ \E here \in {"opening", "joining"} : Thread(c, here, [conn[c] EXCEPT !.pc = "sending"])
    /\ UNCHANGED <<cacheVars, job, stale, purge_mutex, forgotten>>

\* 404, 400 or 500: the size was not known in time, or the job has failed.
NoPayload(c) ==
    /\ conn[c].origin = "RemoteMirror"
    /\ Thread(c, "opening", [conn[c] EXCEPT !.pc = "reading"])
    /\ forgotten' = forgotten \cup {conn[c].version}
    /\ UNCHANGED <<cacheVars, job, stale, purge_mutex>>

Mutant_LastRequestTaints(c) == conn[c].origin = "RemoteMirror"
CacheTainted(c) == conn[c].cache_tainted \/ conn[c].origin = "RemoteMirror"

\* Everything is sent: what comes from a mirror is then complete on disk.  That is all
\* that "complete" says of a job; its perform() may have yet to return.
Served(c) ==
    /\ Thread(c, "sending",
              [conn[c] EXCEPT !.pc = "reading", !.cache_tainted = CacheTainted(c)])
    /\ conn[c].origin = "RemoteMirror" => job[conn[c].version] \in {"complete", "none"}
    /\ UNCHANGED <<cacheVars, job, stale, purge_mutex, forgotten>>

\* The socket is closed, or the header is answered with 400.
EndsOk(c) ==
    /\ Thread(c, "reading",
              [conn[c] EXCEPT !.pc =
                 IF conn[c].cache_tainted /\ NumVersionsRetain # 0 THEN "tainted" ELSE "ended"])
    /\ UNCHANGED <<cacheVars, job, stale, purge_mutex, forgotten>>

\* handle_client_error returns Err, and with it serve_client.
Errs(c, here) ==
    /\ Thread(c, here, [conn[c] EXCEPT !.pc = "ended"])
    /\ forgotten' = forgotten \cup conn[c].fetched
    /\ UNCHANGED <<cacheVars, job, stale, purge_mutex>>

\* The client has reset the connection, or the growing file does not grow any
\* more, or the CFS file of a job in progress does not appear.
EndsWithError(c) == \E here \in {"reading", "joining", "sending"} : Errs(c, here)

\* The file was purged since try_schedule or the job has seen it.
OpenFails(c) ==
    /\ Errs(c, "opening")
    /\ conn[c].version \notin stored /\ job[conn[c].version] # "scheduled"

-----------------------------------------------------------------------------
(* The jobs. *)

JobGoesTo(v, state) ==
    /\ job' = [job EXCEPT ![v] = state]
    /\ UNCHANGED <<stale, purge_mutex, forgotten, conn>>

\* The first attempt and each further one open the file, and create it if it is
\* not there.
JobOpensFile(v) ==
    /\ job[v] \in {"scheduled", "open"}
    /\ stored' = stored \cup {v}
    /\ JobGoesTo(v, "open")
    /\ UNCHANGED complete

\* The last byte is written: the job opens no file after that.  If the file has been
\* removed meanwhile, only those who have it open have it.
JobCompletes(v) ==
    /\ job[v] = "open"
    /\ JobGoesTo(v, "complete")
    /\ complete' = complete \cup ({v} \cap stored)
    /\ UNCHANGED stored

\* The order is removed from orders_in_progress.
JobEnds(v) ==
    /\ job[v] # "none"
    /\ JobGoesTo(v, "none")
    /\ UNCHANGED cacheVars

-----------------------------------------------------------------------------
(* The end of a thread: purge_cache, then purge_uncacheable_files. *)

LockPurgeMutex(c) ==
    /\ purge_mutex = NoThread
    /\ purge_mutex' = c
    /\ Thread(c, "tainted", [conn[c] EXCEPT !.pc = "purging"])
    /\ UNCHANGED <<cacheVars, job, stale, forgotten>>

Mutant_PurgeTheYoungest == {v \in stored : Cardinality({w \in stored : w < v}) >= NumVersionsRetain}
Superfluous == stored \ Newest(stored, NumVersionsRetain)

\* flexo_purge_cache lists the versions, and then removes them one by one; the
\* purge_cfs_files that follows is in Download.
ListVersions(c) ==
    /\ Thread(c, "purging", [conn[c] EXCEPT !.pc = "removing", !.listing = Superfluous])
    /\ UNCHANGED <<cacheVars, job, stale, purge_mutex, forgotten>>

RemoveVersion(c) == \E v \in conn[c].listing :
    /\ stored' = stored \ {v}
    /\ complete' = complete \ {v}
    /\ Thread(c, "removing", [conn[c] EXCEPT !.listing = @ \ {v}])
    /\ UNCHANGED <<job, stale, purge_mutex, forgotten>>

Mutant_KeepMutex(c) == c
MutexAfter(c) == NoThread

UnlockPurgeMutex(c) ==
    /\ conn[c].listing = {}
    /\ Thread(c, "removing", [conn[c] EXCEPT !.pc = "ended"])
    /\ purge_mutex' = MutexAfter(c)
    /\ UNCHANGED <<cacheVars, job, stale, forgotten>>

Sweeping(c, here, s) ==
    /\ Thread(c, here, s)
    /\ UNCHANGED <<cacheVars, job, purge_mutex, forgotten>>

ListFiles(c) ==
    /\ Sweeping(c, "ended", [conn[c] EXCEPT !.pc = "sweeping", !.listing = stale])
    /\ UNCHANGED stale

\* The paths come in any order.  One that is no file any more is passed over.
LookAtFile(c) == \E f \in conn[c].listing :
    /\ IF f \in stale
       THEN Sweeping(c, "sweeping", [conn[c] EXCEPT !.pc = "file", !.version = f])
       ELSE Sweeping(c, "sweeping", [conn[c] EXCEPT !.listing = @ \ {f}])
    /\ UNCHANGED stale

Mutant_StopAfterOne(c) == {}
Rest(c) == conn[c].listing \ {conn[c].version}

RemoveFile(c) ==
    /\ conn[c].version \in stale
    /\ stale' = stale \ {conn[c].version}
    /\ Sweeping(c, "file", [conn[c] EXCEPT !.pc = "sweeping", !.listing = Rest(c)])

\* metadata() or remove_file() fails: another thread was faster, and the rest
\* of the sweep is left undone.
SweepAborts(c) ==
    /\ conn[c].version \notin stale
    /\ Sweeping(c, "file", [NoConnection EXCEPT !.pc = "done"])
    /\ UNCHANGED stale

SweepEnds(c) ==
    /\ conn[c].listing = {}
    /\ Sweeping(c, "sweeping", [NoConnection EXCEPT !.pc = "done"])
    /\ UNCHANGED stale

-----------------------------------------------------------------------------
Client(c) ==
    \/ Accept(c)
    \/ \E v \in Versions : RequestCached(c, v) \/ RequestScheduled(c, v) \/ RequestInProgress(c, v)
    \/ OpenFile(c) \/ NoPayload(c) \/ Served(c)
    \/ EndsOk(c) \/ EndsWithError(c) \/ OpenFails(c)

Job(v) == JobOpensFile(v) \/ JobCompletes(v) \/ JobEnds(v)

EndOfThread(c) ==
    \/ LockPurgeMutex(c) \/ ListVersions(c) \/ RemoveVersion(c) \/ UnlockPurgeMutex(c)
    \/ ListFiles(c) \/ LookAtFile(c) \/ RemoveFile(c) \/ SweepAborts(c) \/ SweepEnds(c)

Next ==
    \/ \E c \in Connections : Client(c) \/ EndOfThread(c)
    \/ \E v \in Versions : Job(v)

\* A thread whose connection has ended runs on; nothing is assumed of the
\* clients and the jobs.
Fairness == \A c \in Connections : WF_vars(EndOfThread(c))

Spec     == Init /\ [][Next]_vars
FairSpec == Spec /\ Fairness

-----------------------------------------------------------------------------
(* Properties. *)

ConnectionStates ==
    [pc : {"waiting", "reading", "opening", "joining", "sending", "tainted", "purging", "removing",
           "ended", "sweeping", "file", "done"},
     requests : 0..MaxRequests, version : Versions \cup 0..NumFiles,
     origin : {"Cache", "RemoteMirror", "NoPayload"},
     cache_tainted : BOOLEAN, fetched : SUBSET Versions,
     listing : (SUBSET Versions) \cup SUBSET (1..NumFiles)]

\* Every variable has its type, and the mutex belongs to the one thread that
\* purges.
TypeOK ==
    /\ complete \subseteq stored /\ stored \subseteq Versions
    /\ job \in [Versions -> {"none", "scheduled", "open", "complete"}]
    /\ stale \subseteq 1..NumFiles
    /\ purge_mutex \in Connections \cup {NoThread}
    /\ forgotten \subseteq Versions
    /\ conn \in [Connections -> ConnectionStates]
    /\ \A c \in Connections : conn[c].pc \in {"purging", "removing"} <=> purge_mutex = c

\* No request is being served and no purging is left to do.
Quiet ==
    /\ \A c \in Connections : conn[c].pc \in {"waiting", "ended", "sweeping", "file", "done"}
    /\ \A v \in Versions : job[v] = "none"

\* When all is quiet, the versions beyond NumVersionsRetain are only those that
\* were fetched for connections which did not report them: the purging of one
\* thread and the downloads of the others do not get past each other.
RetainedUnlessForgotten ==
    Quiet /\ NumVersionsRetain # 0 => Cardinality(stored \ forgotten) <= NumVersionsRetain

\* Whatever is downloaded or removed meanwhile, a version is removed only when
\* there are NumVersionsRetain younger ones in the cache, and if NumVersionsRetain
\* is 0 never.
OnlyOldRemoved == [][\A v \in stored \ stored' :
    NumVersionsRetain # 0 /\ Cardinality({w \in stored' : w > v}) >= NumVersionsRetain]_stored

\* A sweep that another one has made fail does not matter: when the sweeps are
\* over, no stale file is left.
SweptTogether ==
    (\E c \in Connections : conn[c].pc = "done")
      /\ (\A c \in Connections : conn[c].pc \notin {"sweeping", "file"})
    => stale = {}

\* Every thread gets to its end when its connection has ended, the mutex and the
\* failing sweeps notwithstanding.
ThreadEnds == \A c \in Connections :
    conn[c].pc \in {"tainted", "purging", "removing", "ended", "sweeping", "file"}
      ~> conn[c].pc = "done"
=============================================================================
