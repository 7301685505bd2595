--------------------------- MODULE ConnectionsProofs ---------------------------
(***************************************************************************)
(* Theorems about Connections, for any number of connections, versions,    *)
(* files and requests.                                                     *)
(***************************************************************************)
EXTENDS Connections, FiniteSetTheorems, TLAPS

(* The inductive invariants. *)

\* The thread is at a request, or has still to purge what it has fetched.
AtRequest(c) == conn[c].pc \in {"opening", "joining", "sending"}
Pending(c)   == AtRequest(c) \/ conn[c].pc \in {"reading", "tainted", "purging"}

\* The requested version while it comes from a mirror.
Fetching(c, v) == AtRequest(c) /\ conn[c].origin = "RemoteMirror" /\ conn[c].version = v

VersionsInv == \A c \in Connections : AtRequest(c) => conn[c].version \in Versions

TypeInv == TypeOK /\ VersionsInv

\* Who purges was told to, and what it has listed and not yet removed is older
\* than NumVersionsRetain of those that it leaves.
PurgeOf(c) ==
    /\ conn[c].pc \in {"tainted", "purging", "removing"} => NumVersionsRetain # 0
    /\ conn[c].pc = "removing" => \A v \in conn[c].listing :
          Cardinality({w \in stored \ conn[c].listing : w > v}) >= NumVersionsRetain

PurgeInv == \A c \in Connections : PurgeOf(c)

\* A job that may yet create its file has a thread that waits for it, or is
\* nobody's.
JobsInv == \A v \in Versions : job[v] \in {"scheduled", "open"} =>
    v \in forgotten \/ \E c \in Connections : Fetching(c, v)

\* What a thread has fetched is being fetched, or has tainted the cache, or is
\* forgotten.
FetchedBy(c) ==
    /\ \A v \in Versions : Fetching(c, v) => v \in conn[c].fetched
    /\ (AtRequest(c) \/ conn[c].pc \in {"waiting", "reading"}) /\ ~conn[c].cache_tainted =>
          \A v \in conn[c].fetched \ forgotten : Fetching(c, v)

FetchedInv == \A c \in Connections : FetchedBy(c)

\* The versions that are somebody's to remove or to purge in the end.
Owes(c, v) == \/ Pending(c) /\ v \in conn[c].fetched
              \/ conn[c].pc = "removing" /\ v \in conn[c].listing

Claimed == {v \in Versions : \E c \in Connections : Owes(c, v)}

RetainInv == NumVersionsRetain # 0 =>
    Cardinality(stored \ (forgotten \cup Claimed)) <= NumVersionsRetain

\* A sweep has every stale file still before it.
ListingInv == \A c \in Connections :
    conn[c].pc \in {"sweeping", "file"} => stale \subseteq conn[c].listing

\* A sweep that will not abort at its next file.
Sound(c) == \/ conn[c].pc = "sweeping"
            \/ conn[c].pc = "file" /\ conn[c].version \in stale

Over(c) == \/ conn[c].pc = "done"
           \/ conn[c].pc = "file" /\ conn[c].version \notin stale

\* Whoever has made others abort goes on.
SweepInv ==
    (\E c \in Connections : Over(c)) /\ stale # {} => \E c \in Connections : Sound(c)

IInv == TypeInv /\ PurgeInv /\ JobsInv /\ FetchedInv /\ RetainInv /\ ListingInv /\ SweepInv

-----------------------------------------------------------------------------
(* The youngest of a set of versions. *)

Younger(S, v) == {w \in S : w > v}

\* The number of younger ones orders a set of versions.
LEMMA RankFalls ==
    ASSUME NEW S, IsFiniteSet(S), S \subseteq Int, NEW v \in S, NEW w \in S, v < w
    PROVE  Cardinality(Younger(S, w)) < Cardinality(Younger(S, v))
<1>1. IsFiniteSet(Younger(S, v)) /\ IsFiniteSet(Younger(S, w))
  BY FS_Subset DEF Younger
<1>2. Younger(S, w) \subseteq Younger(S, v)
  <2> SUFFICES ASSUME NEW x \in S, x > w PROVE x > v
    BY DEF Younger
  <2>1. x \in Int /\ v \in Int /\ w \in Int
    OBVIOUS
  <2> QED
    BY <2>1
<1>3. w \in Younger(S, v) /\ w \notin Younger(S, w)
  BY DEF Younger
<1>4. Cardinality(Younger(S, w)) <= Cardinality(Younger(S, v))
  BY <1>1, <1>2, FS_Subset
<1>5. Cardinality(Younger(S, w)) # Cardinality(Younger(S, v))
  BY <1>1, <1>2, <1>3, FS_Subset
<1> QED
  BY <1>1, <1>4, <1>5, FS_CardinalityType

\* It numbers the set from 0 on without a gap.
LEMMA RankIsBijection ==
    ASSUME NEW S, IsFiniteSet(S), S \subseteq Int
    PROVE  LET N    == Cardinality(S)
               rank == [v \in S |-> Cardinality(Younger(S, v))]
           IN  N \in Nat /\ rank \in Bijection(S, 0..(N - 1))
<1> DEFINE N    == Cardinality(S)
           rank == [v \in S |-> Cardinality(Younger(S, v))]
<1>1. N \in Nat
  BY FS_CardinalityType
<1>2. ASSUME NEW v \in S PROVE rank[v] \in 0..(N - 1)
  <2>1. Younger(S, v) \subseteq S /\ v \notin Younger(S, v)
    BY DEF Younger
  <2>2. IsFiniteSet(Younger(S, v)) /\ Cardinality(Younger(S, v)) <= N
    BY <2>1, FS_Subset
  <2>3. Cardinality(Younger(S, v)) # N
    BY <2>1, FS_Subset
  <2> QED
    BY <1>1, <2>2, <2>3, FS_CardinalityType
<1>3. ASSUME NEW v \in S, NEW w \in S, v # w PROVE rank[v] # rank[w]
  <2>1. rank[v] \in Int /\ rank[w] \in Int
    BY <1>2
  <2>2. CASE v < w
    <3>1. Cardinality(Younger(S, w)) < Cardinality(Younger(S, v))
      BY <2>2, RankFalls
    <3> QED
      BY <2>1, <3>1
  <2>3. CASE w < v
    <3>1. Cardinality(Younger(S, v)) < Cardinality(Younger(S, w))
      BY <2>3, RankFalls
    <3> QED
      BY <2>1, <3>1
  <2>4. v \in Int /\ w \in Int
    OBVIOUS
  <2> QED
    BY <1>3, <2>2, <2>3, <2>4
<1>4. rank \in [S -> 0..(N - 1)]
  BY <1>2
<1>5. rank \in Injection(S, 0..(N - 1))
  BY <1>3, <1>4 DEF Injection, IsInjective
<1>6. IsFiniteSet(0..(N - 1)) /\ Cardinality(0..(N - 1)) = N
  BY <1>1, FS_Interval
<1>7. rank \in Surjection(S, 0..(N - 1))
  BY <1>5, <1>6, FS_Injection
<1> QED
  BY <1>1, <1>5, <1>7 DEF Bijection

\* Newest(S, n) is never more than n versions; if it leaves one out, it is n
\* younger ones.
LEMMA NewestCount ==
    ASSUME NEW S, IsFiniteSet(S), S \subseteq Int, NEW n \in Nat
    PROVE  /\ Cardinality(Newest(S, n)) <= n
           /\ \A v \in S \ Newest(S, n) :
                 /\ Newest(S, n) \subseteq Younger(S, v)
                 /\ Cardinality(Newest(S, n)) = n
<1> DEFINE N    == Cardinality(S)
           rank == [v \in S |-> Cardinality(Younger(S, v))]
           T    == Newest(S, n)
           m    == IF n <= N THEN n ELSE N
           r    == [v \in T |-> rank[v]]
<1>1. N \in Nat /\ rank \in Bijection(S, 0..(N - 1))
  BY RankIsBijection
<1>2. /\ rank \in [S -> 0..(N - 1)]
      /\ \A v, w \in S : rank[v] = rank[w] => v = w
      /\ \A k \in 0..(N - 1) : \E v \in S : rank[v] = k
  BY <1>1 DEF Bijection, Injection, IsInjective, Surjection
<1>3. T = {v \in S : rank[v] < n}
  BY DEF Newest, Younger
<1>4. IsFiniteSet(T) /\ Cardinality(T) \in Nat
  BY FS_Subset, FS_CardinalityType DEF Newest
<1>5. \A v, w \in S : v < w => rank[w] < rank[v]
  BY RankFalls
<1> HIDE DEF rank, T, N
<1>6. m \in Nat /\ m <= n
  BY <1>1
<1>7. r \in Bijection(T, 0..(m - 1))
  <2>1. r \in [T -> 0..(m - 1)]
    <3>1. ASSUME NEW v \in T PROVE rank[v] \in 0..(m - 1)
      <4>1. rank[v] \in 0..(N - 1) /\ rank[v] < n
        BY <1>2, <1>3
      <4> QED
        BY <1>1, <4>1
    <3> QED
      BY <3>1
  <2>2. \A v, w \in T : r[v] = r[w] => v = w
    BY <1>2, <1>3
  <2>3. ASSUME NEW k \in 0..(m - 1) PROVE \E v \in T : r[v] = k
    <3>1. k \in 0..(N - 1) /\ k < n
      BY <1>1
    <3>2. PICK v \in S : rank[v] = k
      BY <1>2, <3>1
    <3> QED
      BY <1>3, <3>1, <3>2
  <2> HIDE DEF r, m
  <2>4. r \in Injection(T, 0..(m - 1))
    BY <2>1, <2>2 DEF Injection, IsInjective
  <2>5. r \in Surjection(T, 0..(m - 1))
    BY <2>1, <2>3 DEF Surjection
  <2> QED
    BY <2>4, <2>5 DEF Bijection
<1>8. Cardinality(T) = m
  <2> HIDE DEF r, m
  <2>1. IsFiniteSet(0..(m - 1)) /\ Cardinality(0..(m - 1)) = m
    BY <1>6, FS_Interval
  <2>2. ExistsBijection(T, 0..(m - 1))
    BY <1>7 DEF ExistsBijection
  <2> QED
    BY <1>4, <2>1, <2>2, FS_Bijection
<1>9. ASSUME NEW v \in S \ T
      PROVE  T \subseteq Younger(S, v) /\ Cardinality(T) = n
  <2>1. rank[v] \in 0..(N - 1) /\ rank[v] >= n
    BY <1>1, <1>2, <1>3
  <2>2. ASSUME NEW w \in T PROVE w \in S /\ w > v
    <3>1. w \in S /\ rank[w] < n /\ rank[w] \in Int
      BY <1>2, <1>3
    <3>2. ~(rank[v] < rank[w]) /\ rank[v] # rank[w]
      BY <2>1, <3>1
    <3>3. v \in Int /\ w \in Int
      BY <3>1
    <3> QED
      BY <1>5, <3>1, <3>2, <3>3
  <2>3. m = n
    BY <1>1, <2>1
  <2> QED
    BY <1>8, <2>2, <2>3 DEF Younger
<1> QED
  BY <1>6, <1>8, <1>9 DEF T

-----------------------------------------------------------------------------
(* Types. *)

USE DEF vars, cacheVars, Thread

LEMMA TypeInit == Init => TypeInv
<1> SUFFICES ASSUME Init PROVE TypeInv
  OBVIOUS
<1>1. NoConnection \in ConnectionStates
  BY BoundsAssumption DEF NoConnection, ConnectionStates
<1>2. TypeOK
  BY <1>1, NoThreadAssumption DEF Init, TypeOK, NoConnection
<1>3. VersionsInv
  BY DEF Init, VersionsInv, AtRequest, NoConnection
<1> QED
  BY <1>2, <1>3 DEF TypeInv

\* What is left to show of a thread's step.
LEMMA ThreadStep ==
    ASSUME TypeInv, NEW c \in Connections, NEW s \in ConnectionStates,
           conn' = [conn EXCEPT ![c] = s],
           s.pc \in {"opening", "joining", "sending"} => s.version \in Versions,
           s.pc \in {"purging", "removing"} <=> purge_mutex' = c,
           \A d \in Connections \ {c} : purge_mutex' = d <=> purge_mutex = d,
           complete' \subseteq stored', stored' \subseteq Versions,
           job' \in [Versions -> {"none", "scheduled", "open", "complete"}],
           stale' \subseteq 1..NumFiles,
           purge_mutex' \in Connections \cup {NoThread},
           forgotten' \subseteq Versions
    PROVE  TypeInv'
<1>1. /\ conn' \in [Connections -> ConnectionStates] /\ conn'[c] = s
      /\ \A d \in Connections \ {c} : conn'[d] = conn[d]
  BY DEF TypeInv, TypeOK
<1>2. TypeOK'
  BY <1>1 DEF TypeInv, TypeOK
<1>3. VersionsInv'
  BY <1>1 DEF TypeInv, VersionsInv, AtRequest
<1> QED
  BY <1>2, <1>3 DEF TypeInv

\* What the steps of a client's requests have in common.
LEMMA ServingStep ==
    ASSUME TypeInv, NEW c \in Connections, NEW s \in ConnectionStates,
           conn' = [conn EXCEPT ![c] = s],
           conn[c].pc \notin {"purging", "removing"}, s.pc \notin {"purging", "removing"},
           s.pc \in {"opening", "joining", "sending"} => s.version \in Versions,
           UNCHANGED <<cacheVars, stale, purge_mutex>>,
           job' \in [Versions -> {"none", "scheduled", "open", "complete"}],
           forgotten' \subseteq Versions
    PROVE  TypeInv'
<1>1. conn[c].pc \in {"purging", "removing"} <=> purge_mutex = c
  BY DEF TypeInv, TypeOK
<1>2. s.pc \in {"purging", "removing"} <=> purge_mutex' = c
  BY <1>1
<1>3. /\ complete' \subseteq stored' /\ stored' \subseteq Versions
      /\ stale' \subseteq 1..NumFiles
      /\ purge_mutex' \in Connections \cup {NoThread}
  BY DEF TypeInv, TypeOK
<1> QED
  BY <1>2, <1>3, ThreadStep

LEMMA TypeClient ==
    ASSUME TypeInv, NEW c \in Connections, Client(c)
    PROVE  TypeInv'
<1>1. /\ conn[c] \in ConnectionStates
      /\ job \in [Versions -> {"none", "scheduled", "open", "complete"}]
      /\ forgotten \subseteq Versions
      /\ AtRequest(c) => conn[c].version \in Versions
  BY DEF TypeInv, TypeOK, VersionsInv
<1>2. CASE Accept(c)
  <2> DEFINE s == [conn[c] EXCEPT !.pc = "reading"]
  <2>1. s \in ConnectionStates /\ s.pc = "reading"
    BY <1>1 DEF ConnectionStates
  <2>2. conn' = [conn EXCEPT ![c] = s]
    BY <1>2 DEF Accept
  <2> HIDE DEF s
  <2> QED
    BY <1>1, <1>2, <2>1, <2>2, ServingStep DEF Accept
<1>3. ASSUME NEW v \in Versions, NEW there \in {"opening", "joining"},
             NEW origin \in {"Cache", "RemoteMirror"}, Request(c, v, there, origin),
             job' \in [Versions -> {"none", "scheduled", "open", "complete"}]
      PROVE  TypeInv'
  <2> DEFINE s == [conn[c] EXCEPT !.pc = there, !.requests = @ + 1,
                     !.version = v, !.origin = origin,
                     !.fetched = IF origin = "RemoteMirror" THEN @ \cup {v} ELSE @]
  <2>1. conn[c].requests + 1 \in 0..MaxRequests
    BY <1>1, <1>3, BoundsAssumption DEF Request, ConnectionStates
  <2>2. conn[c].fetched \cup {v} \in SUBSET Versions /\ conn[c].fetched \in SUBSET Versions
    BY <1>1 DEF ConnectionStates
  <2>3. s \in ConnectionStates
    BY <1>1, <2>1, <2>2 DEF ConnectionStates
  <2>4. s.pc = there /\ s.version = v
    BY <1>1 DEF ConnectionStates
  <2>5. conn' = [conn EXCEPT ![c] = s] /\ conn[c].pc = "reading"
    BY <1>3 DEF Request
  <2> HIDE DEF s
  <2> QED
    BY <1>1, <1>3, <2>3, <2>4, <2>5, ServingStep DEF Request
<1>4. ASSUME NEW v \in Versions,
             RequestCached(c, v) \/ RequestScheduled(c, v) \/ RequestInProgress(c, v)
      PROVE  TypeInv'
  BY <1>1, <1>3, <1>4 DEF RequestCached, RequestScheduled, RequestInProgress
<1>5. CASE OpenFile(c)
  <2> DEFINE s == [conn[c] EXCEPT !.pc = "sending"]
  <2>1. s \in ConnectionStates /\ s.pc = "sending" /\ s.version = conn[c].version
    BY <1>1 DEF ConnectionStates
  <2>2. conn' = [conn EXCEPT ![c] = s]
    BY <1>5 DEF OpenFile
  <2> HIDE DEF s
  <2> QED
    BY <1>1, <1>5, <2>1, <2>2, ServingStep DEF OpenFile, AtRequest
<1>6. CASE NoPayload(c)
  <2> DEFINE s == [conn[c] EXCEPT !.pc = "reading"]
  <2>1. s \in ConnectionStates /\ s.pc = "reading"
    BY <1>1 DEF ConnectionStates
  <2>2. conn' = [conn EXCEPT ![c] = s]
    BY <1>6 DEF NoPayload
  <2> HIDE DEF s
  <2> QED
    BY <1>1, <1>6, <2>1, <2>2, ServingStep DEF NoPayload, AtRequest
<1>7. CASE Served(c)
  <2> DEFINE s == [conn[c] EXCEPT !.pc = "reading", !.cache_tainted = CacheTainted(c)]
  <2>1. CacheTainted(c) \in BOOLEAN
    BY <1>1 DEF CacheTainted, ConnectionStates
  <2>2. s \in ConnectionStates /\ s.pc = "reading"
    BY <1>1, <2>1 DEF ConnectionStates
  <2>3. conn' = [conn EXCEPT ![c] = s]
    BY <1>7 DEF Served
  <2> HIDE DEF s
  <2> QED
    BY <1>1, <1>7, <2>2, <2>3, ServingStep DEF Served
<1>8. CASE EndsOk(c)
  <2>1. PICK there \in {"tainted", "ended"} : conn' = [conn EXCEPT ![c] = [conn[c] EXCEPT !.pc = there]]
    BY <1>8 DEF EndsOk
  <2> DEFINE s == [conn[c] EXCEPT !.pc = there]
  <2>2. s \in ConnectionStates /\ s.pc = there
    BY <1>1 DEF ConnectionStates
  <2>3. conn' = [conn EXCEPT ![c] = s]
    BY <2>1
  <2> HIDE DEF s
  <2> QED
    BY <1>1, <1>8, <2>2, <2>3, ServingStep DEF EndsOk
<1>9. ASSUME NEW here \in {"reading", "opening", "joining", "sending"}, Errs(c, here)
      PROVE  TypeInv'
  <2> DEFINE s == [conn[c] EXCEPT !.pc = "ended"]
  <2>1. s \in ConnectionStates /\ s.pc = "ended" /\ conn[c].fetched \subseteq Versions
    BY <1>1 DEF ConnectionStates
  <2>2. conn' = [conn EXCEPT ![c] = s]
    BY <1>9 DEF Errs
  <2>3. conn[c].pc \notin {"purging", "removing"} /\ forgotten' \subseteq Versions
    BY <1>1, <1>9, <2>1 DEF Errs
  <2> HIDE DEF s
  <2> QED
    BY <1>1, <1>9, <2>1, <2>2, <2>3, ServingStep DEF Errs
<1> QED
  BY <1>2, <1>4, <1>5, <1>6, <1>7, <1>8, <1>9 DEF Client, EndsWithError, OpenFails

LEMMA TypeJob ==
    ASSUME TypeInv, NEW v \in Versions, Job(v)
    PROVE  TypeInv'
<1> USE DEF TypeInv, TypeOK, VersionsInv, AtRequest, JobGoesTo
<1>1. CASE JobOpensFile(v)
  BY <1>1 DEF JobOpensFile
<1>2. CASE JobCompletes(v)
  BY <1>2 DEF JobCompletes
<1>3. CASE JobEnds(v)
  BY <1>3 DEF JobEnds
<1> QED
  BY <1>1, <1>2, <1>3 DEF Job

LEMMA TypeEnd ==
    ASSUME TypeInv, NEW c \in Connections, EndOfThread(c)
    PROVE  TypeInv'
<1>1. /\ conn[c] \in ConnectionStates
      /\ complete \subseteq stored /\ stored \subseteq Versions
      /\ job \in [Versions -> {"none", "scheduled", "open", "complete"}]
      /\ stale \subseteq 1..NumFiles
      /\ purge_mutex \in Connections \cup {NoThread}
      /\ forgotten \subseteq Versions
      /\ conn[c].pc \in {"purging", "removing"} <=> purge_mutex = c
  BY DEF TypeInv, TypeOK
<1>2. CASE LockPurgeMutex(c)
  <2> DEFINE s == [conn[c] EXCEPT !.pc = "purging"]
  <2>1. s \in ConnectionStates /\ s.pc = "purging"
    BY <1>1 DEF ConnectionStates
  <2>2. conn' = [conn EXCEPT ![c] = s]
    BY <1>2 DEF LockPurgeMutex
  <2> HIDE DEF s
  <2> QED
    BY <1>1, <1>2, <2>1, <2>2, ThreadStep, NoThreadAssumption DEF LockPurgeMutex
<1>3. CASE ListVersions(c)
  <2> DEFINE s == [conn[c] EXCEPT !.pc = "removing", !.listing = Superfluous]
  <2>1. Superfluous \in SUBSET Versions
    BY <1>1 DEF Superfluous
  <2>2. s \in ConnectionStates /\ s.pc = "removing"
    BY <1>1, <2>1 DEF ConnectionStates
  <2>3. conn' = [conn EXCEPT ![c] = s] /\ conn[c].pc = "purging"
    BY <1>3 DEF ListVersions
  <2> HIDE DEF s
  <2> QED
    BY <1>1, <1>3, <2>2, <2>3, ThreadStep DEF ListVersions
<1>4. CASE RemoveVersion(c)
  <2>1. PICK v \in conn[c].listing :
          /\ stored' = stored \ {v} /\ complete' = complete \ {v}
          /\ conn' = [conn EXCEPT ![c] = [conn[c] EXCEPT !.listing = @ \ {v}]]
    BY <1>4 DEF RemoveVersion
  <2> DEFINE s == [conn[c] EXCEPT !.listing = @ \ {v}]
  <2>2. conn[c].listing \ {v} \in (SUBSET Versions) \cup SUBSET (1..NumFiles)
    BY <1>1 DEF ConnectionStates
  <2>3. s \in ConnectionStates /\ s.pc = conn[c].pc
    BY <1>1, <2>2 DEF ConnectionStates
  <2>4. /\ conn' = [conn EXCEPT ![c] = s] /\ conn[c].pc = "removing"
        /\ UNCHANGED <<job, stale, purge_mutex, forgotten>>
    BY <1>4, <2>1 DEF RemoveVersion
  <2>5. complete' \subseteq stored' /\ stored' \subseteq Versions
    BY <1>1, <2>1
  <2> HIDE DEF s
  <2> QED
    BY <1>1, <2>3, <2>4, <2>5, ThreadStep
<1>5. CASE UnlockPurgeMutex(c)
  <2> DEFINE s == [conn[c] EXCEPT !.pc = "ended"]
  <2>1. s \in ConnectionStates /\ s.pc = "ended"
    BY <1>1 DEF ConnectionStates
  <2>2. conn' = [conn EXCEPT ![c] = s]
    BY <1>5 DEF UnlockPurgeMutex
  <2> HIDE DEF s
  <2> QED
    BY <1>1, <1>5, <2>1, <2>2, ThreadStep, NoThreadAssumption DEF UnlockPurgeMutex, MutexAfter
<1>6. CASE ListFiles(c)
  <2> DEFINE s == [conn[c] EXCEPT !.pc = "sweeping", !.listing = stale]
  <2>1. s \in ConnectionStates /\ s.pc = "sweeping"
    <3>1. stale \in SUBSET (1..NumFiles)
      BY <1>1
    <3>2. stale \in (SUBSET Versions) \cup SUBSET (1..NumFiles)
      BY <3>1
    <3> QED
      BY <1>1, <3>2 DEF ConnectionStates
  <2>2. conn' = [conn EXCEPT ![c] = s]
    BY <1>6 DEF ListFiles, Sweeping
  <2> HIDE DEF s
  <2> QED
    BY <1>1, <1>6, <2>1, <2>2, ServingStep DEF ListFiles, Sweeping
<1>7. CASE LookAtFile(c)
  <2>1. PICK f \in conn[c].listing :
          conn' = [conn EXCEPT ![c] = IF f \in stale
                                      THEN [conn[c] EXCEPT !.pc = "file", !.version = f]
                                      ELSE [conn[c] EXCEPT !.listing = @ \ {f}]]
    BY <1>7 DEF LookAtFile, Sweeping
  <2> DEFINE s == IF f \in stale
                  THEN [conn[c] EXCEPT !.pc = "file", !.version = f]
                  ELSE [conn[c] EXCEPT !.listing = @ \ {f}]
  <2>2. conn[c].listing \ {f} \in (SUBSET Versions) \cup SUBSET (1..NumFiles)
    BY <1>1 DEF ConnectionStates
  <2>3. f \in stale => f \in 0..NumFiles
    BY <1>1
  <2>4. conn[c].pc = "sweeping" /\ UNCHANGED <<cacheVars, job, purge_mutex, forgotten, stale>>
    BY <1>7 DEF LookAtFile, Sweeping
  <2>5. s \in ConnectionStates /\ s.pc \in {"file", "sweeping"}
    BY <1>1, <2>2, <2>3, <2>4 DEF ConnectionStates
  <2>6. conn' = [conn EXCEPT ![c] = s]
    BY <2>1
  <2> HIDE DEF s
  <2> QED
    BY <1>1, <2>4, <2>5, <2>6, ServingStep
<1>8. CASE RemoveFile(c)
  <2> DEFINE s == [conn[c] EXCEPT !.pc = "sweeping", !.listing = Rest(c)]
  <2>1. Rest(c) \in (SUBSET Versions) \cup SUBSET (1..NumFiles)
    BY <1>1 DEF ConnectionStates, Rest
  <2>2. s \in ConnectionStates /\ s.pc = "sweeping"
    BY <1>1, <2>1 DEF ConnectionStates
  <2>3. /\ conn' = [conn EXCEPT ![c] = s] /\ conn[c].pc = "file"
        /\ stale' = stale \ {conn[c].version}
        /\ UNCHANGED <<cacheVars, job, purge_mutex, forgotten>>
    BY <1>8 DEF RemoveFile, Sweeping
  <2> HIDE DEF s
  <2> QED
    BY <1>1, <2>2, <2>3, ThreadStep
<1>9. CASE SweepAborts(c) \/ SweepEnds(c)
  <2> DEFINE s == [NoConnection EXCEPT !.pc = "done"]
  <2>1. s \in ConnectionStates /\ s.pc = "done"
    <3>1. 0 \in 0..MaxRequests /\ 0 \in 0..NumFiles
      BY BoundsAssumption
    <3>2. {} \in SUBSET Versions
      OBVIOUS
    <3> QED
      BY <3>1, <3>2 DEF ConnectionStates, NoConnection
  <2>2. conn' = [conn EXCEPT ![c] = s] /\ conn[c].pc \in {"file", "sweeping"}
    BY <1>9 DEF SweepAborts, SweepEnds, Sweeping
  <2> HIDE DEF s
  <2> QED
    BY <1>1, <1>9, <2>1, <2>2, ServingStep DEF SweepAborts, SweepEnds, Sweeping
<1> QED
  BY <1>2, <1>3, <1>4, <1>5, <1>6, <1>7, <1>8, <1>9 DEF EndOfThread

LEMMA TypeStep == TypeInv /\ [Next]_vars => TypeInv'
<1> SUFFICES ASSUME TypeInv, [Next]_vars PROVE TypeInv'
  OBVIOUS
<1>1. CASE UNCHANGED vars
  BY <1>1 DEF TypeInv, TypeOK, VersionsInv, AtRequest
<1> QED
  BY <1>1, TypeClient, TypeJob, TypeEnd DEF Next

\* What a step of a client's request does to the threads.
LEMMA ClientEffect ==
    ASSUME TypeInv, NEW c \in Connections, Client(c)
    PROVE  /\ \A d \in Connections \ {c} : conn'[d] = conn[d]
           /\ UNCHANGED <<cacheVars, stale, purge_mutex>>
           /\ conn[c].pc \in {"waiting", "reading", "opening", "joining", "sending"}
           /\ conn'[c].pc \in {"reading", "opening", "joining", "sending", "tainted", "ended"}
           /\ conn'[c].pc = "tainted" => NumVersionsRetain # 0
<1>1. conn \in [Connections -> ConnectionStates] /\ conn[c] \in ConnectionStates
  BY DEF TypeInv, TypeOK
<1> USE DEF ConnectionStates
<1>2. CASE Accept(c)
  BY <1>1, <1>2 DEF Accept
<1>3. ASSUME NEW v, NEW there, NEW origin, Request(c, v, there, origin)
      PROVE  /\ \A d \in Connections \ {c} : conn'[d] = conn[d]
             /\ UNCHANGED <<cacheVars, stale, purge_mutex>>
             /\ conn[c].pc = "reading" /\ conn'[c].pc = there
  <2> DEFINE s == [conn[c] EXCEPT !.pc = there, !.requests = @ + 1,
                     !.version = v, !.origin = origin,
                     !.fetched = IF origin = "RemoteMirror" THEN @ \cup {v} ELSE @]
  <2>1. conn' = [conn EXCEPT ![c] = s]
    BY <1>3 DEF Request
  <2>2. s.pc = there
    BY <1>1
  <2> HIDE DEF s
  <2> QED
    BY <1>1, <1>3, <2>1, <2>2 DEF Request
<1>4. CASE OpenFile(c)
  BY <1>1, <1>4 DEF OpenFile
<1>5. CASE NoPayload(c)
  BY <1>1, <1>5 DEF NoPayload
<1>6. CASE Served(c)
  BY <1>1, <1>6 DEF Served
<1>7. CASE EndsOk(c)
  BY <1>1, <1>7 DEF EndsOk
<1>8. CASE EndsWithError(c) \/ OpenFails(c)
  BY <1>1, <1>8 DEF EndsWithError, OpenFails, Errs
<1>9. ASSUME NEW v \in Versions,
             RequestCached(c, v) \/ RequestScheduled(c, v) \/ RequestInProgress(c, v)
      PROVE  \E there \in {"opening", "joining"} : \E origin : Request(c, v, there, origin)
  BY <1>9 DEF RequestCached, RequestScheduled, RequestInProgress
<1> QED
  BY <1>2, <1>3, <1>4, <1>5, <1>6, <1>7, <1>8, <1>9 DEF Client

-----------------------------------------------------------------------------
(* What a purging removes. *)

LEMMA VersionsFinite ==
    ASSUME NEW S \in SUBSET Versions
    PROVE  S \subseteq Int /\ IsFiniteSet(S) /\ Cardinality(S) \in Nat
<1>1. IsFiniteSet(Versions) /\ Versions \subseteq Int
  BY FS_Interval, BoundsAssumption DEF Versions
<1>2. IsFiniteSet(S)
  BY <1>1, FS_Subset
<1> QED
  BY <1>1, <1>2, FS_CardinalityType

\* New versions only put those that are to be removed further back.
LEMMA PurgeKept ==
    ASSUME TypeInv, TypeInv', NEW c \in Connections, PurgeOf(c),
           conn'[c].pc = conn[c].pc, conn'[c].listing = conn[c].listing,
           stored \subseteq stored'
    PROVE  PurgeOf(c)'
<1> SUFFICES ASSUME conn[c].pc = "removing", NEW v \in conn[c].listing
             PROVE  Cardinality({w \in stored' \ conn[c].listing : w > v}) >= NumVersionsRetain
  BY DEF PurgeOf
<1> DEFINE Y == {w \in stored \ conn[c].listing : w > v}
           Z == {w \in stored' \ conn[c].listing : w > v}
<1>1. Y \in SUBSET Z /\ Z \in SUBSET Versions
  BY DEF TypeInv, TypeOK
<1>2. IsFiniteSet(Z) /\ Cardinality(Z) \in Nat
  BY <1>1, VersionsFinite
<1>3. IsFiniteSet(Y) /\ Cardinality(Y) \in Nat /\ Cardinality(Y) <= Cardinality(Z)
  BY <1>1, <1>2, FS_Subset, FS_CardinalityType
<1>4. Cardinality(Y) >= NumVersionsRetain
  BY DEF PurgeOf
<1> QED
  BY <1>2, <1>3, <1>4, RetainAssumption

LEMMA PurgeStep == TypeInv /\ TypeInv' /\ PurgeInv /\ [Next]_vars => PurgeInv'
<1> SUFFICES ASSUME TypeInv, TypeInv', PurgeInv, [Next]_vars, NEW d \in Connections
             PROVE  PurgeOf(d)'
  BY DEF PurgeInv
<1>1. PurgeOf(d)
  BY DEF PurgeInv
<1>2. conn \in [Connections -> ConnectionStates]
  BY DEF TypeInv, TypeOK
<1>3. ASSUME stored \subseteq stored', conn'[d] = conn[d] PROVE PurgeOf(d)'
  BY <1>1, <1>3, PurgeKept
<1>4. ASSUME NEW c \in Connections, Client(c) PROVE PurgeOf(d)'
  <2>1. CASE d = c
    BY <1>4, <2>1, ClientEffect DEF PurgeOf
  <2>2. CASE d # c
    BY <1>3, <1>4, <2>2, ClientEffect
  <2> QED
    BY <2>1, <2>2
<1>5. ASSUME NEW v \in Versions, Job(v) PROVE PurgeOf(d)'
  BY <1>3, <1>5 DEF Job, JobOpensFile, JobCompletes, JobEnds, JobGoesTo
<1>6. ASSUME NEW c \in Connections, LockPurgeMutex(c) PROVE PurgeOf(d)'
  <2>1. CASE d = c
    <3>1. conn[c].pc = "tainted" /\ conn'[c].pc = "purging"
      BY <1>2, <1>6 DEF LockPurgeMutex, ConnectionStates
    <3> QED
      BY <1>1, <2>1, <3>1 DEF PurgeOf
  <2>2. CASE d # c
    BY <1>2, <1>3, <1>6, <2>2 DEF LockPurgeMutex
  <2> QED
    BY <2>1, <2>2
<1>7. ASSUME NEW c \in Connections, ListVersions(c) PROVE PurgeOf(d)'
  <2>1. CASE d = c
    <3> DEFINE N == Newest(stored, NumVersionsRetain)
    <3>1. /\ conn[c].pc = "purging" /\ conn'[c].pc = "removing"
          /\ conn'[c].listing = stored \ N /\ stored' = stored
      BY <1>2, <1>7 DEF ListVersions, Superfluous, ConnectionStates
    <3>2. stored \ (stored \ N) = N
      BY DEF Newest
    <3>3. ASSUME NEW v \in stored \ N
          PROVE  Cardinality({w \in N : w > v}) >= NumVersionsRetain
      <4>1. N \subseteq Younger(stored, v) /\ Cardinality(N) = NumVersionsRetain
        BY NewestCount, VersionsFinite, RetainAssumption DEF TypeInv, TypeOK
      <4>2. {w \in N : w > v} = N
        BY <4>1 DEF Younger
      <4> QED
        BY <4>1, <4>2, RetainAssumption
    <3> HIDE DEF N
    <3> QED
      BY <1>1, <2>1, <3>1, <3>2, <3>3 DEF PurgeOf
  <2>2. CASE d # c
    BY <1>2, <1>3, <1>7, <2>2 DEF ListVersions
  <2> QED
    BY <2>1, <2>2
<1>8. ASSUME NEW c \in Connections, RemoveVersion(c) PROVE PurgeOf(d)'
  <2>1. PICK v \in conn[c].listing :
          /\ stored' = stored \ {v}
          /\ conn[c].pc = "removing"
          /\ conn' = [conn EXCEPT ![c] = [conn[c] EXCEPT !.listing = @ \ {v}]]
    BY <1>8 DEF RemoveVersion
  <2>2. CASE d = c
    <3>1. conn'[c].pc = "removing" /\ conn'[c].listing = conn[c].listing \ {v}
      BY <1>2, <2>1 DEF ConnectionStates
    <3>2. stored' \ conn'[c].listing = stored \ conn[c].listing
      BY <2>1, <3>1
    <3> QED
      BY <1>1, <2>1, <2>2, <3>1, <3>2 DEF PurgeOf
  <2>3. CASE d # c
    <3>1. conn[d].pc \notin {"purging", "removing"} /\ conn'[d] = conn[d]
      BY <1>2, <2>1, <2>3 DEF TypeInv, TypeOK
    <3> QED
      BY <1>1, <3>1 DEF PurgeOf
  <2> QED
    BY <2>2, <2>3
<1>9. ASSUME NEW c \in Connections,
             \/ UnlockPurgeMutex(c) \/ ListFiles(c) \/ LookAtFile(c) \/ RemoveFile(c)
             \/ SweepAborts(c) \/ SweepEnds(c)
      PROVE  PurgeOf(d)'
  <2>1. UNCHANGED stored
    BY <1>9 DEF UnlockPurgeMutex, ListFiles, LookAtFile, RemoveFile, SweepAborts, SweepEnds,
                Sweeping
  <2>2. CASE d = c
    <3>1. conn'[c].pc \in {"ended", "sweeping", "file", "done"}
      <4>1. CASE UnlockPurgeMutex(c) \/ ListFiles(c)
        BY <1>2, <4>1 DEF UnlockPurgeMutex, ListFiles, Sweeping, ConnectionStates
      <4>2. CASE LookAtFile(c)
        <5>1. PICK f \in conn[c].listing :
                 \/ conn' = [conn EXCEPT ![c] = [conn[c] EXCEPT !.pc = "file", !.version = f]]
                 \/ /\ conn[c].pc = "sweeping"
                    /\ conn' = [conn EXCEPT ![c] = [conn[c] EXCEPT !.listing = @ \ {f}]]
          BY <4>2 DEF LookAtFile, Sweeping, Thread
        <5> QED
          BY <1>2, <5>1 DEF ConnectionStates
      <4>4. CASE RemoveFile(c)
        BY <1>2, <4>4 DEF RemoveFile, Sweeping, ConnectionStates
      <4>3. CASE SweepAborts(c) \/ SweepEnds(c)
        BY <1>2, <4>3 DEF SweepAborts, SweepEnds, Sweeping, ConnectionStates, NoConnection
      <4> QED
        BY <1>9, <4>1, <4>2, <4>3, <4>4
    <3> QED
      BY <2>2, <3>1 DEF PurgeOf
  <2>3. CASE d # c
    <3>1. conn'[d] = conn[d]
      BY <1>2, <1>9, <2>3 DEF UnlockPurgeMutex, ListFiles, LookAtFile, RemoveFile, SweepAborts,
                        SweepEnds, Sweeping
    <3> QED
      BY <1>3, <2>1, <3>1
  <2> QED
    BY <2>2, <2>3
<1>10. CASE UNCHANGED vars
  BY <1>3, <1>10
<1> QED
  BY <1>4, <1>5, <1>6, <1>7, <1>8, <1>9, <1>10 DEF Next, EndOfThread

-----------------------------------------------------------------------------
(* What is fetched is purged, or forgotten. *)

\* What a step of the thread of c leaves of its obligations.
Keeps(c) ==
    /\ forgotten \subseteq forgotten'
    /\ FetchedBy(c)'
    /\ \A v \in Versions :
         /\ NumVersionsRetain # 0 /\ Owes(c, v) => v \in forgotten' \/ Owes(c, v)'
         /\ job'[v] \in {"scheduled", "open"} =>
               \/ v \in forgotten' \/ Fetching(c, v)'
               \/ job[v] \in {"scheduled", "open"} /\ ~Fetching(c, v)

LEMMA ClientKeeps ==
    ASSUME TypeInv, FetchedInv, NEW c \in Connections, Client(c)
    PROVE  Keeps(c)
<1>1. /\ conn \in [Connections -> ConnectionStates] /\ conn[c] \in ConnectionStates
      /\ job \in [Versions -> {"none", "scheduled", "open", "complete"}]
      /\ FetchedBy(c) /\ (AtRequest(c) => conn[c].version \in Versions)
  BY DEF TypeInv, TypeOK, VersionsInv, FetchedInv
<1> USE DEF Keeps, FetchedBy, Owes, Fetching, AtRequest, Pending, ConnectionStates
<1>2. CASE Accept(c)
  BY <1>1, <1>2 DEF Accept
<1>3. ASSUME NEW v \in Versions, NEW there \in {"opening", "joining"},
             NEW origin \in {"Cache", "RemoteMirror"}, Request(c, v, there, origin),
             \/ UNCHANGED job
             \/ origin = "RemoteMirror" /\ job' = [job EXCEPT ![v] = "scheduled"]
      PROVE  Keeps(c)
  <2>1. /\ conn[c].pc = "reading" /\ conn'[c].pc = there
        /\ conn'[c].version = v /\ conn'[c].origin = origin
        /\ conn'[c].cache_tainted = conn[c].cache_tainted
        /\ conn'[c].fetched = IF origin = "RemoteMirror"
                              THEN conn[c].fetched \cup {v} ELSE conn[c].fetched
    <3> DEFINE s == [conn[c] EXCEPT !.pc = there, !.requests = @ + 1,
                       !.version = v, !.origin = origin,
                       !.fetched = IF origin = "RemoteMirror" THEN @ \cup {v} ELSE @]
    <3>1. conn' = [conn EXCEPT ![c] = s] /\ conn[c].pc = "reading"
      BY <1>3 DEF Request
    <3>2. /\ s.pc = there /\ s.version = v /\ s.origin = origin
          /\ s.cache_tainted = conn[c].cache_tainted
          /\ s.fetched = IF origin = "RemoteMirror"
                         THEN conn[c].fetched \cup {v} ELSE conn[c].fetched
      BY <1>1
    <3> HIDE DEF s
    <3> QED
      BY <1>1, <3>1, <3>2
  <2> UNCHANGED forgotten
    BY <1>3 DEF Request
  <2>2. ~conn[c].cache_tainted => conn[c].fetched \subseteq forgotten
    BY <1>1, <2>1
  <2>3. AtRequest(c)' /\ \A x : Fetching(c, x)' <=> origin = "RemoteMirror" /\ x = v
    BY <2>1
  <2>4. FetchedBy(c)'
    BY <2>1, <2>2, <2>3
  <2>5. ASSUME NEW x \in Versions, Owes(c, x) PROVE Owes(c, x)'
    BY <2>1, <2>5
  <2>6. ASSUME NEW x \in Versions, job'[x] \in {"scheduled", "open"}
        PROVE  Fetching(c, x)' \/ (job[x] \in {"scheduled", "open"} /\ ~Fetching(c, x))
    BY <1>1, <1>3, <2>1, <2>3, <2>6
  <2> QED
    BY <2>1, <2>4, <2>5, <2>6 DEF Keeps
<1>4. CASE OpenFile(c)
  BY <1>1, <1>4 DEF OpenFile
<1>5. CASE NoPayload(c)
  BY <1>1, <1>5 DEF NoPayload
<1>6. CASE Served(c)
  BY <1>1, <1>6 DEF Served, CacheTainted
<1>7. CASE EndsOk(c)
  BY <1>1, <1>7 DEF EndsOk
<1>8. CASE EndsWithError(c) \/ OpenFails(c)
  BY <1>1, <1>8 DEF EndsWithError, OpenFails, Errs
<1>9. ASSUME NEW v \in Versions,
             RequestCached(c, v) \/ RequestScheduled(c, v) \/ RequestInProgress(c, v)
      PROVE  Keeps(c)
  BY <1>3, <1>9 DEF RequestCached, RequestScheduled, RequestInProgress
<1> QED
  BY <1>2, <1>4, <1>5, <1>6, <1>7, <1>8, <1>9 DEF Client

\* The purging and the sweep.
LEMMA EndKeeps ==
    ASSUME TypeInv, NEW c \in Connections, EndOfThread(c)
    PROVE  /\ \A d \in Connections \ {c} : conn'[d] = conn[d]
           /\ UNCHANGED <<job, forgotten>>
           /\ conn[c].pc \in {"tainted", "purging", "removing", "ended", "sweeping", "file"}
           /\ conn'[c].pc \in {"purging", "removing", "ended", "sweeping", "file", "done"}
<1>1. conn \in [Connections -> ConnectionStates] /\ conn[c] \in ConnectionStates
  BY DEF TypeInv, TypeOK
<1> USE DEF ConnectionStates, Sweeping
<1>2. CASE LockPurgeMutex(c)
  BY <1>1, <1>2 DEF LockPurgeMutex
<1>3. CASE ListVersions(c)
  BY <1>1, <1>3 DEF ListVersions
<1>4. CASE RemoveVersion(c)
  BY <1>1, <1>4 DEF RemoveVersion
<1>5. CASE UnlockPurgeMutex(c)
  BY <1>1, <1>5 DEF UnlockPurgeMutex
<1>6. CASE ListFiles(c)
  BY <1>1, <1>6 DEF ListFiles
<1>7. CASE LookAtFile(c)
  <2>1. PICK f \in conn[c].listing :
          conn' = [conn EXCEPT ![c] = IF f \in stale
                                      THEN [conn[c] EXCEPT !.pc = "file", !.version = f]
                                      ELSE [conn[c] EXCEPT !.listing = @ \ {f}]]
    BY <1>7 DEF LookAtFile
  <2>2. conn[c].pc = "sweeping" /\ UNCHANGED <<job, forgotten>>
    BY <1>7 DEF LookAtFile
  <2>3. CASE f \in stale
    BY <1>1, <2>1, <2>2, <2>3
  <2>4. CASE f \notin stale
    BY <1>1, <2>1, <2>2, <2>4
  <2> QED
    BY <2>3, <2>4
<1>8. CASE RemoveFile(c)
  BY <1>1, <1>8 DEF RemoveFile
<1>9. CASE SweepAborts(c) \/ SweepEnds(c)
  BY <1>1, <1>9 DEF SweepAborts, SweepEnds, NoConnection
<1> QED
  BY <1>2, <1>3, <1>4, <1>5, <1>6, <1>7, <1>8, <1>9 DEF EndOfThread

\* The jobs and the threads that wait for them.
LEMMA FetchStep ==
    TypeInv /\ TypeInv' /\ JobsInv /\ FetchedInv /\ [Next]_vars => JobsInv' /\ FetchedInv'
<1> SUFFICES ASSUME TypeInv, TypeInv', JobsInv, FetchedInv, [Next]_vars
             PROVE  JobsInv' /\ FetchedInv'
  OBVIOUS
<1>1. job \in [Versions -> {"none", "scheduled", "open", "complete"}]
  BY DEF TypeInv, TypeOK
<1>2. ASSUME NEW c \in Connections, Keeps(c), \A d \in Connections \ {c} : conn'[d] = conn[d]
      PROVE  JobsInv' /\ FetchedInv'
  <2>1. ASSUME NEW d \in Connections PROVE FetchedBy(d)'
    <3>1. CASE d = c
      BY <1>2, <3>1 DEF Keeps
    <3>2. CASE d # c
      <4>1. conn'[d] = conn[d] /\ forgotten \subseteq forgotten' /\ FetchedBy(d)
        BY <1>2, <3>2 DEF Keeps, FetchedInv
      <4> QED
        BY <4>1 DEF FetchedBy, Fetching, AtRequest
    <3> QED
      BY <3>1, <3>2
  <2>2. ASSUME NEW v \in Versions, job'[v] \in {"scheduled", "open"}
        PROVE  v \in forgotten' \/ \E d \in Connections : Fetching(d, v)'
    <3>1. \/ v \in forgotten' \/ Fetching(c, v)'
          \/ job[v] \in {"scheduled", "open"} /\ ~Fetching(c, v)
      BY <1>2, <2>2 DEF Keeps
    <3>2. ASSUME NEW d \in Connections, Fetching(d, v), d # c PROVE Fetching(d, v)'
      BY <1>2, <3>2 DEF Fetching, AtRequest
    <3>3. CASE job[v] \in {"scheduled", "open"} /\ ~Fetching(c, v)
      <4>1. v \in forgotten \/ \E d \in Connections : Fetching(d, v)
        BY <3>3 DEF JobsInv
      <4>2. forgotten \subseteq forgotten'
        BY <1>2 DEF Keeps
      <4> QED
        BY <3>2, <3>3, <4>1, <4>2
    <3> QED
      BY <3>1, <3>3
  <2> QED
    BY <2>1, <2>2 DEF JobsInv, FetchedInv
<1>3. ASSUME NEW c \in Connections, Client(c) PROVE JobsInv' /\ FetchedInv'
  BY <1>2, <1>3, ClientKeeps, ClientEffect
<1>4. ASSUME NEW c \in Connections, EndOfThread(c) PROVE JobsInv' /\ FetchedInv'
  <2>1. /\ \A d \in Connections : AtRequest(d)' => conn'[d] = conn[d]
        /\ \A d \in Connections : conn'[d].pc \in {"waiting", "reading"} => conn'[d] = conn[d]
        /\ \A d \in Connections : AtRequest(d) => conn'[d] = conn[d]
        /\ UNCHANGED <<job, forgotten>>
    BY <1>4, EndKeeps DEF AtRequest
  <2> QED
    BY <2>1 DEF JobsInv, FetchedInv, FetchedBy, Fetching, AtRequest
<1>5. ASSUME NEW v \in Versions, Job(v) PROVE JobsInv' /\ FetchedInv'
  <2>1. /\ UNCHANGED <<conn, forgotten>>
        /\ \A w \in Versions : job'[w] \in {"scheduled", "open"} => job[w] \in {"scheduled", "open"}
    BY <1>1, <1>5 DEF Job, JobOpensFile, JobCompletes, JobEnds, JobGoesTo
  <2> QED
    BY <2>1 DEF JobsInv, FetchedInv, FetchedBy, Fetching, AtRequest
<1>6. CASE UNCHANGED vars
  BY <1>6 DEF JobsInv, FetchedInv, FetchedBy, Fetching, AtRequest
<1> QED
  BY <1>3, <1>4, <1>5, <1>6 DEF Next

\* The versions that nobody owes and that are not forgotten.
Kept == stored \ (forgotten \cup Claimed)

\* They become less, unless a thread lists them.
LEMMA RetainStep ==
    TypeInv /\ TypeInv' /\ JobsInv /\ FetchedInv /\ RetainInv /\ [Next]_vars => RetainInv'
<1> SUFFICES ASSUME TypeInv, TypeInv', JobsInv, FetchedInv, RetainInv, [Next]_vars,
                    NumVersionsRetain # 0
             PROVE  Cardinality(Kept') <= NumVersionsRetain
  BY DEF RetainInv, Kept
<1>1. /\ conn \in [Connections -> ConnectionStates]
      /\ stored \in SUBSET Versions /\ Kept \in SUBSET Versions /\ Kept' \in SUBSET Versions
  BY DEF TypeInv, TypeOK, Kept
<1>2. ASSUME NEW S \in SUBSET Versions, Cardinality(S) <= NumVersionsRetain, Kept' \subseteq S
      PROVE  Cardinality(Kept') <= NumVersionsRetain
  <2>1. IsFiniteSet(S) /\ Cardinality(S) \in Nat /\ Cardinality(Kept') \in Nat
    BY <1>1, VersionsFinite
  <2>2. Cardinality(Kept') <= Cardinality(S)
    BY <1>2, <2>1, FS_Subset
  <2> QED
    BY <1>2, <2>1, <2>2, RetainAssumption
<1>3. ASSUME Kept' \subseteq Kept PROVE Cardinality(Kept') <= NumVersionsRetain
  BY <1>1, <1>2, <1>3 DEF RetainInv, Kept
<1>4. ASSUME NEW c \in Connections,
             \A d \in Connections \ {c} : conn'[d] = conn[d],
             forgotten \subseteq forgotten',
             \A v \in stored' : v \in stored
                /\ (Owes(c, v) => v \in forgotten' \/ Owes(c, v)')
      PROVE  Kept' \subseteq Kept
  <2> SUFFICES ASSUME NEW v \in Kept' PROVE v \in Kept
    OBVIOUS
  <2>1. v \in stored' /\ v \notin forgotten' /\ v \in Versions /\ \A d \in Connections : ~Owes(d, v)'
    BY <1>1 DEF Kept, Claimed
  <2>2. ASSUME NEW d \in Connections PROVE ~Owes(d, v)
    <3>1. CASE d = c
      BY <1>4, <2>1, <3>1
    <3>2. CASE d # c
      BY <1>4, <2>1, <3>2 DEF Owes, Pending, AtRequest
    <3> QED
      BY <3>1, <3>2
  <2> QED
    BY <1>4, <2>1, <2>2 DEF Kept, Claimed
<1>5. ASSUME NEW c \in Connections, Client(c) PROVE Kept' \subseteq Kept
  <2>1. /\ Keeps(c) /\ UNCHANGED stored
        /\ \A d \in Connections \ {c} : conn'[d] = conn[d]
    BY <1>5, ClientKeeps, ClientEffect
  <2> QED
    BY <1>1, <1>4, <2>1 DEF Keeps
<1>6. ASSUME NEW w \in Versions, Job(w) PROVE Kept' \subseteq Kept
  <2>1. UNCHANGED <<conn, forgotten>> /\ Claimed' = Claimed
    BY <1>6 DEF Job, JobOpensFile, JobCompletes, JobEnds, JobGoesTo, Claimed, Owes, Pending,
                AtRequest
  <2>2. CASE UNCHANGED stored
    BY <2>1, <2>2 DEF Kept
  <2>3. CASE JobOpensFile(w)
    <3>1. job[w] \in {"scheduled", "open"} /\ stored' = stored \cup {w}
      BY <2>3 DEF JobOpensFile
    <3>2. w \in forgotten \/ \E d \in Connections : Fetching(d, w)
      BY <3>1 DEF JobsInv
    <3>3. w \in forgotten \cup Claimed
      BY <3>2 DEF FetchedInv, FetchedBy, Fetching, Claimed, Owes, Pending
    <3> QED
      BY <2>1, <3>1, <3>3 DEF Kept
  <2> QED
    BY <1>6, <2>2, <2>3 DEF Job, JobCompletes, JobEnds
<1>7. ASSUME NEW c \in Connections, ListVersions(c)
      PROVE  Cardinality(Kept') <= NumVersionsRetain
  <2> DEFINE N == Newest(stored, NumVersionsRetain)
  <2>1. /\ conn'[c].pc = "removing" /\ conn'[c].listing = stored \ N /\ UNCHANGED stored
    BY <1>1, <1>7 DEF ListVersions, Superfluous, ConnectionStates
  <2>2. N \in SUBSET Versions /\ Cardinality(N) <= NumVersionsRetain
    BY <1>1, NewestCount, VersionsFinite, RetainAssumption DEF Newest
  <2> HIDE DEF N
  <2>3. Kept' \subseteq N
    BY <1>1, <2>1 DEF Kept, Claimed, Owes
  <2> QED
    BY <1>2, <2>2, <2>3
<1>8. ASSUME NEW c \in Connections, EndOfThread(c), ~ListVersions(c)
      PROVE  Kept' \subseteq Kept
  <2>1. /\ \A d \in Connections \ {c} : conn'[d] = conn[d]
        /\ UNCHANGED forgotten
    BY <1>8, EndKeeps
  <2>2. ASSUME NEW v \in stored'
        PROVE  v \in stored /\ (Owes(c, v) => Owes(c, v)')
    <3>1. CASE RemoveVersion(c)
      BY <1>1, <2>2, <3>1 DEF RemoveVersion, Owes, Pending, AtRequest, ConnectionStates
    <3>2. CASE LockPurgeMutex(c)
      BY <1>1, <2>2, <3>2 DEF LockPurgeMutex, Owes, Pending, AtRequest, ConnectionStates
    <3>3. CASE UnlockPurgeMutex(c)
      BY <1>1, <2>2, <3>3 DEF UnlockPurgeMutex, Owes, Pending, AtRequest, ConnectionStates
    <3>4. CASE \/ ListFiles(c) \/ LookAtFile(c) \/ RemoveFile(c) \/ SweepAborts(c) \/ SweepEnds(c)
      BY <1>1, <2>2, <3>4 DEF ListFiles, LookAtFile, RemoveFile, SweepAborts, SweepEnds, Sweeping,
                              Owes, Pending, AtRequest, ConnectionStates
    <3> QED
      BY <1>8, <3>1, <3>2, <3>3, <3>4 DEF EndOfThread
  <2> QED
    BY <1>4, <2>1, <2>2
<1>9. CASE UNCHANGED vars
  BY <1>3, <1>9 DEF Kept, Claimed, Owes, Pending, AtRequest
<1> QED
  BY <1>3, <1>5, <1>6, <1>7, <1>8, <1>9 DEF Next

-----------------------------------------------------------------------------
(* The sweeps. *)

\* What a step of the thread of c does to the sweeps.
LEMMA SweepEffect ==
    ASSUME TypeInv, ListingInv, NEW c \in Connections, Client(c) \/ EndOfThread(c)
    PROVE  /\ \A d \in Connections \ {c} : conn'[d] = conn[d]
           /\ stale' \subseteq stale
           /\ conn'[c].pc \in {"sweeping", "file"} => stale' \subseteq conn'[c].listing
           /\ \/ Sound(c)'
              \/ UNCHANGED stale /\ Over(c)' /\ Over(c)
              \/ UNCHANGED stale /\ Over(c)' /\ stale = {}
              \/ UNCHANGED stale /\ ~Over(c)' /\ ~Sound(c)
<1>1. /\ conn \in [Connections -> ConnectionStates] /\ conn[c] \in ConnectionStates
      /\ conn[c].pc \in {"sweeping", "file"} => stale \subseteq conn[c].listing
  BY DEF TypeInv, TypeOK, ListingInv
<1>2. CASE Client(c)
  BY <1>2, ClientEffect DEF Sound, Over
<1>3. CASE EndOfThread(c)
  <2> USE DEF Sound, Over, ConnectionStates, Sweeping
  <2>1. \A d \in Connections \ {c} : conn'[d] = conn[d]
    BY <1>3, EndKeeps
  <2>2. CASE LockPurgeMutex(c)
    BY <1>1, <2>1, <2>2 DEF LockPurgeMutex
  <2>3. CASE ListVersions(c)
    BY <1>1, <2>1, <2>3 DEF ListVersions
  <2>4. CASE RemoveVersion(c)
    BY <1>1, <2>1, <2>4 DEF RemoveVersion
  <2>5. CASE UnlockPurgeMutex(c)
    BY <1>1, <2>1, <2>5 DEF UnlockPurgeMutex
  <2>6. CASE ListFiles(c)
    BY <1>1, <2>1, <2>6 DEF ListFiles
  <2>7. CASE LookAtFile(c)
    <3>1. PICK f \in conn[c].listing :
            conn' = [conn EXCEPT ![c] = IF f \in stale
                                        THEN [conn[c] EXCEPT !.pc = "file", !.version = f]
                                        ELSE [conn[c] EXCEPT !.listing = @ \ {f}]]
      BY <2>7 DEF LookAtFile
    <3>2. conn[c].pc = "sweeping" /\ UNCHANGED stale
      BY <2>7 DEF LookAtFile
    <3>3. CASE f \in stale
      BY <1>1, <2>1, <3>1, <3>2, <3>3
    <3>4. CASE f \notin stale
      BY <1>1, <2>1, <3>1, <3>2, <3>4
    <3> QED
      BY <3>3, <3>4
  <2>8. CASE RemoveFile(c)
    BY <1>1, <2>1, <2>8 DEF RemoveFile, Rest
  <2>9. CASE SweepAborts(c)
    BY <1>1, <2>1, <2>9 DEF SweepAborts, NoConnection
  <2>10. CASE SweepEnds(c)
    BY <1>1, <2>1, <2>10 DEF SweepEnds, NoConnection
  <2> QED
    BY <1>3, <2>2, <2>3, <2>4, <2>5, <2>6, <2>7, <2>8, <2>9, <2>10 DEF EndOfThread
<1> QED
  BY <1>2, <1>3

LEMMA SweepStep ==
    TypeInv /\ ListingInv /\ SweepInv /\ [Next]_vars => ListingInv' /\ SweepInv'
<1> SUFFICES ASSUME TypeInv, ListingInv, SweepInv, [Next]_vars PROVE ListingInv' /\ SweepInv'
  OBVIOUS
<1>1. ASSUME NEW c \in Connections, Client(c) \/ EndOfThread(c) PROVE ListingInv' /\ SweepInv'
  <2>1. /\ \A d \in Connections \ {c} : conn'[d] = conn[d]
        /\ stale' \subseteq stale
        /\ conn'[c].pc \in {"sweeping", "file"} => stale' \subseteq conn'[c].listing
        /\ \/ Sound(c)'
           \/ UNCHANGED stale /\ Over(c)' /\ Over(c)
           \/ UNCHANGED stale /\ Over(c)' /\ stale = {}
           \/ UNCHANGED stale /\ ~Over(c)' /\ ~Sound(c)
    BY <1>1, SweepEffect
  <2>2. ListingInv'
    BY <2>1 DEF ListingInv
  <2>3. ASSUME UNCHANGED stale, ~Sound(c)', NEW d \in Connections, Over(d)', stale # {},
               Over(c) \/ (~Over(c)' /\ ~Sound(c))
        PROVE  \E e \in Connections : Sound(e)'
    <3>1. Over(d) \/ Over(c)
      BY <2>1, <2>3 DEF Over
    <3>2. PICK e \in Connections : Sound(e)
      BY <2>3, <3>1 DEF SweepInv
    <3>3. e # c
      BY <2>3, <3>2 DEF Over, Sound
    <3> QED
      BY <2>1, <2>3, <3>2, <3>3 DEF Sound
  <2>4. SweepInv'
    BY <2>1, <2>3 DEF SweepInv
  <2> QED
    BY <2>2, <2>4
<1>2. CASE UNCHANGED <<conn, stale>>
  BY <1>2 DEF ListingInv, SweepInv, Sound, Over
<1> QED
  BY <1>1, <1>2 DEF Next, Job, JobOpensFile, JobCompletes, JobEnds, JobGoesTo

-----------------------------------------------------------------------------
(* The theorems. *)

LEMMA InvInit == Init => IInv
<1> SUFFICES ASSUME Init PROVE IInv
  OBVIOUS
<1>1. TypeInv
  BY TypeInit
<1>2. /\ \A c \in Connections : conn[c] = NoConnection
      /\ \A v \in Versions : job[v] = "none"
      /\ stored \in SUBSET Versions /\ Cardinality(stored) <= NumVersionsRetain
  BY DEF Init
<1>3. PurgeInv /\ JobsInv /\ FetchedInv
  BY <1>2 DEF NoConnection, PurgeInv, PurgeOf, JobsInv, FetchedInv, FetchedBy, Fetching, AtRequest
<1>4. ListingInv /\ SweepInv
  BY <1>2 DEF NoConnection, ListingInv, SweepInv, Over
<1>5. RetainInv
  <2>1. Kept \in SUBSET stored
    BY DEF Kept
  <2>2. IsFiniteSet(stored) /\ Cardinality(stored) \in Nat /\ Cardinality(Kept) \in Nat
    BY <1>2, <2>1, VersionsFinite
  <2>3. Cardinality(Kept) <= Cardinality(stored)
    BY <2>1, <2>2, FS_Subset
  <2> QED
    BY <1>2, <2>2, <2>3, RetainAssumption DEF RetainInv, Kept
<1> QED
  BY <1>1, <1>3, <1>4, <1>5 DEF IInv

\* The inductive invariant holds in every reachable state: what serve_client has
\* fetched is somebody's to purge until it is purged, and a sweep that makes
\* another one fail goes on.
THEOREM Inductive == Spec => []IInv
<1>1. IInv /\ [Next]_vars => IInv'
  BY TypeStep, PurgeStep, FetchStep, RetainStep, SweepStep DEF IInv
<1> QED
  BY <1>1, InvInit, PTL DEF Spec

\* Every variable has its type, and cache_purge_mutex belongs to the one thread
\* that is in purge_cache.
THEOREM TypeCorrect == Spec => []TypeOK
<1>1. IInv => TypeOK
  BY DEF IInv, TypeInv
<1> QED
  BY <1>1, Inductive, PTL

\* purge_cache and the downloads of other connections do not get past each
\* other: once all is quiet, no more than num_versions_retain versions of a
\* package are left, but for those that serve_client was not told of.
THEOREM Retained == Spec => []RetainedUnlessForgotten
<1>1. IInv => RetainedUnlessForgotten
  <2> SUFFICES ASSUME IInv, Quiet, NumVersionsRetain # 0
               PROVE  Cardinality(stored \ forgotten) <= NumVersionsRetain
    BY DEF RetainedUnlessForgotten
  <2>1. Claimed = {}
    BY DEF Claimed, Owes, Pending, AtRequest, Quiet
  <2>2. stored \ (forgotten \cup Claimed) = stored \ forgotten
    BY <2>1
  <2> QED
    BY <2>2 DEF IInv, RetainInv
<1> QED
  BY <1>1, Inductive, PTL

\* A sweep that fails at a file, which purge_uncacheable_files of another thread
\* was faster to remove, leaves no stale file behind: the other one goes on.
THEOREM Swept == Spec => []SweptTogether
<1>1. IInv => SweptTogether
  BY DEF IInv, SweepInv, SweptTogether, Sound, Over
<1> QED
  BY <1>1, Inductive, PTL

\* Between the listing of flexo_purge_cache and each of its removals, others
\* download and purge as they like: nothing is removed that is not older than
\* num_versions_retain versions that stay.
THEOREM OldOnly == Spec => OnlyOldRemoved
<1>1. IInv /\ [Next]_vars =>
        [\A v \in stored \ stored' :
           NumVersionsRetain # 0 /\ Cardinality({w \in stored' : w > v}) >= NumVersionsRetain]_stored
  <2> SUFFICES ASSUME IInv, [Next]_vars, NEW v \in stored \ stored'
               PROVE  /\ NumVersionsRetain # 0
                      /\ Cardinality({w \in stored' : w > v}) >= NumVersionsRetain
    OBVIOUS
  <2>1. TypeInv /\ TypeInv' /\ PurgeInv
    BY TypeStep DEF IInv
  <2>2. PICK c \in Connections : RemoveVersion(c)
    <3>1. \A w \in Versions : ~Job(w)
      BY DEF Job, JobOpensFile, JobCompletes, JobEnds, JobGoesTo
    <3>2. \A c \in Connections : ~Client(c)
      BY <2>1, ClientEffect
    <3> QED
      BY <3>1, <3>2 DEF Next, EndOfThread, LockPurgeMutex, ListVersions, UnlockPurgeMutex, ListFiles,
                        LookAtFile, RemoveFile, SweepAborts, SweepEnds, Sweeping
  <2>3. /\ conn[c].pc = "removing" /\ v \in conn[c].listing
        /\ stored \ conn[c].listing \subseteq stored'
    BY <2>2 DEF RemoveVersion
  <2> DEFINE Y == {w \in stored \ conn[c].listing : w > v}
             Z == {w \in stored' : w > v}
  <2>4. NumVersionsRetain # 0 /\ Cardinality(Y) >= NumVersionsRetain
    BY <2>1, <2>3 DEF PurgeInv, PurgeOf
  <2>5. Y \in SUBSET Z /\ Z \in SUBSET Versions
    BY <2>1, <2>3 DEF TypeInv, TypeOK
  <2>6. IsFiniteSet(Z) /\ Cardinality(Z) \in Nat
    BY <2>5, VersionsFinite
  <2>7. Cardinality(Y) \in Nat /\ Cardinality(Y) <= Cardinality(Z)
    BY <2>5, <2>6, FS_Subset, FS_CardinalityType
  <2> HIDE DEF Y, Z
  <2>8. Cardinality(Z) >= NumVersionsRetain
    BY <2>4, <2>6, <2>7, RetainAssumption
  <2> QED
    BY <2>4, <2>8 DEF Z
<1> QED
  BY <1>1, Inductive, PTL DEF Spec, OnlyOldRemoved

=============================================================================
