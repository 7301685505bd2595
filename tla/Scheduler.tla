------------------------------ MODULE Scheduler ------------------------------
(***************************************************************************)
(* The job scheduler of flexo: src/flexo/src/lib.rs (JobContext, Order,    *)
(* Job) and src/flexo/src/provider_guards.rs.                              *)
(*                                                                         *)
(* A request calls try_schedule.  A scheduled order gets a job thread of   *)
(* its own, which selects a provider, fetches a channel, asks the provider *)
(* and, when that fails, goes on with the next provider.  Requests and job *)
(* threads share the set of orders in progress, the failure counters, the  *)
(* usage counts of the providers, the pool of idle channels and the panic  *)
(* monitor.                                                                *)
(*                                                                         *)
(* A step of a thread is the code between two accesses to shared state.    *)
(* provider_metrics and guards.mutex are held during a whole selection     *)
(* ("scan"), but a guard is dropped without any lock, so the usage counts  *)
(* are read one by one while other threads drop theirs.                    *)
(*                                                                         *)
(* An operator Mutant_X is a plausible mistake in the operator below it;   *)
(* nothing uses it, README.md says which property it breaks.               *)
(***************************************************************************)
EXTENDS Integers, Sequences, FiniteSets

CONSTANTS
    NumProviders,     \* length of the vector of guards; its order breaks ties
    InitialScore,     \* initial_score of each provider, less is better
    CustomProviders,  \* providers of custom repositories, not in the vector
    Orders,
    Cacheable,        \* the orders with is_cacheable()
    Retryable,        \* the orders with retryable()
    PanicOrders,      \* the orders a job may panic on while it is served
    FailingWrites,    \* the orders whose file may fail to be written
    Threads,          \* bound: the job threads that can exist at one time
    Clients,          \* bound: the requests that hold a redirect's guard
    ServeResults,     \* what serve_from_provider may return
    OrderErrors,      \* what handle_error may return for a failed channel
    MaxAttempts,      \* NUM_MAX_ATTEMPTS
    MaxU32,           \* the greatest value of the u32 num_failures
    MaxFailures,      \* bound: no order is scheduled beyond this failure count
    AllowReset        \* whether /reset-metrics is ever requested

Providers    == 1..NumProviders
AllProviders == Providers \cup CustomProviders
NoProvider   == 0
AnyOrder     == CHOOSE o \in Orders : TRUE  \* of a thread that has no job

Results == {"Complete", "Partial", "Error", "Unavailable"}
Errors  == {"ClientError", "UnexpectedInternalError"}

ASSUME ProvidersAssumption ==
    /\ NumProviders \in Nat \ {0}
    /\ InitialScore \in [Providers -> Nat]
    /\ CustomProviders \cap (0..NumProviders) = {}

ASSUME OrdersAssumption ==
    /\ Orders # {}
    /\ Cacheable \subseteq Orders
    /\ Retryable \subseteq Orders
    /\ PanicOrders \subseteq Orders
    /\ FailingWrites \subseteq Orders

ASSUME ResultsAssumption ==
    /\ ServeResults \subseteq Results
    /\ OrderErrors \subseteq Errors

ASSUME BoundsAssumption ==
    /\ MaxAttempts \in Nat \ {0}
    /\ MaxU32 \in Nat \ {0}
    /\ MaxFailures \in Nat
    /\ AllowReset \in BOOLEAN
    /\ IsFiniteSet(Threads)
    /\ IsFiniteSet(Clients)

VARIABLES
    orders_in_progress,
    metrics_keys,            \* the providers with an entry in provider_metrics
    num_failures,            \* num_failures of the entry, 0 where there is none
    usages,                  \* the usage counts the current scan has read
    channels,                \* the providers with an idle channel in the pool
    panic_monitor,           \* the threads whose mutex is in the panic monitor
    poisoned,                \* try_schedule has panicked: job_context is poisoned
    redirects,               \* the provider a redirected request's guard is for
    pc,                      \* where each thread is
    job_order,
    custom_provider,
    provider,                \* guarded_provider of the current attempt
    last_chance,
    num_attempt,
    unsuccessful_providers,
    punished_providers,
    result

contextVars == <<orders_in_progress, panic_monitor, poisoned>>
metricVars  == <<metrics_keys, num_failures>>
jobVars     == <<job_order, custom_provider>>
attemptVars == <<provider, last_chance, result>>
loopVars    == <<num_attempt, unsuccessful_providers, punished_providers>>
shared      == <<contextVars, metricVars, usages, channels, redirects>>
locals      == <<jobVars, attemptVars, loopVars>>
vars        == <<shared, pc, locals>>

PCs == {"ended", "spawned", "select", "scan", "channel", "serve", "paused",
        "settle", "judge", "pardon", "remove", "finish", "panicked"}

-----------------------------------------------------------------------------
\* A thread's job is under way from the spawn to the removal of its order.
Working == {"spawned", "select", "scan", "channel", "serve", "paused",
            "settle", "judge", "pardon", "remove"}

\* The program points at which the attempt's ProviderGuard is alive.
Guarding == {"channel", "serve", "paused", "settle", "judge"}

\* The mutex a job thread holds from its first statement to its end.
ThreadLocked(t) == pc[t] \notin {"ended", "spawned", "panicked"}

\* provider_metrics and guards.mutex are both held during a selection.
MetricsUnlocked == \A t \in Threads : pc[t] # "scan"

\* Arc::strong_count: the guard in the vector and every clone of it.
NumCurrentUsages(p) ==
    1 + Cardinality({t \in Threads : pc[t] \in Guarding /\ provider[t] = p})
      + Cardinality({c \in Clients : redirects[c] = p})

Mutant_ScoreIgnoresUsages(t, p) == <<num_failures[p], 0, InitialScore[p]>>

\* The derived Ord of the scores: DynamicScoreCacheable compares failures,
\* usages and initial score, DynamicScoreUncacheable leaves the usages out.
Score(t, p) ==
    <<num_failures[p],
      IF job_order[t] \in Cacheable THEN usages[p] ELSE 0,
      InitialScore[p]>>

ScoreLess(s, r) ==
    \E i \in 1..3 : s[i] < r[i] /\ \A j \in 1..(i - 1) : s[j] = r[j]

\* Iterator::min_by_key returns the first of the minimal elements.
First(p, s, q, r) == ScoreLess(s, r) \/ (s = r /\ p <= q)

Candidates(t) == Providers \ unsuccessful_providers[t]

Increment(n) == IF n = MaxU32 THEN 0 ELSE n + 1
Mutant_DecrementSigned(n) == n - 1
Decrement(n) == IF n = 0 THEN MaxU32 ELSE n - 1

-----------------------------------------------------------------------------
Go(t, here, there) == pc[t] = here /\ pc' = [pc EXCEPT ![t] = there]

Init ==
    /\ orders_in_progress = {}
    /\ metrics_keys = {}
    /\ num_failures = [p \in AllProviders |-> 0]
    /\ usages = <<>>
    /\ channels = {}
    /\ panic_monitor = {}
    /\ poisoned = FALSE
    /\ redirects = [c \in Clients |-> NoProvider]
    /\ pc = [t \in Threads |-> "ended"]
    /\ job_order = [t \in Threads |-> AnyOrder]
    /\ custom_provider = [t \in Threads |-> NoProvider]
    /\ provider = [t \in Threads |-> NoProvider]
    /\ last_chance = [t \in Threads |-> FALSE]
    /\ num_attempt = [t \in Threads |-> 0]
    /\ unsuccessful_providers = [t \in Threads |-> {}]
    /\ punished_providers = [t \in Threads |-> {}]
    /\ result = [t \in Threads |-> "Complete"]

-----------------------------------------------------------------------------
(* The requests: try_schedule, best_provider and /reset-metrics.  All of it *)
(* runs under the mutex of job_context.                                     *)

Mutant_ScheduleAnyway(o) == o \in Orders
NotInProgress(o) == o \notin orders_in_progress

\* What persist_and_get_cache_state can answer, sizes reduced to 0..2.
NotCached  == [complete_size |-> 0, cached_size |-> 0]
CacheItems == {NotCached} \cup
              [complete_size : 1..2, cached_size : 0..2]

\* The outcome of try_schedule for an order that is not in progress.
Outcome(o, item, resume_from) ==
    LET cached == IF o \in Cacheable THEN item ELSE NotCached
    IN  IF cached.cached_size < resume_from THEN "Uncacheable"
        ELSE IF cached # NotCached /\ cached.complete_size = cached.cached_size
        THEN "Cached"
        ELSE "Scheduled"

\* Each job fails a provider at most once, so this keeps num_failures bounded.
WithinBounds == \A p \in Providers : num_failures[p] < MaxFailures

\* The monitor keeps the threads on whose mutex try_lock would block.
Drained == {m \in panic_monitor : ThreadLocked(m)}

\* The order goes into orders_in_progress, the monitor is drained of the
\* threads whose mutex is free, those that have ended among them, and the job
\* thread is spawned; t is any slot without a running thread.
Schedule(o, c, t) ==
    /\ ~poisoned /\ WithinBounds
    /\ NotInProgress(o)
    /\ \E item \in CacheItems, r \in 0..2 : Outcome(o, item, r) = "Scheduled"
    /\ Go(t, "ended", "spawned")
    /\ \A m \in panic_monitor : pc[m] # "panicked"
    /\ orders_in_progress' = orders_in_progress \cup {o}
    /\ panic_monitor' = Drained \cup {t}
    /\ job_order' = [job_order EXCEPT ![t] = o]
    /\ custom_provider' = [custom_provider EXCEPT ![t] = c]
    /\ UNCHANGED <<metricVars, attemptVars, loopVars, usages, channels,
                   poisoned, redirects>>

\* The monitor holds a poisoned mutex: try_schedule panics with the mutex of
\* job_context held, and the drain has emptied the monitor.
SchedulePanics(o) ==
    /\ ~poisoned
    /\ NotInProgress(o)
    /\ \E item \in CacheItems, r \in 0..2 : Outcome(o, item, r) = "Scheduled"
    /\ \E m \in panic_monitor : pc[m] = "panicked"
    /\ orders_in_progress' = orders_in_progress \cup {o}
    /\ panic_monitor' = {}
    /\ poisoned' = TRUE
    /\ UNCHANGED <<locals, metricVars, usages, channels, redirects, pc>>

\* Neither failures nor usages count for a redirect, only the initial score.
BestProvider(p) ==
    \A q \in Providers : First(p, <<InitialScore[p], 0, 0>>, q, <<InitialScore[q], 0, 0>>)

\* The request is answered with a redirect and holds the guard meanwhile.
Redirect(o, c) ==
    /\ ~poisoned /\ MetricsUnlocked
    /\ NotInProgress(o)
    /\ \E item \in CacheItems, r \in 0..2 : Outcome(o, item, r) = "Uncacheable"
    /\ redirects[c] = NoProvider
    /\ \E p \in Providers :
          BestProvider(p) /\ redirects' = [redirects EXCEPT ![c] = p]
    /\ UNCHANGED <<locals, contextVars, metricVars, usages, channels, pc>>

\* For a custom repository best_provider makes a guard of its own and looks at
\* no other provider, so it needs no mutex.
RedirectCustom(o, c, p) ==
    /\ ~poisoned
    /\ NotInProgress(o)
    /\ \E item \in CacheItems, r \in 0..2 : Outcome(o, item, r) = "Uncacheable"
    /\ redirects[c] = NoProvider
    /\ redirects' = [redirects EXCEPT ![c] = p]
    /\ UNCHANGED <<locals, contextVars, metricVars, usages, channels, pc>>

Redirected(c) ==
    /\ redirects[c] # NoProvider
    /\ redirects' = [redirects EXCEPT ![c] = NoProvider]
    /\ UNCHANGED <<locals, contextVars, metricVars, usages, channels, pc>>

\* Forgets every counter, also those that running jobs have raised.
ResetProviderMetrics ==
    /\ AllowReset /\ ~poisoned /\ MetricsUnlocked
    /\ metrics_keys # {}
    /\ metrics_keys' = {}
    /\ num_failures' = [p \in AllProviders |-> 0]
    /\ UNCHANGED <<locals, contextVars, usages, channels, redirects, pc>>

-----------------------------------------------------------------------------
(* The job thread: the closure that schedule spawns, and try_until_success. *)

StartThread(t) ==
    /\ Go(t, "spawned", "select")
    /\ UNCHANGED <<shared, locals>>

\* A custom provider is the only one: it is used without a look at the scores
\* and gets no entry in provider_metrics.
SelectCustom(t) ==
    /\ Go(t, "select", "channel") /\ custom_provider[t] # NoProvider
    /\ MetricsUnlocked
    /\ num_attempt' = [num_attempt EXCEPT ![t] = @ + 1]
    /\ provider' = [provider EXCEPT ![t] = custom_provider[t]]
    /\ last_chance' = [last_chance EXCEPT ![t] = TRUE]
    /\ UNCHANGED <<shared, jobVars, unsuccessful_providers, punished_providers,
                   result>>

BeginSelection(t) ==
    /\ Go(t, "select", "scan") /\ custom_provider[t] = NoProvider
    /\ MetricsUnlocked
    /\ num_attempt' = [num_attempt EXCEPT ![t] = @ + 1]
    /\ usages' = <<>>
    /\ UNCHANGED <<contextVars, metricVars, jobVars, attemptVars, channels,
                   redirects, unsuccessful_providers, punished_providers>>

ReadUsages(t) ==
    /\ pc[t] = "scan" /\ Len(usages) < NumProviders
    /\ usages' = Append(usages, NumCurrentUsages(Len(usages) + 1))
    /\ UNCHANGED <<locals, contextVars, metricVars, channels, redirects, pc>>

\* min_by_key over the providers that are not excluded.  The code unwraps it:
\* SelectionNeverEmpty says that there is always one.
MinByKey(t) ==
    {p \in Candidates(t) :
        \A q \in Candidates(t) : First(p, Score(t, p), q, Score(t, q))}

Mutant_LastChanceTooLate(t) ==
    num_attempt[t] >= MaxAttempts \/ Candidates(t) = {} \/ job_order[t] \notin Retryable

LastChance(t) ==
    \/ num_attempt[t] >= MaxAttempts
    \/ Cardinality(Candidates(t)) <= 1
    \/ job_order[t] \notin Retryable

SelectProvider(t) ==
    /\ Go(t, "scan", "channel") /\ Len(usages) = NumProviders
    /\ \E p \in MinByKey(t) :
          /\ provider' = [provider EXCEPT ![t] = p]
          /\ metrics_keys' = metrics_keys \cup {p}
    /\ last_chance' = [last_chance EXCEPT ![t] = LastChance(t)]
    /\ usages' = <<>>
    /\ UNCHANGED <<contextVars, jobVars, loopVars, num_failures, channels,
                   redirects, result>>

\* get_channel takes an idle channel to the provider out of the pool, if there
\* is one, and opens the order's file.
GetChannel(t) ==
    /\ Go(t, "channel", "serve")
    /\ channels' = channels \ {provider[t]}
    /\ UNCHANGED <<locals, contextVars, metricVars, usages, redirects>>

\* The file cannot be opened: handle_error classifies the error, the loop is
\* left without a punishment, and the channel and the guard are dropped.
ChannelFails(t) ==
    /\ Go(t, "channel", "pardon")
    /\ channels' = channels \ {provider[t]}
    /\ \E e \in OrderErrors : result' = [result EXCEPT ![t] = e]
    /\ UNCHANGED <<contextVars, metricVars, jobVars, loopVars, usages,
                   redirects, provider, last_chance>>

\* The transfer ends by itself, or curl ends it: a connection that is not made
\* and a transfer below the low speed limit both run into a timeout.
ServeFromProvider(t) ==
    /\ Go(t, "serve", "settle")
    /\ \E r \in ServeResults : result' = [result EXCEPT ![t] = r]
    /\ UNCHANGED <<shared, jobVars, loopVars, provider, last_chance>>

\* The write of the order's file fails: the write callback pauses the transfer.
\* Nothing unpauses it, and curl makes no low speed check on a paused transfer,
\* so perform() never returns and no step leaves "paused".
Pause(t) ==
    /\ Go(t, "serve", "paused") /\ job_order[t] \in FailingWrites
    /\ UNCHANGED <<shared, locals>>

\* The thread unwinds: its guard and its channel are dropped, its mutex is
\* poisoned, and its order is never removed.
Panic(t) ==
    /\ Go(t, "serve", "panicked") /\ job_order[t] \in PanicOrders
    /\ UNCHANGED <<shared, locals>>

\* punish counts the failure where the provider has an entry, and otherwise
\* inserts an entry without failures.
Punish(t) ==
    /\ Go(t, "settle", "judge") /\ result[t] \in {"Partial", "Error"}
    /\ MetricsUnlocked
    /\ metrics_keys' = metrics_keys \cup {provider[t]}
    /\ num_failures' = IF provider[t] \in metrics_keys
                       THEN [num_failures EXCEPT ![provider[t]] = Increment(@)]
                       ELSE num_failures
    /\ punished_providers' = [punished_providers EXCEPT ![t] = @ \cup {provider[t]}]
    /\ UNCHANGED <<contextVars, jobVars, attemptVars, usages, channels,
                   redirects, num_attempt, unsuccessful_providers>>

NoPunishment(t) ==
    /\ Go(t, "settle", "judge") /\ result[t] \in {"Complete", "Unavailable"}
    /\ UNCHANGED <<shared, locals>>

\* The end of the loop's body; the guard is dropped in every case.
BreakOnSuccess(t) ==
    /\ Go(t, "judge", "remove") /\ result[t] = "Complete"
    /\ UNCHANGED <<shared, locals>>

BreakOnLastChance(t) ==
    /\ Go(t, "judge", "pardon") /\ result[t] # "Complete" /\ last_chance[t]
    /\ UNCHANGED <<shared, locals>>

Mutant_NothingExcluded(t) == unsuccessful_providers[t]
Excluded(t) == unsuccessful_providers[t] \cup {provider[t]}

TryNext(t) ==
    /\ Go(t, "judge", "select") /\ result[t] # "Complete" /\ ~last_chance[t]
    /\ unsuccessful_providers' = [unsuccessful_providers EXCEPT ![t] = Excluded(t)]
    /\ UNCHANGED <<shared, jobVars, attemptVars, num_attempt,
                   punished_providers>>

Mutant_PardonEveryFailed(t) ==
    (punished_providers[t] \cup unsuccessful_providers[t]) \cap metrics_keys

Pardoned(t) == punished_providers[t] \cap metrics_keys

\* Every provider failed, so none is to blame; an entry that a reset has taken
\* away stays away.
Pardon(t) ==
    /\ Go(t, "pardon", "remove") /\ MetricsUnlocked
    /\ num_failures' =
          [p \in AllProviders |->
              IF p \in Pardoned(t)
              THEN Decrement(num_failures[p]) ELSE num_failures[p]]
    /\ punished_providers' = [punished_providers EXCEPT ![t] = {}]
    /\ UNCHANGED <<contextVars, jobVars, attemptVars, metrics_keys, usages,
                   channels, redirects, num_attempt,
                   unsuccessful_providers>>

Mutant_ClearOrders(t) == orders_in_progress \ Orders
Mutant_RemoveCacheable(t) == orders_in_progress \ ({job_order[t]} \cap Cacheable)
OrdersWithout(t) == orders_in_progress \ {job_order[t]}

RemoveOrder(t) ==
    /\ Go(t, "remove", "finish")
    /\ orders_in_progress' = OrdersWithout(t)
    /\ UNCHANGED <<locals, metricVars, usages, channels, panic_monitor,
                   poisoned, redirects>>

\* Only a completed job puts its channel into the pool, where it replaces the
\* one that is there; the others read the metrics for their outcome.  The
\* locals of the thread die, and its mutex is unlocked.
Finish(t) ==
    /\ Go(t, "finish", "ended")
    /\ IF result[t] = "Complete"
       THEN channels' = channels \cup {provider[t]}
       ELSE MetricsUnlocked /\ UNCHANGED channels
    /\ job_order' = [job_order EXCEPT ![t] = AnyOrder]
    /\ custom_provider' = [custom_provider EXCEPT ![t] = NoProvider]
    /\ provider' = [provider EXCEPT ![t] = NoProvider]
    /\ last_chance' = [last_chance EXCEPT ![t] = FALSE]
    /\ num_attempt' = [num_attempt EXCEPT ![t] = 0]
    /\ unsuccessful_providers' = [unsuccessful_providers EXCEPT ![t] = {}]
    /\ punished_providers' = [punished_providers EXCEPT ![t] = {}]
    /\ result' = [result EXCEPT ![t] = "Complete"]
    /\ UNCHANGED <<contextVars, metricVars, usages, redirects>>

-----------------------------------------------------------------------------
Request ==
    \/ \E o \in Orders, c \in CustomProviders \cup {NoProvider}, t \in Threads :
          Schedule(o, c, t)
    \/ \E o \in Orders : SchedulePanics(o)
    \/ \E o \in Orders, c \in Clients : Redirect(o, c)
    \/ \E o \in Orders, c \in Clients, p \in CustomProviders :
          RedirectCustom(o, c, p)
    \/ \E c \in Clients : Redirected(c)
    \/ ResetProviderMetrics

Job(t) ==
    \/ StartThread(t)
    \/ SelectCustom(t) \/ BeginSelection(t) \/ ReadUsages(t) \/ SelectProvider(t)
    \/ GetChannel(t) \/ ChannelFails(t)
    \/ ServeFromProvider(t) \/ Pause(t) \/ Panic(t)
    \/ Punish(t) \/ NoPunishment(t)
    \/ BreakOnSuccess(t) \/ BreakOnLastChance(t) \/ TryNext(t)
    \/ Pardon(t) \/ RemoveOrder(t) \/ Finish(t)

Next == Request \/ \E t \in Threads : Job(t)

\* A job thread runs on as long as it has a step: a transfer that is not paused
\* ends because curl's limits end it, and a thread that waits for a mutex again
\* and again gets it (strong fairness), since it is held for a few instructions
\* only.  A thread that is paused has no step.
Fairness == \A t \in Threads : SF_vars(Job(t))

Spec     == Init /\ [][Next]_vars
FairSpec == Spec /\ Fairness

-----------------------------------------------------------------------------
(* Properties. *)

\* Every variable has its type; in particular num_failures stays a u32.
TypeOK ==
    /\ orders_in_progress \subseteq Orders
    /\ metrics_keys \subseteq AllProviders
    /\ num_failures \in [AllProviders -> 0..MaxU32]
    /\ usages \in Seq(Nat) /\ Len(usages) <= NumProviders
    /\ channels \subseteq AllProviders
    /\ panic_monitor \subseteq Threads
    /\ poisoned \in BOOLEAN
    /\ redirects \in [Clients -> AllProviders \cup {NoProvider}]
    /\ pc \in [Threads -> PCs]
    /\ job_order \in [Threads -> Orders]
    /\ custom_provider \in [Threads -> CustomProviders \cup {NoProvider}]
    /\ provider \in [Threads -> AllProviders \cup {NoProvider}]
    /\ last_chance \in [Threads -> BOOLEAN]
    /\ num_attempt \in [Threads -> Nat]
    /\ unsuccessful_providers \in [Threads -> SUBSET AllProviders]
    /\ punished_providers \in [Threads -> SUBSET AllProviders]
    /\ result \in [Threads -> Results \cup Errors]

\* The thread answers for its order; one that has panicked does so for ever.
Holds(t) == pc[t] \in Working \cup {"panicked"}

\* orders_in_progress is exact: no order is worked on by two jobs at a time
\* (which would append to the same file), and none stays in the set when its
\* job is over (which would turn every later request for it away), as long as
\* try_schedule itself has not panicked.
SingleFlight ==
    /\ \A t, u \in Threads :
          Holds(t) /\ Holds(u) /\ job_order[t] = job_order[u] => t = u
    /\ \A t \in Threads : Holds(t) => job_order[t] \in orders_in_progress
    /\ \A o \in orders_in_progress :
          poisoned \/ \E t \in Threads : Holds(t) /\ job_order[t] = o

\* A job that goes for another attempt still has a provider it has not tried,
\* whatever other jobs do meanwhile: the unwrap of min_by_key in
\* get_provider_guard never meets an empty list.
SelectionNeverEmpty ==
    \A t \in Threads :
        pc[t] \in {"select", "scan"} /\ custom_provider[t] = NoProvider
            => Candidates(t) # {}

\* A job never returns to a provider that has failed it, and it counts right:
\* each earlier attempt has excluded one more provider, and none exceeds
\* NUM_MAX_ATTEMPTS.
AttemptsAccounted ==
    \A t \in Threads : pc[t] \in Guarding =>
        /\ provider[t] \notin unsuccessful_providers[t]
        /\ num_attempt[t] = Cardinality(unsuccessful_providers[t]) + 1
        /\ num_attempt[t] <= MaxAttempts

\* Every punishment that a running job may still take back is in the counter
\* of the provider: concurrent jobs never pardon more than was punished, so
\* the u32 does not wrap below zero.  (A reset breaks it, see the runs.)
PunishmentsCounted ==
    \A p \in Providers :
        num_failures[p] >= Cardinality({t \in Threads : p \in punished_providers[t]})

\* "We don't want a provider to be downgraded" when no provider could fulfil
\* an order (the test no_downgrade_if_all_providers_fail): when no job ever
\* completes, all counters are back at zero once no job is running.
NoDowngradeWhenAllFail ==
    "Complete" \notin ServeResults /\ (\A t \in Threads : pc[t] = "ended")
        => \A p \in AllProviders : num_failures[p] = 0

\* Cacheable orders spread over the providers: a job comes to share a provider
\* with another job only if every other candidate without more failures was in
\* use when the scan came to it.
NoSharingWhileIdle ==
    [][\A t, u \in Threads :
          /\ pc[t] = "scan" /\ pc'[t] = "channel" /\ job_order[t] \in Cacheable
          /\ u # t /\ pc[u] \in Guarding /\ provider[u] = provider'[t]
          => \A q \in Candidates(t) :
                num_failures[q] <= num_failures[provider'[t]] => usages[q] > 1]_vars

\* Every scheduled order is eventually out of orders_in_progress again, even
\* when all providers fail and all other jobs go on or are paused for ever,
\* unless its own transfer is paused or a thread has panicked.
OrderLeaves ==
    \A o \in Orders :
        (o \in orders_in_progress) ~>
            \/ o \notin orders_in_progress
            \/ \E t \in Threads : pc[t] = "paused" /\ job_order[t] = o
            \/ \E t \in Threads : pc[t] = "panicked"

\* What the comment in serve_growing_file relies on: "if no progress is made,
\* then curl should drop the connection", so every transfer ends.  A failing
\* write pauses it instead, and its order stays in progress for ever: the code
\* breaks this with FailingWrites # {}, and no run checks it.
TransferEnds ==
    \A t \in Threads :
        pc[t] \in {"serve", "paused"} ~> pc[t] \notin {"serve", "paused"}

\* The providers an order's job has asked so far.
Asked(t) ==
    unsuccessful_providers[t] \cup
    (IF pc[t] \in Guarding \cup {"pardon", "remove", "panicked"}
     THEN {provider[t]} ELSE {})

AskedFor == [o \in Orders |->
    UNION {Asked(t) : t \in {u \in Threads : Holds(u) /\ job_order[u] = o}}]

Fetch == INSTANCE OrderFetch WITH in_flight <- orders_in_progress, asked <- AskedFor

\* The scheduler implements OrderFetch: one job per order, which asks each
\* provider at most once.
ImplementsOrderFetch == Fetch!Spec
=============================================================================
