---------------------------- MODULE MirrorSelection ----------------------------
(***************************************************************************)
(* How flexo chooses its mirrors each time it is started:                  *)
(* initialize_job_context in src/flexo/src/main.rs with mirror_fetch.rs,   *)
(* mirror_cache.rs and rated_providers_retry of mirror_flexo.rs.           *)
(*                                                                         *)
(* The official mirrors come from a JSON endpoint or one of its fallbacks. *)
(* They are all tested, or, if the stored results of the last test are not *)
(* too old, only a few in the countries of those results.  The results are *)
(* stored for the next start, and replace the official list when there is  *)
(* no endpoint to get it from.  Meanwhile mirrors and endpoints come and   *)
(* go, an endpoint may keep a start waiting, the results may fail to be    *)
(* written, and the program is stopped or killed, also while it stores.    *)
(*                                                                         *)
(* A mirror of the list is given by its place there: the list may name a   *)
(* mirror twice.  Latencies are not modelled: any order of the mirrors     *)
(* that answer may be the order of their latencies.                        *)
(*                                                                         *)
(* An operator Mutant_X is a plausible mistake in the operator below it;   *)
(* nothing uses it, README.md says which property it breaks.               *)
(***************************************************************************)
EXTENDS Naturals, Sequences, FiniteSets, SequencesExt

CONSTANTS
    Mirrors,
    Listing,          \* the official list, a sequence of mirrors
    Country,          \* country_code of each mirror
    MirrorScore,      \* its score, less is better
    Strict,           \* the mirrors that filter_predicate lets through
    Relaxed,          \* those it lets through after relax()
    AllowedCountries, \* allowed_countries, empty for all
    NumMirrors,       \* num_mirrors, of which the next test makes its choice
    Predefined,       \* mirrors_predefined
    Methods,          \* the mirror_selection_methods the user may configure
    NumEndpoints,     \* the JSON endpoint and its fallbacks
    NumAttempts,      \* LATENCY_TEST_NUM_ATTEMPTS
    RefreshAfter      \* refresh_latency_tests_after, in ticks

Countries == {Country[m] : m \in Mirrors}

ASSUME MirrorsAssumption ==
    /\ Listing \in Seq(Mirrors) /\ Predefined \in Seq(Mirrors)
    /\ Strict \subseteq Relaxed /\ Relaxed \subseteq Mirrors
    /\ MirrorScore \in [Mirrors -> Nat]
    /\ AllowedCountries \subseteq Countries

ASSUME SettingsAssumption ==
    /\ NumMirrors \in Nat \ {0} /\ NumEndpoints \in Nat \ {0} /\ NumAttempts \in Nat \ {0}
    /\ RefreshAfter \in Nat
    /\ Methods \subseteq {"Auto", "Predefined"}

VARIABLES
    pc,              \* how far the start is, "running" when it is over
    method,          \* mirror_selection_method of this start
    endpoint,        \* the endpoint that is asked
    test,            \* where the providers come from: "full" is Limit::NoLimit
    country_filter,
    attempt,
    providers,
    results,         \* latency_test_results.json
    age,             \* since the timestamp in it, no further than necessary
    answering,       \* the endpoints and mirrors that answer at present
    since_full_test, \* since the last test of all mirrors that gave any, likewise
    full_countries   \* the countries of the last such test that was stored

startVars  == <<method, endpoint, test, country_filter, attempt, providers>>
storeVars  == <<results, age>>
ghostVars  == <<since_full_test, full_countries>>
vars       == <<pc, startVars, storeVars, answering, ghostVars>>

Endpoints  == 1..NumEndpoints
MaxAge     == RefreshAfter + 1

-----------------------------------------------------------------------------
Distinct(s) == \A i, j \in DOMAIN s : i # j => s[i] # s[j]

Located(s, n) == {Country[s[i]] : i \in {k \in DOMAIN s : k <= n}}

\* A mirror whose URL the list has already named is skipped.
Mutant_FetchedTwice == DOMAIN Listing
Fetched == {i \in DOMAIN Listing : \A j \in 1..(i - 1) : Listing[j] # Listing[i]}

\* The list sorted by score; sort_by is stable.
Before(i, j) ==
    LET si == MirrorScore[Listing[i]]  sj == MirrorScore[Listing[j]]
    IN  si < sj \/ (si = sj /\ i < j)

Passing(n) == IF n = 0 THEN Strict ELSE Relaxed

Filtered(n) ==
    {i \in Fetched : Listing[i] \in Passing(n) /\ Country[Listing[i]] \in country_filter}

\* take(limit) comes before the test.
Tested(n) ==
    IF test = "full" THEN Filtered(n)
    ELSE {i \in Filtered(n) : Cardinality({j \in Filtered(n) : Before(j, i)}) < NumMirrors}

\* measure_latency, within the timeout.
LatencyMeasured(m) == m \in answering

\* The mirrors whose latency is measured, in the order of their latency.
TestResults(n) ==
    LET answered == {i \in Tested(n) : LatencyMeasured(Listing[i])}
    IN  {[k \in DOMAIN s |-> Listing[s[k]]] : s \in SetToSeqs(answered)}

ConfiguredCountries == IF AllowedCountries = {} THEN Countries ELSE AllowedCountries

RefreshRequired == age > RefreshAfter

NoResults(kind) == [kind |-> kind, providers |-> <<>>]
Results(s)      == [kind |-> "results", providers |-> s]

Init ==
    /\ pc = "stopped" /\ method \in Methods
    /\ endpoint = 1 /\ test = "none" /\ country_filter = {} /\ attempt = 0 /\ providers = <<>>
    /\ results \in {NoResults("absent"), NoResults("outdated")} /\ age = 0
    /\ answering = Endpoints \cup Mirrors
    /\ since_full_test = MaxAge /\ full_countries = {}

-----------------------------------------------------------------------------
(* One start of the program. *)

Go(here, there) == pc = here /\ pc' = there

\* The variables of fetch_auto and what it calls are gone.
Return == endpoint' = 1 /\ test' = "none" /\ country_filter' = {} /\ attempt' = 0

\* The process ends.
End(here) == Go(here, "stopped") /\ Return /\ providers' = <<>> /\ UNCHANGED method

Start(m) ==
    /\ m \in Methods
    /\ method' = m
    /\ Return
    /\ IF m = "Auto"
       THEN Go("stopped", "fetching") /\ providers' = <<>>
       ELSE Go("stopped", "rated") /\ providers' = Predefined
    /\ UNCHANGED <<storeVars, answering, ghostVars>>

\* One of the attempts of fetch_json is successful.
EndpointAnswers == endpoint \in answering

\* The list, or the next endpoint, or nothing.
FetchEnds(here) ==
    /\ \/ /\ EndpointAnswers
          /\ Go(here, "listed")
          /\ UNCHANGED endpoint
       \/ /\ ~EndpointAnswers
          /\ endpoint < NumEndpoints
          /\ Go(here, "fetching")
          /\ endpoint' = endpoint + 1
       \/ /\ ~EndpointAnswers
          /\ endpoint = NumEndpoints
          /\ Go(here, "offline")
          /\ UNCHANGED endpoint
    /\ UNCHANGED <<method, test, country_filter, attempt, providers, storeVars, answering, ghostVars>>

FetchFromEndpoint == FetchEnds("fetching")

\* fetch_json sets no timeout: an endpoint that accepts the connection and does
\* not answer keeps the start waiting ...
Stall ==
    /\ ~EndpointAnswers
    /\ Go("fetching", "stalled")
    /\ UNCHANGED <<startVars, storeVars, answering, ghostVars>>

\* ... until the answer comes after all, or the connection breaks.
StallEnds == FetchEnds("stalled")

Mutant_OnlyRecent == results.kind = "results" /\ ~RefreshRequired
Readable == results.kind = "results"

MirrorsFromCache ==
    /\ Readable
    /\ Go("offline", "rated") /\ Return
    /\ providers' = results.providers
    /\ UNCHANGED <<method, storeVars, answering, ghostVars>>

\* mirrors_from_cache panics.
CacheUnreadable ==
    /\ ~Readable
    /\ End("offline")
    /\ UNCHANGED <<storeVars, answering, ghostVars>>

Mutant_NeverAll  == results.kind = "results"
ResultsUsed == results.kind = "results" /\ ~RefreshRequired

Mutant_ConfiguredCountries == ConfiguredCountries
CountriesOfResults == Located(results.providers, NumMirrors)

\* The beginning of rated_mirrors.  get_country_filter replaces the countries of
\* the configuration.
ChooseTest ==
    /\ Go("listed", "testing")
    /\ IF ResultsUsed
       THEN test' = "limited" /\ country_filter' = CountriesOfResults
       ELSE test' = "full" /\ country_filter' = ConfiguredCountries
    /\ UNCHANGED <<method, endpoint, attempt, providers, storeVars, answering, ghostVars>>

Mutant_OneMore(n) == n < NumAttempts
AttemptsLeft(n) == n + 1 < NumAttempts

\* One round of rated_providers_retry.  All rounds but the first have the relaxed
\* settings, which are not relaxed any further.
TestLatencies ==
    /\ \E s \in TestResults(attempt) :
          \/ /\ s # <<>> \/ ~AttemptsLeft(attempt)
             /\ Go("testing", "rated")
             /\ providers' = s
             /\ attempt' = 0
          \/ /\ s = <<>> /\ AttemptsLeft(attempt)
             /\ Go("testing", "testing")
             /\ attempt' = attempt + 1
             /\ UNCHANGED providers
    /\ UNCHANGED <<method, endpoint, test, country_filter, storeVars, answering, ghostVars>>

\* ProviderSelectionError::NoProviders: main exits.
Exit ==
    /\ providers = <<>>
    /\ End("rated")
    /\ UNCHANGED <<storeVars, answering, ghostVars>>

ToBeStored ==
    /\ providers # <<>> /\ method = "Auto"
    /\ since_full_test' = IF test = "full" THEN 0 ELSE since_full_test

\* store_latency_test_results takes the time and truncates the file ...
BeginStore ==
    /\ ToBeStored
    /\ Go("rated", "storing")
    /\ results' = NoResults("torn") /\ age' = 0
    /\ UNCHANGED <<startVars, answering, full_countries>>

\* ... and has written it.
EndStore ==
    /\ Go("storing", "chosen")
    /\ results' = Results(providers)
    /\ full_countries' = IF test = "full" THEN Located(providers, Len(providers)) ELSE full_countries
    /\ Return
    /\ UNCHANGED <<method, providers, age, answering, since_full_test>>

\* It panics if the file cannot be opened, or cannot be written.
StoreFails ==
    /\ \/ ToBeStored /\ End("rated")
       \/ End("storing") /\ UNCHANGED since_full_test
    /\ UNCHANGED <<storeVars, answering, full_countries>>

UsePredefined ==
    /\ providers # <<>> /\ method = "Predefined"
    /\ Go("rated", "chosen")
    /\ UNCHANGED <<startVars, storeVars, answering, ghostVars>>

CreateJobContext ==
    /\ Distinct(providers)
    /\ Go("chosen", "running")
    /\ UNCHANGED <<startVars, storeVars, answering, ghostVars>>

\* check_duplicates of JobContext::new panics.
DuplicateProvider ==
    /\ ~Distinct(providers)
    /\ End("chosen")
    /\ UNCHANGED <<storeVars, answering, ghostVars>>

-----------------------------------------------------------------------------
(* The surroundings. *)

Stop ==
    /\ End("running")
    /\ UNCHANGED <<storeVars, answering, ghostVars>>

\* The process is killed while it starts.
Kill ==
    /\ pc \notin {"stopped", "running"}
    /\ End(pc)
    /\ UNCHANGED <<storeVars, answering, ghostVars>>

Later(n) == IF n < MaxAge THEN n + 1 ELSE n

\* A start takes no time that matters to RefreshAfter.
Tick ==
    /\ pc \in {"stopped", "running"}
    /\ age' = Later(age) /\ since_full_test' = Later(since_full_test)
    /\ UNCHANGED <<pc, startVars, results, answering, full_countries>>

ComeOrGo(x) ==
    /\ answering' = IF x \in answering THEN answering \ {x} ELSE answering \cup {x}
    /\ UNCHANGED <<pc, startVars, storeVars, ghostVars>>

Step ==
    \/ FetchFromEndpoint \/ MirrorsFromCache \/ CacheUnreadable \/ ChooseTest \/ TestLatencies
    \/ Exit \/ BeginStore \/ EndStore \/ UsePredefined \/ CreateJobContext \/ DuplicateProvider

Next ==
    \/ \E m \in Methods : Start(m)
    \/ Step
    \/ Stall \/ StallEnds \/ StoreFails
    \/ Stop \/ Kill \/ Tick
    \/ \E x \in Endpoints \cup Mirrors : ComeOrGo(x)

\* A start goes on unless an endpoint keeps it waiting, time goes by, and a program
\* that is down is started again.
Fairness == WF_vars(Step) /\ SF_vars(Tick) /\ WF_vars(\E m \in Methods : Start(m))

Spec     == Init /\ [][Next]_vars
FairSpec == Spec /\ Fairness

-----------------------------------------------------------------------------
(* Properties. *)

TypeOK ==
    /\ pc \in {"stopped", "fetching", "stalled", "listed", "offline", "testing", "rated", "storing",
               "chosen", "running"}
    /\ method \in Methods /\ test \in {"none", "full", "limited"}
    /\ endpoint \in Endpoints /\ attempt \in 0..(NumAttempts - 1)
    /\ country_filter \subseteq Countries /\ full_countries \subseteq Countries
    /\ providers \in Seq(Mirrors)
    /\ results.kind \in {"absent", "outdated", "torn", "results"}
    /\ results.providers \in Seq(Mirrors)
    /\ age \in 0..MaxAge /\ since_full_test \in 0..MaxAge
    /\ answering \subseteq Endpoints \cup Mirrors

\* Whatever a start has stored, by whichever way it came to its providers, a
\* later start can use: it names at least one mirror, so that the countries of
\* the next test are not empty, and none twice, which JobContext::new panics on.
StoredUsable ==
    results.kind = "results" =>
        /\ results.providers # <<>> /\ Distinct(results.providers)
        /\ ToSet(results.providers) \subseteq Relaxed

\* "We only choose mirrors at a location that scored well in the previous latency
\* test" (flexo.toml): over any number of starts that test a few mirrors or take
\* the stored ones, killed or not, no country comes in that the last stored test
\* of all mirrors did not give.
CountriesOfFullTest ==
    results.kind = "results" => Located(results.providers, Len(results.providers)) \subseteq full_countries

\* "At the first start and at regular intervals, Flexo will run latency tests on
\* all official mirrors" (README.md): a start that tests only a few of them is
\* not later than RefreshAfter after the last test of all.
FullTestAtIntervals ==
    [][pc = "listed" /\ test' = "limited" => since_full_test <= RefreshAfter]_vars

StaysUp(x) == <>[](x \in answering)

\* The start ends by itself, which looks like a kill.
GivesUp == Exit \/ CacheUnreadable \/ DuplicateProvider

\* From some time on the user no longer changes the method, no start is killed that
\* would have gone on, and the results can be written.
Undisturbed ==
    /\ <>[](method = "Auto")
    /\ <>[][(Kill => GivesUp) /\ ~StoreFails]_vars

\* No endpoint keeps a start waiting for ever, which fetch_json does not ensure.
RequestsEnd == []<>(pc # "stalled")

Selectable == {m \in ToSet(Listing) \cap Relaxed : Country[m] \in ConfiguredCountries}

\* However few mirrors the stored results leave to the next test, and even if all
\* of those are gone or the file is torn: as long as an endpoint and some selectable
\* mirror answer and no other endpoint stalls for ever, the program comes up again
\* and again, because a start without providers stores nothing, so that the stored
\* results grow old and all mirrors are tested.
Recovers ==
    (\E e \in Endpoints : StaysUp(e)) /\ (\E m \in Selectable : StaysUp(m))
    /\ Undisturbed /\ RequestsEnd
        => []<>(pc = "running")

\* "Fallback strategy in case the JSON endpoint cannot be reached"
\* (mirror_cache.rs): once there are stored results, no endpoint is needed to
\* start, nor any mirror, and starting over and over does not use them up.  That is
\* how the comment has it; an endpoint that stalls is not reached either.
FallbackReached ==
    <>[](answering \cap Endpoints = {} /\ (results.kind = "results" \/ pc = "storing")) /\ Undisturbed
        => []<>(pc = "running")

\* What the code does of it: if the requests to the endpoints fail or end.
StartsOffline == RequestsEnd => FallbackReached
=============================================================================
