------------------------- MODULE MirrorSelectionProofs -------------------------
(***************************************************************************)
(* Theorems about MirrorSelection, for every list of mirrors, every        *)
(* configuration and any number of starts.                                 *)
(***************************************************************************)
EXTENDS MirrorSelection, FiniteSetTheorems, TLAPS

(* What a test of latencies gives. *)

\* A mirror whose URL the list has already named is not fetched.
LEMMA FetchedOnce ==
    ASSUME NEW i \in Fetched, NEW j \in Fetched, i # j
    PROVE  Listing[i] # Listing[j]
<1>1. i \in 1..Len(Listing) /\ j \in 1..Len(Listing) /\ Len(Listing) \in Nat
  BY MirrorsAssumption DEF Fetched
<1>2. CASE i < j
  <2>1. i \in 1..(j - 1)
    BY <1>1, <1>2
  <2> QED
    BY <2>1 DEF Fetched
<1>3. CASE j < i
  <2>1. j \in 1..(i - 1)
    BY <1>1, <1>3
  <2>2. Listing[j] # Listing[i]
    BY <2>1 DEF Fetched
  <2> QED
    BY <2>2
<1> QED
  BY <1>1, <1>2, <1>3

\* The list of mirrors names each only once, whatever the endpoint has sent, and
\* so do the results of a test, which are mirrors that the relaxed settings let
\* through in countries that the filter includes.
LEMMA ResultsOfTest ==
    ASSUME NEW n \in Nat, NEW s \in TestResults(n)
    PROVE  /\ s \in Seq(Mirrors) /\ Distinct(s)
           /\ ToSet(s) \subseteq Relaxed
           /\ Located(s, Len(s)) \subseteq country_filter
<1> DEFINE answered == {i \in Tested(n) : LatencyMeasured(Listing[i])}
<1>1. answered \subseteq Filtered(n)
  BY DEF Tested
<1>2. Filtered(n) \subseteq 1..Len(Listing)
  BY MirrorsAssumption DEF Filtered, Fetched
<1>3. Cardinality(answered) \in Nat
  <2>1. IsFiniteSet(1..Len(Listing))
    BY FS_Interval, MirrorsAssumption
  <2>2. IsFiniteSet(answered)
    BY <1>1, <1>2, <2>1, FS_Subset
  <2> QED
    BY <2>2, FS_CardinalityType
<1>4. PICK f \in [1..Cardinality(answered) -> answered] :
         /\ \A i, j \in 1..Cardinality(answered) : i # j => f[i] # f[j]
         /\ s = [k \in DOMAIN f |-> Listing[f[k]]]
  BY DEF TestResults, SetToSeqs
<1>5. DOMAIN s = 1..Cardinality(answered) /\ \A k \in DOMAIN s : s[k] = Listing[f[k]]
  BY <1>4
<1>6. \A k \in DOMAIN s :
         /\ f[k] \in 1..Len(Listing) /\ f[k] \in Filtered(n)
         /\ s[k] \in Mirrors /\ s[k] \in Relaxed
         /\ Country[s[k]] \in country_filter
  BY <1>1, <1>2, <1>4, <1>5, MirrorsAssumption DEF Filtered, Passing
<1>7. s \in Seq(Mirrors) /\ Len(s) = Cardinality(answered)
  BY <1>3, <1>4, <1>5, <1>6
<1>8. Distinct(s)
  <2> SUFFICES ASSUME NEW i \in DOMAIN s, NEW j \in DOMAIN s, i # j
               PROVE  s[i] # s[j]
    BY DEF Distinct
  <2>1. f[i] # f[j] /\ f[i] \in Fetched /\ f[j] \in Fetched
    BY <1>4, <1>5, <1>6 DEF Filtered
  <2>2. Listing[f[i]] # Listing[f[j]]
    BY <2>1, FetchedOnce
  <2> QED
    BY <1>5, <2>2
<1>9. ToSet(s) \subseteq Relaxed
  BY <1>6 DEF ToSet
<1>10. Located(s, Len(s)) \subseteq country_filter
  BY <1>6 DEF Located
<1> QED
  BY <1>7, <1>8, <1>9, <1>10

\* The mirrors of a list are in countries.
LEMMA LocatedInCountries ==
    ASSUME NEW s \in Seq(Mirrors), NEW n PROVE Located(s, n) \subseteq Countries
BY DEF Located, Countries

\* The first mirrors of a list are in countries of the list.
LEMMA LocatedFirst ==
    ASSUME NEW s \in Seq(Mirrors), NEW n \in Nat
    PROVE  Located(s, n) \subseteq Located(s, Len(s))
BY DEF Located

-----------------------------------------------------------------------------
(* The inductive invariant. *)

\* What a later start can use.
Usable(s) == s # <<>> /\ Distinct(s) /\ ToSet(s) \subseteq Relaxed

\* All in countries of the last test of all mirrors that was stored.
InFullCountries(s) == Located(s, Len(s)) \subseteq full_countries

StoreInv ==
    results.kind = "results" => Usable(results.providers) /\ InFullCountries(results.providers)

\* How far a start is, and what it must know of the test there.
Fetching == {"fetching", "stalled", "listed", "offline"}

PhaseInv ==
    /\ pc \in Fetching \cup {"testing", "storing"} => method = "Auto"
    /\ pc \in Fetching => test = "none"
    /\ pc = "testing" => test \in {"full", "limited"}
    /\ pc = "testing" /\ test = "limited" => country_filter \subseteq full_countries

\* The providers of a start that will store them.
ProvidersInv ==
    pc \in {"rated", "storing"} /\ method = "Auto" =>
        /\ Distinct(providers) /\ ToSet(providers) \subseteq Relaxed
        /\ test # "full" => InFullCountries(providers)
        /\ pc = "storing" => providers # <<>>

IInv == TypeOK /\ StoreInv /\ PhaseInv /\ ProvidersInv

USE DEF startVars, storeVars, ghostVars

LEMMA EmptySeq == <<>> \in Seq(Mirrors)
OBVIOUS

LEMMA InvInit == Init => IInv
<1> SUFFICES ASSUME Init PROVE IInv
  OBVIOUS
<1>1. results.kind \in {"absent", "outdated"} /\ results.providers = <<>>
  BY DEF Init, NoResults
<1>2. TypeOK
  BY <1>1, SettingsAssumption, EmptySeq DEF Init, TypeOK, MaxAge, Endpoints
<1>3. StoreInv
  BY <1>1 DEF StoreInv
<1>4. PhaseInv /\ ProvidersInv
  BY DEF Init, PhaseInv, ProvidersInv, Fetching
<1> QED
  BY <1>2, <1>3, <1>4 DEF IInv

-----------------------------------------------------------------------------
(* The steps: each keeps the types, and what the later starts rely on. *)

LEMMA TypeStep == TypeOK /\ [Next]_vars => TypeOK'
<1> SUFFICES ASSUME TypeOK, [Next]_vars PROVE TypeOK'
  OBVIOUS
<1> USE DEF TypeOK, Go, Return
<1>1. ASSUME NEW m \in Methods, Start(m) PROVE TypeOK'
  <2>1. pc' \in {"fetching", "rated"} /\ providers' \in Seq(Mirrors)
    BY <1>1, MirrorsAssumption, EmptySeq DEF Start
  <2>2. endpoint' \in Endpoints /\ attempt' \in 0..(NumAttempts - 1)
    BY <1>1, SettingsAssumption DEF Start, Endpoints
  <2> QED
    BY <1>1, <2>1, <2>2 DEF Start
<1>2. CASE FetchFromEndpoint \/ Stall \/ StallEnds
  <2>1. ASSUME NEW here, FetchEnds(here) PROVE TypeOK'
    <3>1. endpoint' \in Endpoints
      BY <2>1, SettingsAssumption DEF FetchEnds, Endpoints
    <3> QED
      BY <2>1, <3>1 DEF FetchEnds
  <2>2. CASE Stall
    BY <2>2 DEF Stall
  <2> QED
    BY <1>2, <2>1, <2>2 DEF FetchFromEndpoint, StallEnds
<1>3. CASE MirrorsFromCache
  BY <1>3, SettingsAssumption DEF MirrorsFromCache, Endpoints
<1>4. ASSUME NEW here, End(here), UNCHANGED <<storeVars, answering, full_countries>>,
             since_full_test' \in 0..MaxAge
      PROVE  TypeOK'
  BY <1>4, SettingsAssumption, EmptySeq DEF End, Endpoints
<1>5. CASE ChooseTest
  <2>1. CountriesOfResults \subseteq Countries
    BY LocatedInCountries DEF CountriesOfResults
  <2>2. ConfiguredCountries \subseteq Countries
    BY MirrorsAssumption DEF ConfiguredCountries
  <2>3. country_filter' \subseteq Countries /\ test' \in {"full", "limited"}
    BY <1>5, <2>1, <2>2 DEF ChooseTest
  <2> QED
    BY <1>5, <2>3 DEF ChooseTest
<1>6. CASE TestLatencies
  <2>1. PICK s \in TestResults(attempt) :
          \/ pc' = "rated" /\ providers' = s /\ attempt' = 0
          \/ /\ pc' = "testing" /\ providers' = providers
             /\ AttemptsLeft(attempt) /\ attempt' = attempt + 1
    BY <1>6 DEF TestLatencies
  <2>2. s \in Seq(Mirrors)
    BY ResultsOfTest, SettingsAssumption
  <2>3. attempt' \in 0..(NumAttempts - 1)
    BY <2>1, SettingsAssumption DEF AttemptsLeft
  <2> QED
    BY <1>6, <2>1, <2>2, <2>3 DEF TestLatencies
<1>7. CASE BeginStore
  BY <1>7, SettingsAssumption, EmptySeq DEF BeginStore, ToBeStored, NoResults, MaxAge
<1>8. CASE EndStore
  <2>1. full_countries' \subseteq Countries
    BY <1>8, LocatedInCountries DEF EndStore
  <2>2. results' = [kind |-> "results", providers |-> providers]
    BY <1>8 DEF EndStore, Results
  <2> QED
    BY <1>8, <2>1, <2>2, SettingsAssumption DEF EndStore, Endpoints
<1>9. CASE UsePredefined \/ CreateJobContext
  BY <1>9 DEF UsePredefined, CreateJobContext
<1>10. CASE Tick
  BY <1>10, SettingsAssumption DEF Tick, Later, MaxAge
<1>11. ASSUME NEW x \in Endpoints \cup Mirrors, ComeOrGo(x) PROVE TypeOK'
  BY <1>11 DEF ComeOrGo
<1>12. CASE UNCHANGED vars
  BY <1>12 DEF vars
<1>13. CASE CacheUnreadable \/ Exit \/ DuplicateProvider \/ Stop \/ Kill
  BY <1>4, <1>13 DEF CacheUnreadable, Exit, DuplicateProvider, Stop, Kill
<1>14. CASE StoreFails
  <2>1. since_full_test' \in 0..MaxAge
    BY <1>14, SettingsAssumption DEF StoreFails, ToBeStored, MaxAge
  <2> QED
    BY <1>4, <1>14, <2>1 DEF StoreFails
<1> QED
  BY <1>1, <1>2, <1>3, <1>5, <1>6, <1>7, <1>8, <1>9, <1>10, <1>11, <1>12, <1>13, <1>14
  DEF Next, Step

\* Only EndStore makes results that can be used, and only of providers of which
\* ProvidersInv has told what they are.
LEMMA StoreStep == IInv /\ [Next]_vars => StoreInv'
<1> SUFFICES ASSUME IInv, [Next]_vars PROVE StoreInv'
  OBVIOUS
<1> USE DEF IInv, StoreInv
<1>1. CASE UNCHANGED <<results, full_countries>>
  BY <1>1 DEF Usable, InFullCountries
<1>2. CASE BeginStore
  BY <1>2 DEF BeginStore, NoResults
<1>3. CASE EndStore
  <2>1. /\ results'.providers = providers
        /\ full_countries' = IF test = "full" THEN Located(providers, Len(providers))
                             ELSE full_countries
        /\ pc = "storing" /\ method = "Auto"
    BY <1>3 DEF EndStore, Results, Go, PhaseInv
  <2>2. Usable(providers) /\ (test # "full" => InFullCountries(providers))
    BY <2>1 DEF ProvidersInv, Usable
  <2>3. Located(providers, Len(providers)) \subseteq full_countries'
    BY <2>1, <2>2 DEF InFullCountries
  <2> QED
    BY <2>1, <2>2, <2>3 DEF InFullCountries
<1>4. BeginStore \/ EndStore \/ UNCHANGED <<results, full_countries>>
  BY DEF Next, Step, Start, FetchFromEndpoint, FetchEnds, Stall, StallEnds, MirrorsFromCache,
         CacheUnreadable, ChooseTest, TestLatencies, Exit, StoreFails, UsePredefined,
         CreateJobContext, DuplicateProvider, Stop, Kill, Tick, ComeOrGo, vars
<1> QED
  BY <1>1, <1>2, <1>3, <1>4

\* A test of a few mirrors is made only in the countries of stored results.
LEMMA PhaseStep == IInv /\ [Next]_vars => PhaseInv'
<1> SUFFICES ASSUME IInv, [Next]_vars PROVE PhaseInv'
  OBVIOUS
<1> USE DEF IInv, PhaseInv, Fetching, Go, Return
<1>1. ASSUME NEW m \in Methods, Start(m) PROVE PhaseInv'
  BY <1>1 DEF Start
<1>2. CASE FetchFromEndpoint \/ Stall \/ StallEnds
  BY <1>2 DEF FetchFromEndpoint, FetchEnds, Stall, StallEnds
<1>3. CASE ChooseTest
  <2>1. ResultsUsed => CountriesOfResults \subseteq full_countries
    BY LocatedFirst, SettingsAssumption
       DEF ResultsUsed, CountriesOfResults, StoreInv, InFullCountries, TypeOK
  <2> QED
    BY <1>3, <2>1 DEF ChooseTest
<1>4. CASE TestLatencies
  BY <1>4 DEF TestLatencies
<1>5. CASE BeginStore
  BY <1>5 DEF BeginStore, ToBeStored
<1>6. CASE \/ MirrorsFromCache \/ CacheUnreadable \/ Exit \/ EndStore \/ UsePredefined
           \/ CreateJobContext \/ DuplicateProvider \/ Stop \/ Kill \/ StoreFails
  BY <1>6 DEF MirrorsFromCache, CacheUnreadable, Exit, EndStore, UsePredefined,
              CreateJobContext, DuplicateProvider, Stop, Kill, StoreFails, End
<1>7. CASE Tick \/ (\E x \in Endpoints \cup Mirrors : ComeOrGo(x)) \/ UNCHANGED vars
  BY <1>7 DEF Tick, ComeOrGo, vars
<1> QED
  BY <1>1, <1>2, <1>3, <1>4, <1>5, <1>6, <1>7 DEF Next, Step

\* The providers of a start come from a test or from the stored results.
LEMMA ProvidersStep == IInv /\ [Next]_vars => ProvidersInv'
<1> SUFFICES ASSUME IInv, [Next]_vars PROVE ProvidersInv'
  OBVIOUS
<1> USE DEF IInv, ProvidersInv, Go, Return, InFullCountries
<1>1. ASSUME NEW m \in Methods, Start(m) PROVE ProvidersInv'
  BY <1>1 DEF Start
<1>2. CASE MirrorsFromCache
  <2>1. Usable(results.providers) /\ InFullCountries(results.providers)
    BY <1>2 DEF MirrorsFromCache, Readable, StoreInv
  <2> QED
    BY <1>2, <2>1 DEF MirrorsFromCache, Usable
<1>3. CASE TestLatencies
  <2> SUFFICES ASSUME pc' = "rated" PROVE ProvidersInv'
    BY <1>3 DEF TestLatencies
  <2>1. PICK s \in TestResults(attempt) : providers' = s
    BY <1>3 DEF TestLatencies
  <2>2. /\ Distinct(s) /\ ToSet(s) \subseteq Relaxed
        /\ Located(s, Len(s)) \subseteq country_filter
    BY ResultsOfTest, SettingsAssumption DEF TypeOK
  <2>3. test # "full" => country_filter \subseteq full_countries
    BY <1>3 DEF TestLatencies, PhaseInv
  <2> QED
    BY <1>3, <2>1, <2>2, <2>3 DEF TestLatencies
<1>4. CASE BeginStore
  BY <1>4 DEF BeginStore, ToBeStored
<1>5. CASE \/ FetchFromEndpoint \/ Stall \/ StallEnds \/ ChooseTest \/ CacheUnreadable \/ Exit \/ EndStore
           \/ UsePredefined \/ CreateJobContext \/ DuplicateProvider \/ Stop \/ Kill
           \/ StoreFails
  BY <1>5 DEF FetchFromEndpoint, FetchEnds, Stall, StallEnds, ChooseTest, CacheUnreadable, Exit,
              EndStore, UsePredefined, CreateJobContext, DuplicateProvider, Stop, Kill,
              StoreFails, End
<1>6. CASE Tick \/ (\E x \in Endpoints \cup Mirrors : ComeOrGo(x)) \/ UNCHANGED vars
  BY <1>6 DEF Tick, ComeOrGo, vars
<1> QED
  BY <1>1, <1>2, <1>3, <1>4, <1>5, <1>6 DEF Next, Step

-----------------------------------------------------------------------------
(* The theorems. *)

\* The inductive invariant.
THEOREM Inductive == Spec => []IInv
<1>1. IInv /\ [Next]_vars => IInv'
  BY TypeStep, StoreStep, PhaseStep, ProvidersStep DEF IInv
<1> QED
  BY <1>1, InvInit, PTL DEF Spec

\* Every variable keeps its type: the attempts of rated_providers_retry end, and
\* what is stored or tested are mirrors.
THEOREM TypeCorrect == Spec => []TypeOK
BY Inductive, PTL DEF IInv

\* What any number of starts have stored can be used by the next: it is neither
\* empty nor names a mirror twice, though starts store each other's results.
THEOREM StoredIsUsable == Spec => []StoredUsable
<1>1. IInv => StoredUsable
  BY DEF IInv, StoreInv, Usable, StoredUsable
<1> QED
  BY <1>1, Inductive, PTL

\* No number of starts with a few tests or none brings in a country that the last
\* stored test of all mirrors did not give.
THEOREM OnlyCountriesOfFullTest == Spec => []CountriesOfFullTest
<1>1. IInv => CountriesOfFullTest
  BY DEF IInv, StoreInv, InFullCountries, CountriesOfFullTest
<1> QED
  BY <1>1, Inductive, PTL

=============================================================================
