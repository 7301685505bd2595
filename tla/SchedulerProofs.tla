--------------------------- MODULE SchedulerProofs ---------------------------
(***************************************************************************)
(* Theorems about Scheduler, for every number of providers, orders,        *)
(* requests and job threads.                                               *)
(***************************************************************************)
EXTENDS Scheduler, FiniteSetTheorems, TLAPS

\* From the selection of its first provider on, a job has one.
Selected == Guarding \cup {"pardon", "remove", "finish", "panicked"}

HasProvider == \A t \in Threads : pc[t] \in Selected => provider[t] \in AllProviders

TypeInv == TypeOK /\ HasProvider

USE DEF NoProvider

\* A strong_count is a natural number: it counts finitely many guards.
LEMMA UsagesAreNatural == \A p : NumCurrentUsages(p) \in Nat
<1> TAKE p
<1> DEFINE T == {t \in Threads : pc[t] \in Guarding /\ provider[t] = p}
           C == {c \in Clients : redirects[c] = p}
<1>1. IsFiniteSet(T) /\ IsFiniteSet(C)
  BY FS_Subset, BoundsAssumption
<1>2. Cardinality(T) \in Nat /\ Cardinality(C) \in Nat
  BY <1>1, FS_CardinalityType
<1> QED
  BY <1>2 DEF NumCurrentUsages

LEMMA TypeInit == Init => TypeInv
<1> SUFFICES ASSUME Init PROVE TypeInv
  OBVIOUS
<1>1. AnyOrder \in Orders
  BY OrdersAssumption DEF AnyOrder
<1>2. usages \in Seq(Nat) /\ Len(usages) <= NumProviders
  BY ProvidersAssumption DEF Init
<1>3. num_failures \in [AllProviders -> 0..MaxU32] /\ AllProviders \cup {NoProvider} # {}
  BY BoundsAssumption DEF Init
<1> QED
  BY <1>1, <1>2, <1>3
  DEF Init, TypeInv, TypeOK, HasProvider, Selected, Guarding, PCs, Results

LEMMA TypeRequest == TypeInv /\ Request => TypeInv'
<1> SUFFICES ASSUME TypeInv, Request PROVE TypeInv'
  OBVIOUS
<1> USE DEF TypeInv, TypeOK, HasProvider, Selected, Guarding, PCs, Working,
            contextVars, metricVars, jobVars, attemptVars, loopVars, shared, locals
<1>1. ASSUME NEW o \in Orders, NEW c \in CustomProviders \cup {NoProvider},
             NEW t \in Threads, Schedule(o, c, t)
      PROVE  TypeInv'
  BY <1>1 DEF Schedule, Go, Drained
<1>2. ASSUME NEW o \in Orders, SchedulePanics(o)
      PROVE  TypeInv'
  BY <1>2 DEF SchedulePanics
<1>3. ASSUME NEW o \in Orders, NEW c \in Clients, Redirect(o, c)
      PROVE  TypeInv'
  BY <1>3 DEF Redirect, AllProviders
<1>4. ASSUME NEW o \in Orders, NEW c \in Clients, NEW p \in CustomProviders,
             RedirectCustom(o, c, p)
      PROVE  TypeInv'
  BY <1>4 DEF RedirectCustom, AllProviders
<1>5. ASSUME NEW c \in Clients, Redirected(c)
      PROVE  TypeInv'
  BY <1>5 DEF Redirected
<1>6. ASSUME ResetProviderMetrics
      PROVE  TypeInv'
  BY <1>6, BoundsAssumption DEF ResetProviderMetrics
<1> QED
  BY <1>1, <1>2, <1>3, <1>4, <1>5, <1>6 DEF Request

LEMMA TypeJob == ASSUME NEW t \in Threads, TypeInv, Job(t) PROVE TypeInv'
<1> USE DEF TypeInv, TypeOK, HasProvider, Selected, Guarding, PCs, Working, Go,
            contextVars, metricVars, jobVars, attemptVars, loopVars, shared, locals
<1>1. CASE StartThread(t)
  BY <1>1 DEF StartThread
<1>2. CASE SelectCustom(t)
  BY <1>2 DEF SelectCustom, AllProviders
<1>3. CASE BeginSelection(t)
  BY <1>3, ProvidersAssumption DEF BeginSelection
<1>4. CASE ReadUsages(t)
  <2>1. NumCurrentUsages(Len(usages) + 1) \in Nat
    BY UsagesAreNatural
  <2>2. usages' \in Seq(Nat) /\ Len(usages') = Len(usages) + 1
    BY <1>4, <2>1 DEF ReadUsages
  <2>3. Len(usages') <= NumProviders
    BY <1>4, <2>2, ProvidersAssumption DEF ReadUsages
  <2> QED
    BY <1>4, <2>2, <2>3 DEF ReadUsages
<1>5. CASE SelectProvider(t)
  <2>1. PICK p \in AllProviders : /\ provider' = [provider EXCEPT ![t] = p]
                                 /\ metrics_keys' = metrics_keys \cup {p}
    BY <1>5 DEF SelectProvider, MinByKey, Candidates, AllProviders
  <2>2. usages' \in Seq(Nat) /\ Len(usages') <= NumProviders
    BY <1>5, ProvidersAssumption DEF SelectProvider
  <2>3. LastChance(t) \in BOOLEAN
    BY DEF LastChance
  <2> QED
    BY <1>5, <2>1, <2>2, <2>3 DEF SelectProvider
<1>6. CASE GetChannel(t)
  BY <1>6 DEF GetChannel
<1>7. CASE ChannelFails(t)
  BY <1>7, ResultsAssumption DEF ChannelFails
<1>8. CASE ServeFromProvider(t)
  BY <1>8, ResultsAssumption DEF ServeFromProvider
<1>9. CASE Pause(t) \/ Panic(t)
  BY <1>9 DEF Pause, Panic
<1>10. CASE Punish(t)
  BY <1>10, BoundsAssumption DEF Punish, Increment
<1>11. CASE NoPunishment(t)
  BY <1>11 DEF NoPunishment
<1>12. CASE BreakOnSuccess(t)
  BY <1>12 DEF BreakOnSuccess
<1>13. CASE BreakOnLastChance(t)
  BY <1>13 DEF BreakOnLastChance
<1>14. CASE TryNext(t)
  BY <1>14 DEF TryNext, Excluded
<1>15. CASE Pardon(t)
  BY <1>15, BoundsAssumption DEF Pardon, Decrement
<1>16. CASE RemoveOrder(t)
  BY <1>16 DEF RemoveOrder, OrdersWithout
<1>17. CASE Finish(t)
  BY <1>17, OrdersAssumption DEF Finish, AnyOrder, Results
<1> QED
  BY <1>1, <1>2, <1>3, <1>4, <1>5, <1>6, <1>7, <1>8, <1>9, <1>10, <1>11, <1>12, <1>13, <1>14, <1>15, <1>16, <1>17 DEF Job

\* Every variable has its type in every reachable state: the u32 counters, the
\* program points and the sets of providers that a job keeps.
THEOREM Typing == Spec => []TypeInv
<1>1. TypeInv /\ [Next]_vars => TypeInv'
  <2> SUFFICES ASSUME TypeInv, [Next]_vars PROVE TypeInv'
    OBVIOUS
  <2>1. CASE Request
    BY <2>1, TypeRequest
  <2>2. ASSUME NEW t \in Threads, Job(t) PROVE TypeInv'
    BY <2>2, TypeJob
  <2>3. CASE UNCHANGED vars
    BY <2>3 DEF vars, shared, locals, contextVars, metricVars, jobVars, attemptVars,
                loopVars, TypeInv, TypeOK, HasProvider, Selected, Guarding
  <2> QED
    BY <2>1, <2>2, <2>3 DEF Next
<1> QED
  BY <1>1, TypeInit, PTL DEF Spec

\* The type invariant that the runs check.
THEOREM TypeCorrect == Spec => []TypeOK
BY Typing, PTL DEF TypeInv

-----------------------------------------------------------------------------
(* At most one job per order. *)

\* Every step of a job but RemoveOrder and Finish leaves it answering for its
\* order and leaves orders_in_progress alone.
KeepsHold(t) ==
    /\ pc[t] \in Working /\ pc'[t] \in Working \cup {"panicked"}
    /\ \A u \in Threads \ {t} : pc'[u] = pc[u]
    /\ UNCHANGED <<orders_in_progress, job_order, poisoned>>

LEMMA JobKeepsHold ==
    ASSUME NEW t \in Threads, TypeInv, Job(t)
    PROVE  KeepsHold(t) \/ RemoveOrder(t) \/ Finish(t)
<1> USE DEF KeepsHold, TypeInv, TypeOK, Working, Go,
            contextVars, metricVars, jobVars, attemptVars, loopVars, shared, locals
<1>1. CASE StartThread(t)
  BY <1>1 DEF StartThread
<1>2. CASE SelectCustom(t)
  BY <1>2 DEF SelectCustom
<1>3. CASE BeginSelection(t)
  BY <1>3 DEF BeginSelection
<1>4. CASE ReadUsages(t)
  BY <1>4 DEF ReadUsages
<1>5. CASE SelectProvider(t)
  BY <1>5 DEF SelectProvider
<1>6. CASE GetChannel(t)
  BY <1>6 DEF GetChannel
<1>7. CASE ChannelFails(t)
  BY <1>7 DEF ChannelFails
<1>8. CASE ServeFromProvider(t)
  BY <1>8 DEF ServeFromProvider
<1>9. CASE Pause(t) \/ Panic(t)
  BY <1>9 DEF Pause, Panic
<1>10. CASE Punish(t)
  BY <1>10 DEF Punish
<1>11. CASE NoPunishment(t)
  BY <1>11 DEF NoPunishment
<1>12. CASE BreakOnSuccess(t)
  BY <1>12 DEF BreakOnSuccess
<1>13. CASE BreakOnLastChance(t)
  BY <1>13 DEF BreakOnLastChance
<1>14. CASE TryNext(t)
  BY <1>14 DEF TryNext
<1>15. CASE Pardon(t)
  BY <1>15 DEF Pardon
<1> QED
  BY <1>1, <1>2, <1>3, <1>4, <1>5, <1>6, <1>7, <1>8, <1>9, <1>10, <1>11, <1>12, <1>13, <1>14, <1>15 DEF Job

LEMMA SingleFlightStep ==
    ASSUME TypeInv, SingleFlight, [Next]_vars
    PROVE  SingleFlight'
<1> USE DEF SingleFlight, Holds
<1>1. ASSUME NEW o \in Orders, NEW c \in CustomProviders \cup {NoProvider},
             NEW t \in Threads, Schedule(o, c, t)
      PROVE  SingleFlight'
  <2>1. /\ pc[t] = "ended" /\ pc' = [pc EXCEPT ![t] = "spawned"]
        /\ o \notin orders_in_progress
        /\ orders_in_progress' = orders_in_progress \cup {o}
        /\ job_order' = [job_order EXCEPT ![t] = o]
        /\ UNCHANGED poisoned
    BY <1>1 DEF Schedule, Go, NotInProgress
  <2>2. /\ ~Holds(t) /\ Holds(t)' /\ job_order'[t] = o
        /\ \A u \in Threads \ {t} : (Holds(u)' <=> Holds(u)) /\ job_order'[u] = job_order[u]
    BY <2>1 DEF TypeInv, TypeOK, Working
  <2>3. \A u \in Threads : Holds(u) => job_order[u] # o
    BY <2>1
  <2>4. \A u \in Threads : Holds(u)' /\ job_order'[u] = o => u = t
    BY <2>2, <2>3
  <2> QED
    BY <2>1, <2>2, <2>4
<1>2. ASSUME NEW o \in Orders, SchedulePanics(o)
      PROVE  SingleFlight'
  BY <1>2 DEF SchedulePanics, locals, jobVars
<1>3. CASE \/ \E o \in Orders, c \in Clients : Redirect(o, c)
           \/ \E o \in Orders, c \in Clients, q \in CustomProviders : RedirectCustom(o, c, q)
           \/ \E c \in Clients : Redirected(c)
           \/ ResetProviderMetrics
           \/ UNCHANGED vars
  <2>1. UNCHANGED <<orders_in_progress, job_order, poisoned, pc>>
    BY <1>3 DEF Redirect, RedirectCustom,
           Redirected, ResetProviderMetrics, vars, shared, locals,
                contextVars, jobVars
  <2> QED
    BY <2>1
<1>4. ASSUME NEW t \in Threads, KeepsHold(t)
      PROVE  SingleFlight'
  BY <1>4 DEF KeepsHold
<1>5. ASSUME NEW t \in Threads, RemoveOrder(t)
      PROVE  SingleFlight'
  <2>1. /\ pc[t] = "remove" /\ pc' = [pc EXCEPT ![t] = "finish"]
        /\ orders_in_progress' = orders_in_progress \ {job_order[t]}
        /\ UNCHANGED <<job_order, poisoned>>
    BY <1>5 DEF RemoveOrder, Go, OrdersWithout, locals, jobVars
  <2>2. Holds(t) /\ ~Holds(t)' /\ \A u \in Threads \ {t} : Holds(u)' <=> Holds(u)
    BY <2>1 DEF TypeInv, TypeOK, Working
  <2>3. \A u \in Threads : Holds(u)' => Holds(u) /\ job_order[u] # job_order[t]
    BY <2>2
  <2> QED
    BY <2>1, <2>2, <2>3
<1>6. ASSUME NEW t \in Threads, Finish(t)
      PROVE  SingleFlight'
  <2>1. /\ pc[t] = "finish" /\ pc' = [pc EXCEPT ![t] = "ended"]
        /\ job_order' = [job_order EXCEPT ![t] = AnyOrder]
        /\ UNCHANGED <<orders_in_progress, poisoned>>
    BY <1>6 DEF Finish, Go, contextVars
  <2>2. /\ ~Holds(t) /\ ~Holds(t)'
        /\ \A u \in Threads \ {t} : (Holds(u)' <=> Holds(u)) /\ job_order'[u] = job_order[u]
    BY <2>1 DEF TypeInv, TypeOK, Working
  <2> QED
    BY <2>1, <2>2
<1> QED
  BY <1>1, <1>2, <1>3, <1>4, <1>5, <1>6, JobKeepsHold DEF Next, Request

\* orders_in_progress is exact in every reachable state: no two jobs work on
\* the same order, a job's order is in the set, and an order in the set has a
\* job (or try_schedule has panicked).
THEOREM AtMostOneJobPerOrder == Spec => []SingleFlight
<1>1. Init => SingleFlight
  BY DEF Init, SingleFlight, Holds, Working
<1>2. TypeInv /\ SingleFlight /\ [Next]_vars => SingleFlight'
  BY SingleFlightStep
<1> QED
  BY <1>1, <1>2, Typing, PTL DEF Spec

-----------------------------------------------------------------------------
(* The attempts of a job: the invariant of the loop in try_until_success.  *)

Loop(t) ==
    /\ IsFiniteSet(unsuccessful_providers[t])
    /\ pc[t] \in {"ended", "spawned"} =>
          num_attempt[t] = 0 /\ unsuccessful_providers[t] = {}
    /\ pc[t] = "select" =>
          /\ num_attempt[t] = Cardinality(unsuccessful_providers[t])
          /\ num_attempt[t] < MaxAttempts
          /\ custom_provider[t] = NoProvider => Candidates(t) # {}
          /\ custom_provider[t] # NoProvider => unsuccessful_providers[t] = {}
    /\ pc[t] = "scan" =>
          /\ custom_provider[t] = NoProvider /\ Candidates(t) # {}
          /\ num_attempt[t] = Cardinality(unsuccessful_providers[t]) + 1
          /\ num_attempt[t] <= MaxAttempts
    /\ pc[t] \in Guarding =>
          /\ provider[t] \notin unsuccessful_providers[t]
          /\ num_attempt[t] = Cardinality(unsuccessful_providers[t]) + 1
          /\ num_attempt[t] <= MaxAttempts
          /\ ~last_chance[t] => /\ num_attempt[t] < MaxAttempts
                                /\ custom_provider[t] = NoProvider
                                /\ Candidates(t) \ {provider[t]} # {}

LoopInv == \A t \in Threads : Loop(t)

\* What Loop(u) depends on.
loopState(u) == <<pc[u], num_attempt[u], unsuccessful_providers[u], custom_provider[u],
                  provider[u], last_chance[u]>>

LEMMA LoopStutter ==
    ASSUME NEW u \in Threads, Loop(u), UNCHANGED loopState(u)
    PROVE  Loop(u)'
BY DEF Loop, loopState, Candidates, Guarding

\* More than one candidate: one is left when the selected one fails.
LEMMA AnotherCandidate ==
    ASSUME NEW t \in Threads, NEW p \in Candidates(t), ~(Cardinality(Candidates(t)) <= 1)
    PROVE  Candidates(t) \ {p} # {}
<1> SUFFICES ASSUME Candidates(t) \ {p} = {} PROVE FALSE
  OBVIOUS
<1>1. Candidates(t) = {p}
  OBVIOUS
<1>2. Cardinality({p}) = 1
  BY FS_Singleton
<1> QED
  BY <1>1, <1>2

\* A step of a job changes nobody else's loop.
LEMMA OthersUntouched ==
    ASSUME NEW t \in Threads, TypeInv, Job(t), NEW u \in Threads \ {t}
    PROVE  UNCHANGED loopState(u)
<1> USE DEF loopState, TypeInv, TypeOK, Go,
            contextVars, metricVars, jobVars, attemptVars, loopVars, shared, locals
<1>1. CASE StartThread(t)
  BY <1>1 DEF StartThread
<1>2. CASE SelectCustom(t)
  BY <1>2 DEF SelectCustom
<1>3. CASE BeginSelection(t)
  BY <1>3 DEF BeginSelection
<1>4. CASE ReadUsages(t)
  BY <1>4 DEF ReadUsages
<1>5. CASE SelectProvider(t)
  BY <1>5 DEF SelectProvider
<1>6. CASE GetChannel(t)
  BY <1>6 DEF GetChannel
<1>7. CASE ChannelFails(t)
  BY <1>7 DEF ChannelFails
<1>8. CASE ServeFromProvider(t)
  BY <1>8 DEF ServeFromProvider
<1>9. CASE Pause(t) \/ Panic(t)
  BY <1>9 DEF Pause, Panic
<1>10. CASE Punish(t)
  BY <1>10 DEF Punish
<1>11. CASE NoPunishment(t)
  BY <1>11 DEF NoPunishment
<1>12. CASE BreakOnSuccess(t)
  BY <1>12 DEF BreakOnSuccess
<1>13. CASE BreakOnLastChance(t)
  BY <1>13 DEF BreakOnLastChance
<1>14. CASE TryNext(t)
  BY <1>14 DEF TryNext
<1>15. CASE Pardon(t)
  BY <1>15 DEF Pardon
<1>16. CASE RemoveOrder(t)
  BY <1>16 DEF RemoveOrder
<1>17. CASE Finish(t)
  BY <1>17 DEF Finish
<1> QED
  BY <1>1, <1>2, <1>3, <1>4, <1>5, <1>6, <1>7, <1>8, <1>9, <1>10, <1>11, <1>12, <1>13, <1>14, <1>15, <1>16, <1>17 DEF Job

LEMMA LoopJob ==
    ASSUME NEW t \in Threads, TypeInv, Loop(t), Job(t)
    PROVE  Loop(t)'
<1> USE DEF TypeInv, TypeOK, Go
<1> DEFINE U == unsuccessful_providers[t]
<1>0. Cardinality(U) \in Nat /\ num_attempt[t] \in Nat /\ MaxAttempts \in Nat \ {0}
  BY FS_CardinalityType, BoundsAssumption DEF Loop
<1>1. CASE StartThread(t)
  <2>1. Candidates(t)' = Providers /\ 1 \in Providers
    BY <1>1, ProvidersAssumption DEF StartThread, Loop, Candidates, Providers, locals, loopVars
  <2> QED
    BY <1>0, <1>1, <2>1, FS_EmptySet
    DEF StartThread, Loop, Guarding, shared, locals, jobVars, loopVars, attemptVars
<1>2. CASE SelectCustom(t)
  BY <1>0, <1>2, FS_EmptySet DEF SelectCustom, Loop, Guarding, jobVars
<1>3. CASE BeginSelection(t)
  BY <1>0, <1>3 DEF BeginSelection, Loop, Guarding, Candidates, jobVars, attemptVars
<1>4. CASE ReadUsages(t)
  BY <1>4 DEF ReadUsages, Loop, Guarding, Candidates, locals, jobVars, loopVars, attemptVars
<1>5. CASE SelectProvider(t)
  <2>1. PICK p \in Candidates(t) : provider' = [provider EXCEPT ![t] = p]
    BY <1>5 DEF SelectProvider, MinByKey
  <2>2. /\ pc[t] = "scan" /\ pc'[t] = "channel" /\ provider'[t] = p
        /\ last_chance'[t] = LastChance(t)
        /\ UNCHANGED <<custom_provider, num_attempt, unsuccessful_providers>>
    BY <1>5, <2>1 DEF SelectProvider, jobVars, loopVars, LastChance
  <2>3. ~LastChance(t) => num_attempt[t] < MaxAttempts /\ Candidates(t) \ {p} # {}
    BY <1>0, AnotherCandidate DEF LastChance
  <2> QED
    BY <1>0, <2>1, <2>2, <2>3 DEF Loop, Guarding, Candidates
<1>6. CASE /\ pc[t] \in Guarding /\ pc'[t] \notin {"ended", "spawned", "select", "scan"}
           /\ UNCHANGED <<custom_provider, provider, last_chance, num_attempt,
                          unsuccessful_providers>>
  BY <1>6 DEF Loop, Guarding, Candidates
<1>7. CASE TryNext(t)
  <2>1. /\ pc[t] = "judge" /\ pc'[t] = "select" /\ ~last_chance[t]
        /\ unsuccessful_providers'[t] = U \cup {provider[t]}
        /\ UNCHANGED <<custom_provider, num_attempt>>
    BY <1>7 DEF TryNext, Excluded, jobVars
  <2>2. /\ IsFiniteSet(U \cup {provider[t]})
        /\ Cardinality(U \cup {provider[t]}) = Cardinality(U) + 1
    BY <2>1, FS_AddElement DEF Loop, Guarding
  <2>3. Candidates(t)' = Candidates(t) \ {provider[t]}
    BY <2>1 DEF Candidates
  <2> QED
    BY <1>0, <2>1, <2>2, <2>3 DEF Loop, Guarding
<1>8. CASE /\ pc'[t] \in {"remove", "finish"}
           /\ UNCHANGED unsuccessful_providers
  BY <1>8 DEF Loop, Guarding
<1>9. CASE Finish(t)
  BY <1>9, FS_EmptySet DEF Finish, Loop, Guarding
<1> USE DEF Guarding, shared, locals, jobVars, loopVars, attemptVars
<1>10. CASE GetChannel(t)
  BY <1>6, <1>10 DEF GetChannel
<1>11. CASE ChannelFails(t)
  BY <1>6, <1>11 DEF ChannelFails
<1>12. CASE ServeFromProvider(t)
  BY <1>6, <1>12 DEF ServeFromProvider
<1>13. CASE Pause(t) \/ Panic(t)
  BY <1>6, <1>13 DEF Pause, Panic
<1>14. CASE Punish(t)
  BY <1>6, <1>14 DEF Punish
<1>15. CASE NoPunishment(t)
  BY <1>6, <1>15 DEF NoPunishment
<1>16. CASE BreakOnSuccess(t)
  BY <1>6, <1>16 DEF BreakOnSuccess
<1>17. CASE BreakOnLastChance(t)
  BY <1>6, <1>17 DEF BreakOnLastChance
<1>18. CASE Pardon(t)
  BY <1>8, <1>18 DEF Pardon
<1>19. CASE RemoveOrder(t)
  BY <1>8, <1>19 DEF RemoveOrder
<1> QED
  BY <1>1, <1>2, <1>3, <1>4, <1>5, <1>7, <1>9, <1>10, <1>11, <1>12, <1>13, <1>14,
     <1>15, <1>16, <1>17, <1>18, <1>19 DEF Job

LEMMA LoopRequest ==
    ASSUME TypeInv, LoopInv, Request
    PROVE  LoopInv'
<1> SUFFICES ASSUME NEW u \in Threads PROVE Loop(u)'
  BY DEF LoopInv
<1> USE DEF loopState, TypeInv, TypeOK, locals, jobVars, loopVars, attemptVars
<1>1. Loop(u)
  BY DEF LoopInv
<1>2. ASSUME NEW o \in Orders, NEW c \in CustomProviders \cup {NoProvider},
             NEW t \in Threads, Schedule(o, c, t)
      PROVE  Loop(u)'
  <2>1. CASE u = t
    BY <1>1, <1>2, <2>1 DEF Schedule, Go, Loop, Guarding
  <2>2. CASE u # t
    <3>1. UNCHANGED loopState(u)
      BY <1>2, <2>2 DEF Schedule, Go
    <3> QED
      BY <1>1, <3>1, LoopStutter
  <2> QED
    BY <2>1, <2>2
<1>3. CASE \/ \E o \in Orders : SchedulePanics(o)
           \/ \E o \in Orders, c \in Clients : Redirect(o, c)
           \/ \E o \in Orders, c \in Clients, q \in CustomProviders : RedirectCustom(o, c, q)
           \/ \E c \in Clients : Redirected(c)
           \/ ResetProviderMetrics
  <2>1. UNCHANGED loopState(u)
    BY <1>3 DEF SchedulePanics, Redirect, RedirectCustom, Redirected, ResetProviderMetrics
  <2> QED
    BY <1>1, <2>1, LoopStutter
<1> QED
  BY <1>2, <1>3 DEF Request

\* The invariant of the loop in try_until_success holds for every job, whatever
\* the others do.
THEOREM LoopInvariant == Spec => []LoopInv
<1>1. Init => LoopInv
  BY FS_EmptySet DEF Init, LoopInv, Loop, Guarding
<1>2. TypeInv /\ LoopInv /\ [Next]_vars => LoopInv'
  <2> SUFFICES ASSUME TypeInv, LoopInv, [Next]_vars PROVE LoopInv'
    OBVIOUS
  <2>1. CASE Request
    BY <2>1, LoopRequest
  <2>2. ASSUME NEW t \in Threads, Job(t), NEW u \in Threads
        PROVE  Loop(u)'
    <3>1. CASE u = t
      BY <2>2, <3>1, LoopJob DEF LoopInv
    <3>2. CASE u # t
      BY <2>2, <3>2, OthersUntouched, LoopStutter DEF LoopInv
    <3> QED
      BY <3>1, <3>2
  <2>3. CASE UNCHANGED vars
    <3> SUFFICES ASSUME NEW u \in Threads PROVE Loop(u)'
      BY DEF LoopInv
    <3>1. UNCHANGED loopState(u)
      BY <2>3 DEF loopState, vars, locals, jobVars, loopVars, attemptVars
    <3> QED
      BY <3>1, LoopStutter DEF LoopInv
  <2> QED
    BY <2>1, <2>2, <2>3 DEF Next, LoopInv
<1> QED
  BY <1>1, <1>2, Typing, PTL DEF Spec

\* min_by_key(..).unwrap() in get_provider_guard never meets an empty list: a
\* job that tries again has a provider left, however jobs interleave.
THEOREM SelectionIsNeverEmpty == Spec => []SelectionNeverEmpty
<1>1. LoopInv => SelectionNeverEmpty
  BY DEF LoopInv, Loop, SelectionNeverEmpty
<1> QED
  BY <1>1, LoopInvariant, PTL

\* A job asks a provider at most once, counts its attempts right and makes no
\* more than NUM_MAX_ATTEMPTS of them.
THEOREM AttemptsAreAccounted == Spec => []AttemptsAccounted
<1>1. LoopInv => AttemptsAccounted
  BY DEF LoopInv, Loop, AttemptsAccounted
<1> QED
  BY <1>1, LoopInvariant, PTL

-----------------------------------------------------------------------------
(* The scheduler implements OrderFetch. *)

\* The union in AskedFor is that of at most one set.
LEMMA AskedByHolder ==
    ASSUME SingleFlight, NEW t \in Threads, Holds(t), job_order[t] \in Orders
    PROVE  AskedFor[job_order[t]] = Asked(t)
<1>1. {u \in Threads : Holds(u) /\ job_order[u] = job_order[t]} = {t}
  BY DEF SingleFlight
<1>2. UNION {Asked(u) : u \in {t}} = Asked(t)
  OBVIOUS
<1> QED
  BY <1>1, <1>2 DEF AskedFor

LEMMA AskedByNobody ==
    ASSUME NEW o \in Orders, \A t \in Threads : Holds(t) => job_order[t] # o
    PROVE  AskedFor[o] = {}
<1>1. {u \in Threads : Holds(u) /\ job_order[u] = o} = {}
  OBVIOUS
<1> QED
  BY <1>1 DEF AskedFor

\* What AskedFor depends on.
LEMMA AskedUnchanged ==
    ASSUME \A t \in Threads : /\ Holds(t)' <=> Holds(t)
                              /\ Holds(t) => /\ job_order'[t] = job_order[t]
                                             /\ Asked(t)' = Asked(t)
    PROVE  AskedFor' = AskedFor
<1> DEFINE H(o) == {u \in Threads : Holds(u) /\ job_order[u] = o}
<1>1. ASSUME NEW o \in Orders
      PROVE  UNION {Asked(t)' : t \in H(o)'} = UNION {Asked(t) : t \in H(o)}
  <2>1. H(o)' = H(o)
    OBVIOUS
  <2>2. \A t \in H(o) : Asked(t)' = Asked(t)
    OBVIOUS
  <2> QED
    BY <2>1, <2>2
<1> QED
  BY <1>1 DEF AskedFor

\* AskedFor after a step that changes what one job, t, has asked.
LEMMA AskedByOne ==
    ASSUME SingleFlight, SingleFlight', NEW t \in Threads,
           Holds(t), Holds(t)', job_order[t] \in Orders, UNCHANGED job_order,
           \A u \in Threads \ {t} : (Holds(u)' <=> Holds(u)) /\ Asked(u)' = Asked(u)
    PROVE  AskedFor' = [AskedFor EXCEPT ![job_order[t]] = Asked(t)']
<1> DEFINE H(o) == {u \in Threads : Holds(u) /\ job_order[u] = o}
<1>1. ASSUME NEW o \in Orders, o # job_order[t]
      PROVE  UNION {Asked(u)' : u \in H(o)'} = UNION {Asked(u) : u \in H(o)}
  <2>1. H(o)' = H(o) /\ t \notin H(o)
    BY <1>1
  <2>2. \A u \in H(o) : Asked(u)' = Asked(u)
    BY <2>1
  <2> QED
    BY <2>1, <2>2
<1>2. UNION {Asked(u)' : u \in H(job_order[t])'} = Asked(t)'
  <2>1. H(job_order[t])' = {t}
    BY DEF SingleFlight
  <2>2. UNION {Asked(u)' : u \in {t}} = Asked(t)'
    OBVIOUS
  <2> QED
    BY <2>1, <2>2
<1>3. AskedFor' = [o \in Orders |-> UNION {Asked(u)' : u \in H(o)'}]
  BY DEF AskedFor
<1>4. [AskedFor EXCEPT ![job_order[t]] = Asked(t)']
        = [o \in Orders |-> IF o = job_order[t] THEN Asked(t)'
                            ELSE UNION {Asked(u) : u \in H(o)}]
  BY DEF AskedFor
<1>5. ASSUME NEW o \in Orders
      PROVE  UNION {Asked(u)' : u \in H(o)'}
               = IF o = job_order[t] THEN Asked(t)' ELSE UNION {Asked(u) : u \in H(o)}
  <2>1. CASE o = job_order[t]
    BY <1>2, <2>1, Zenon
  <2>2. CASE o # job_order[t]
    BY <1>1, <2>2, Zenon
  <2> QED
    BY <2>1, <2>2
<1> QED
  BY <1>3, <1>4, <1>5, Zenon

FetchInv == TypeInv /\ SingleFlight /\ LoopInv

\* A selection asks a provider that the job has not asked before.
LEMMA SelectionAsks ==
    ASSUME FetchInv, SingleFlight', NEW t \in Threads,
           SelectCustom(t) \/ SelectProvider(t)
    PROVE  \E p \in AllProviders : Fetch!Ask(job_order[t], p)
<1> USE DEF FetchInv
<1>1. PICK p \in AllProviders :
         /\ pc[t] \in {"select", "scan"} /\ pc' = [pc EXCEPT ![t] = "channel"]
         /\ provider' = [provider EXCEPT ![t] = p]
         /\ p \notin unsuccessful_providers[t]
         /\ UNCHANGED <<job_order, unsuccessful_providers, orders_in_progress>>
  <2>1. CASE SelectCustom(t)
    <3>1. custom_provider[t] \in AllProviders /\ unsuccessful_providers[t] = {}
      BY <2>1 DEF SelectCustom, Go, TypeInv, TypeOK, AllProviders, LoopInv, Loop
    <3> QED
      BY <2>1, <3>1 DEF SelectCustom, Go, shared, contextVars, jobVars
  <2>2. CASE SelectProvider(t)
    <3>1. PICK p \in Candidates(t) : provider' = [provider EXCEPT ![t] = p]
      BY <2>2 DEF SelectProvider, MinByKey
    <3>2. p \in AllProviders /\ p \notin unsuccessful_providers[t]
      BY DEF Candidates, AllProviders
    <3> QED
      BY <2>2, <3>1, <3>2 DEF SelectProvider, Go, contextVars, jobVars, loopVars
  <2> QED
    BY <2>1, <2>2
<1>2. /\ Asked(t) = unsuccessful_providers[t]
      /\ Asked(t)' = Asked(t) \cup {p} /\ p \notin Asked(t)
      /\ \A u \in Threads \ {t} : (Holds(u)' <=> Holds(u)) /\ Asked(u)' = Asked(u)
  BY <1>1 DEF Asked, Guarding, Holds, TypeInv, TypeOK
<1>3. Holds(t) /\ Holds(t)' /\ job_order[t] \in orders_in_progress /\ job_order[t] \in Orders
  BY <1>1 DEF Holds, Working, TypeInv, TypeOK, SingleFlight
<1>4. AskedFor' = [AskedFor EXCEPT ![job_order[t]] = Asked(t)']
  BY <1>1, <1>2, <1>3, AskedByOne
<1>5. AskedFor[job_order[t]] = Asked(t)
  BY <1>3, AskedByHolder
<1>6. AskedFor' = [AskedFor EXCEPT ![job_order[t]] = @ \cup {p}]
  BY <1>2, <1>4, <1>5
<1> QED
  BY <1>1, <1>2, <1>3, <1>5, <1>6 DEF Fetch!Ask

\* Every other step of a running job asks nobody.
LEMMA OthersAskNobody ==
    ASSUME FetchInv, NEW t \in Threads, Job(t)
    PROVE  \/ SelectCustom(t) \/ SelectProvider(t) \/ RemoveOrder(t) \/ Finish(t)
           \/ UNCHANGED <<orders_in_progress, AskedFor>>
<1> USE DEF FetchInv, TypeInv, TypeOK, Go, contextVars, metricVars, jobVars,
            attemptVars, loopVars, shared, locals
<1> DEFINE Quiet == /\ Asked(t)' = Asked(t) /\ Holds(t) /\ Holds(t)'
                    /\ \A u \in Threads \ {t} : /\ Holds(u)' <=> Holds(u)
                                                /\ Asked(u)' = Asked(u)
                    /\ UNCHANGED <<job_order, orders_in_progress>>
<1> USE DEF Asked, Holds, Guarding, Working
<1>1. ASSUME StartThread(t) PROVE Quiet
  BY <1>1 DEF StartThread
<1>2. ASSUME BeginSelection(t) PROVE Quiet
  BY <1>2 DEF BeginSelection
<1>3. ASSUME ReadUsages(t) PROVE Quiet
  BY <1>3 DEF ReadUsages
<1>4. ASSUME GetChannel(t) PROVE Quiet
  BY <1>4 DEF GetChannel
<1>5. ASSUME ChannelFails(t) PROVE Quiet
  BY <1>5 DEF ChannelFails
<1>6. ASSUME ServeFromProvider(t) PROVE Quiet
  BY <1>6 DEF ServeFromProvider
<1>7. ASSUME Pause(t) \/ Panic(t) PROVE Quiet
  BY <1>7 DEF Pause, Panic
<1>8. ASSUME Punish(t) PROVE Quiet
  BY <1>8 DEF Punish
<1>9. ASSUME NoPunishment(t) PROVE Quiet
  BY <1>9 DEF NoPunishment
<1>10. ASSUME BreakOnSuccess(t) PROVE Quiet
  BY <1>10 DEF BreakOnSuccess
<1>11. ASSUME BreakOnLastChance(t) PROVE Quiet
  BY <1>11 DEF BreakOnLastChance
<1>12. ASSUME TryNext(t) PROVE Quiet
  BY <1>12 DEF TryNext, Excluded
<1>13. ASSUME Pardon(t) PROVE Quiet
  BY <1>13 DEF Pardon
<1>14. ASSUME Quiet PROVE UNCHANGED <<orders_in_progress, AskedFor>>
  BY <1>14, AskedUnchanged
<1> HIDE DEF Quiet
<1> QED
  BY <1>1, <1>2, <1>3, <1>4, <1>5, <1>6, <1>7, <1>8, <1>9, <1>10, <1>11, <1>12, <1>13, <1>14 DEF Job

LEMMA FetchRequest ==
    ASSUME FetchInv, SingleFlight', Request
    PROVE  [Fetch!Next]_<<orders_in_progress, AskedFor>>
<1> USE DEF FetchInv, TypeInv, TypeOK
<1>1. ASSUME NEW o \in Orders, NEW c \in CustomProviders \cup {NoProvider},
             NEW t \in Threads, Schedule(o, c, t)
      PROVE  Fetch!Start(o)
  <2>1. /\ pc[t] = "ended" /\ pc' = [pc EXCEPT ![t] = "spawned"]
        /\ job_order' = [job_order EXCEPT ![t] = o]
        /\ o \notin orders_in_progress
        /\ orders_in_progress' = orders_in_progress \cup {o}
        /\ UNCHANGED <<unsuccessful_providers, provider>>
    BY <1>1 DEF Schedule, Go, NotInProgress, loopVars, attemptVars
  <2>2. unsuccessful_providers[t] = {}
    BY <2>1 DEF LoopInv, Loop
  <2>3. /\ ~Holds(t) /\ Holds(t)' /\ Asked(t)' = {}
        /\ \A u \in Threads \ {t} : /\ Holds(u)' <=> Holds(u)
                                    /\ Asked(u)' = Asked(u)
                                    /\ job_order'[u] = job_order[u]
    BY <2>1, <2>2 DEF Holds, Working, Asked, Guarding
  <2> DEFINE H(q) == {u \in Threads : Holds(u) /\ job_order[u] = q}
  <2>4. ASSUME NEW q \in Orders
        PROVE  UNION {Asked(u)' : u \in H(q)'} = UNION {Asked(u) : u \in H(q)}
    <3>1. H(q) = H(q)' \ {t}
      BY <2>3
    <3>2. \A u \in H(q) : u \in H(q)' /\ Asked(u)' = Asked(u)
      BY <2>3, <3>1
    <3>3. \A u \in H(q)' : u \in H(q) \/ Asked(u)' = {}
      BY <2>3, <3>1
    <3> HIDE DEF H
    <3>4. ASSUME NEW x \in UNION {Asked(u)' : u \in H(q)'}
          PROVE  x \in UNION {Asked(u) : u \in H(q)}
      <4>1. PICK u \in H(q)' : x \in Asked(u)'
        OBVIOUS
      <4>2. u \in H(q) /\ x \in Asked(u)
        BY <4>1, <3>2, <3>3
      <4> QED
        BY <4>2
    <3>5. ASSUME NEW x \in UNION {Asked(u) : u \in H(q)}
          PROVE  x \in UNION {Asked(u)' : u \in H(q)'}
      <4>1. PICK u \in H(q) : x \in Asked(u)
        OBVIOUS
      <4>2. u \in H(q)' /\ x \in Asked(u)'
        BY <4>1, <3>2
      <4> QED
        BY <4>2
    <3> QED
      BY <3>4, <3>5
  <2>5. AskedFor' = AskedFor
    BY <2>4 DEF AskedFor
  <2> QED
    BY <2>1, <2>5 DEF Fetch!Start
<1>2. ASSUME NEW o \in Orders, SchedulePanics(o)
      PROVE  Fetch!Start(o)
  <2>1. AskedFor' = AskedFor
    BY <1>2, AskedUnchanged
    DEF SchedulePanics, Holds, Asked, locals, jobVars, attemptVars, loopVars
  <2> QED
    BY <1>2, <2>1 DEF SchedulePanics, NotInProgress, Fetch!Start
<1>3. ASSUME \/ \E o \in Orders, c \in Clients : Redirect(o, c)
             \/ \E o \in Orders, c \in Clients, q \in CustomProviders : RedirectCustom(o, c, q)
             \/ \E c \in Clients : Redirected(c)
             \/ ResetProviderMetrics
      PROVE  UNCHANGED <<orders_in_progress, AskedFor>>
  <2>1. UNCHANGED <<orders_in_progress, pc, job_order, unsuccessful_providers, provider>>
    BY <1>3 DEF Redirect, RedirectCustom,
           Redirected, ResetProviderMetrics, locals, contextVars, jobVars,
                attemptVars, loopVars
  <2> QED
    BY <2>1, AskedUnchanged DEF Holds, Asked
<1> QED
  BY <1>1, <1>2, <1>3 DEF Request, Fetch!Next

LEMMA FetchJob ==
    ASSUME FetchInv, SingleFlight', NEW t \in Threads, Job(t)
    PROVE  [Fetch!Next]_<<orders_in_progress, AskedFor>>
<1> USE DEF FetchInv, TypeInv, TypeOK
<1>1. CASE SelectCustom(t) \/ SelectProvider(t)
  BY <1>1, SelectionAsks DEF Fetch!Next
<1>2. CASE RemoveOrder(t)
  <2> DEFINE o == job_order[t]
  <2>1. /\ pc[t] = "remove" /\ pc' = [pc EXCEPT ![t] = "finish"]
        /\ orders_in_progress' = orders_in_progress \ {o}
        /\ UNCHANGED <<job_order, unsuccessful_providers, provider>>
    BY <1>2 DEF RemoveOrder, Go, OrdersWithout, locals, jobVars, loopVars, attemptVars
  <2>2. /\ Holds(t) /\ ~Holds(t)'
        /\ \A u \in Threads \ {t} : (Holds(u)' <=> Holds(u)) /\ Asked(u)' = Asked(u)
    BY <2>1 DEF Holds, Working, Asked, Guarding
  <2>3. o \in Orders /\ o \in orders_in_progress
    BY <2>2 DEF SingleFlight
  <2> DEFINE H(q) == {u \in Threads : Holds(u) /\ job_order[u] = q}
  <2>4. ASSUME NEW q \in Orders, q # o
        PROVE  UNION {Asked(u)' : u \in H(q)'} = UNION {Asked(u) : u \in H(q)}
    <3>1. H(q)' = H(q) /\ t \notin H(q)
      BY <2>1, <2>2, <2>4
    <3>2. \A u \in H(q) : Asked(u)' = Asked(u)
      BY <2>2, <3>1
    <3> QED
      BY <3>1, <3>2
  <2>5. ASSUME NEW q \in Orders, q = o
        PROVE  UNION {Asked(u)' : u \in H(q)'} = {}
    <3>1. H(q)' = {}
      BY <2>1, <2>2, <2>5 DEF SingleFlight
    <3> QED
      BY <3>1
  <2>6. ASSUME NEW q \in Orders
        PROVE  AskedFor'[q] = IF q = o THEN {} ELSE AskedFor[q]
    <3>1. /\ AskedFor'[q] = UNION {Asked(u)' : u \in H(q)'}
          /\ AskedFor[q] = UNION {Asked(u) : u \in H(q)}
      BY DEF AskedFor
    <3>2. CASE q = o
      BY <3>1, <3>2, <2>5
    <3>3. CASE q # o
      BY <3>1, <3>3, <2>4
    <3> QED
      BY <3>2, <3>3
  <2>7. /\ AskedFor = [q \in Orders |-> AskedFor[q]]
        /\ AskedFor' = [q \in Orders |-> AskedFor'[q]]
    BY DEF AskedFor
  <2>8. AskedFor' = [AskedFor EXCEPT ![o] = {}]
    <3> HIDE DEF o
    <3> QED
      BY <2>6, <2>7
  <2> QED
    BY <2>1, <2>3, <2>8 DEF Fetch!Next, Fetch!End
<1>3. CASE Finish(t)
  <2>1. /\ pc[t] = "finish" /\ pc' = [pc EXCEPT ![t] = "ended"]
        /\ UNCHANGED orders_in_progress
        /\ \A u \in Threads \ {t} :
              UNCHANGED <<job_order[u], unsuccessful_providers[u], provider[u]>>
    BY <1>3 DEF Finish, Go, contextVars
  <2>2. /\ ~Holds(t) /\ ~Holds(t)'
        /\ \A u \in Threads \ {t} : /\ Holds(u)' <=> Holds(u)
                                    /\ Asked(u)' = Asked(u)
                                    /\ job_order'[u] = job_order[u]
    BY <2>1 DEF Holds, Working, Asked, Guarding
  <2>3. \A u \in Threads : /\ Holds(u)' <=> Holds(u)
                           /\ Holds(u) => /\ job_order'[u] = job_order[u]
                                          /\ Asked(u)' = Asked(u)
    BY <2>2
  <2> QED
    BY <2>1, <2>3, AskedUnchanged
<1> QED
  BY <1>1, <1>2, <1>3, OthersAskNobody

\* The scheduler implements OrderFetch: whatever the interleaving, an order has
\* one job at a time, providers are asked only for orders in progress, and no
\* job asks a provider twice.
THEOREM ImplementsFetch == Spec => ImplementsOrderFetch
<1>1. Init => Fetch!Init
  BY DEF Init, Fetch!Init, AskedFor, Holds, Working
<1>2. FetchInv /\ SingleFlight' /\ [Next]_vars
        => [Fetch!Next]_<<orders_in_progress, AskedFor>>
  <2> SUFFICES ASSUME FetchInv, SingleFlight', [Next]_vars
               PROVE  [Fetch!Next]_<<orders_in_progress, AskedFor>>
    OBVIOUS
  <2>1. CASE UNCHANGED vars
    <3>1. UNCHANGED <<orders_in_progress, pc, job_order, unsuccessful_providers, provider>>
      BY <2>1 DEF vars, shared, locals, contextVars, jobVars, attemptVars, loopVars
    <3> QED
      BY <3>1, AskedUnchanged DEF Holds, Asked
  <2> QED
    BY <2>1, FetchRequest, FetchJob DEF Next
<1>3. Spec => []FetchInv
  BY Typing, AtMostOneJobPerOrder, LoopInvariant, PTL DEF FetchInv
<1> QED
  BY <1>1, <1>2, <1>3, AtMostOneJobPerOrder, PTL
  DEF Spec, ImplementsOrderFetch, Fetch!Spec, Fetch!vars

-----------------------------------------------------------------------------
(* The failure counters: what jobs punish is counted, and what they pardon  *)
(* was counted before, as long as no reset forgets it.                      *)

\* From its spawn to the end of its last attempt a job may punish.
Charging == {"spawned", "select", "scan", "channel", "serve", "settle", "judge"}

\* The jobs whose punishment of p is not taken back, and those that may still
\* come to punish p.
Punishers(p) == {t \in Threads : p \in punished_providers[t]}
Chargers(p)  == {t \in Threads : pc[t] \in Charging /\ p \notin punished_providers[t]}

\* A job punishes a provider at most once, since only the current provider can
\* be punished and not yet excluded, and the provider has an entry by then.
Charges(t) ==
    /\ pc[t] \in {"ended", "spawned"} => punished_providers[t] = {}
    /\ pc[t] \in Charging \ {"judge"} =>
          punished_providers[t] \subseteq unsuccessful_providers[t]
    /\ pc[t] = "judge" => punished_providers[t] \subseteq Excluded(t)
    /\ punished_providers[t] \subseteq metrics_keys
    /\ pc[t] \in {"channel", "serve", "settle"} /\ provider[t] \in Providers =>
          provider[t] \in metrics_keys

\* Where no job completes, each pardons what it has punished before it ends.
Forgives(t) ==
    "Complete" \notin ServeResults =>
        /\ pc[t] \in {"settle", "judge"} => result[t] # "Complete"
        /\ pc[t] \in {"remove", "finish"} => punished_providers[t] = {}

ChargeInv == \A t \in Threads : Charges(t) /\ Forgives(t)

\* The counter holds every punishment that is not taken back, exactly these
\* where no job completes, and it has room for those to come.
Counter(p) ==
    /\ num_failures[p] >= Cardinality(Punishers(p))
    /\ "Complete" \notin ServeResults => num_failures[p] = Cardinality(Punishers(p))
    /\ num_failures[p] + Cardinality(Chargers(p)) <= MaxFailures + Cardinality(Threads)

CountInv == \A p \in Providers : Counter(p)

\* What Charges(t) and Forgives(t) depend on, but for metrics_keys.
chargeState(t) == <<pc[t], punished_providers[t], unsuccessful_providers[t],
                    provider[t], result[t]>>

LEMMA ChargesStutter ==
    ASSUME NEW t \in Threads, Charges(t), Forgives(t), UNCHANGED chargeState(t),
           metrics_keys \subseteq metrics_keys'
    PROVE  Charges(t)' /\ Forgives(t)'
BY DEF Charges, Forgives, chargeState, Charging, Excluded

\* Without a reset no step takes an entry out of provider_metrics.
LEMMA KeysGrow ==
    ASSUME AllowReset = FALSE, TypeInv, [Next]_vars
    PROVE  metrics_keys \subseteq metrics_keys'
<1> USE DEF metricVars, shared
<1>1. CASE Request
  BY <1>1 DEF Request, Schedule, SchedulePanics, Redirect, RedirectCustom,
         Redirected, ResetProviderMetrics
<1>2. ASSUME NEW t \in Threads, Job(t) PROVE metrics_keys \subseteq metrics_keys'
  BY <1>2 DEF Job, StartThread, SelectCustom, BeginSelection, ReadUsages, SelectProvider,
     GetChannel, ChannelFails, ServeFromProvider, Pause, Panic, Punish, NoPunishment,
     BreakOnSuccess, BreakOnLastChance, TryNext, Pardon, RemoveOrder, Finish
<1> QED
  BY <1>1, <1>2 DEF Next, vars

\* A step of a job leaves the accounts of the others alone.
LEMMA OthersCharges ==
    ASSUME NEW t \in Threads, TypeInv, Job(t), NEW u \in Threads \ {t}
    PROVE  UNCHANGED chargeState(u)
<1> USE DEF chargeState, TypeInv, TypeOK, Go, contextVars, metricVars, jobVars,
            attemptVars, loopVars, shared, locals
<1>1. CASE StartThread(t) \/ SelectCustom(t) \/ BeginSelection(t) \/ ReadUsages(t)
  BY <1>1 DEF StartThread, SelectCustom, BeginSelection, ReadUsages
<1>2. CASE SelectProvider(t) \/ GetChannel(t) \/ ChannelFails(t) \/ ServeFromProvider(t)
  BY <1>2 DEF SelectProvider, GetChannel, ChannelFails, ServeFromProvider
<1>3. CASE Pause(t) \/ Panic(t) \/ NoPunishment(t) \/ BreakOnSuccess(t) \/ BreakOnLastChance(t)
  BY <1>3 DEF Pause, Panic, NoPunishment, BreakOnSuccess, BreakOnLastChance
<1>4. CASE Punish(t)
  BY <1>4 DEF Punish
<1>5. CASE TryNext(t) \/ RemoveOrder(t)
  BY <1>5 DEF TryNext, RemoveOrder
<1>6. CASE Pardon(t)
  BY <1>6 DEF Pardon
<1>7. CASE Finish(t)
  BY <1>7 DEF Finish
<1> QED
  BY <1>1, <1>2, <1>3, <1>4, <1>5, <1>6, <1>7 DEF Job

LEMMA ChargesJob ==
    ASSUME AllowReset = FALSE, NEW t \in Threads, TypeInv, Loop(t), Charges(t), Forgives(t),
           Job(t)
    PROVE  Charges(t)' /\ Forgives(t)'
<1> USE DEF Charges, Forgives, Charging, TypeInv, TypeOK, Go, contextVars, metricVars,
            jobVars, attemptVars, loopVars, shared, locals
<1>1. CASE StartThread(t) \/ BeginSelection(t) \/ ReadUsages(t)
  BY <1>1 DEF StartThread, BeginSelection, ReadUsages
<1>2. CASE SelectCustom(t)
  <2>1. custom_provider[t] \notin Providers
    BY <1>2, ProvidersAssumption DEF SelectCustom, Providers
  <2> QED
    BY <1>2, <2>1 DEF SelectCustom
<1>3. CASE SelectProvider(t)
  <2>1. PICK p \in Providers : /\ provider' = [provider EXCEPT ![t] = p]
                               /\ metrics_keys' = metrics_keys \cup {p}
    BY <1>3 DEF SelectProvider, MinByKey, Candidates
  <2> QED
    BY <1>3, <2>1 DEF SelectProvider
<1>4. CASE GetChannel(t)
  BY <1>4 DEF GetChannel
<1>5. CASE ChannelFails(t)
  BY <1>5 DEF ChannelFails
<1>6. CASE ServeFromProvider(t)
  BY <1>6 DEF ServeFromProvider
<1>7. CASE Pause(t) \/ Panic(t)
  BY <1>7 DEF Pause, Panic
<1>8. CASE Punish(t)
  BY <1>8 DEF Punish, Excluded
<1>9. CASE NoPunishment(t)
  BY <1>9 DEF NoPunishment, Excluded
<1>10. CASE BreakOnSuccess(t) \/ BreakOnLastChance(t)
  BY <1>10 DEF BreakOnSuccess, BreakOnLastChance
<1>11. CASE TryNext(t)
  BY <1>11 DEF TryNext, Excluded
<1>12. CASE Pardon(t)
  BY <1>12 DEF Pardon
<1>13. CASE RemoveOrder(t)
  BY <1>13 DEF RemoveOrder
<1>14. CASE Finish(t)
  BY <1>14 DEF Finish
<1> QED
  BY <1>1, <1>2, <1>3, <1>4, <1>5, <1>6, <1>7, <1>8, <1>9, <1>10, <1>11, <1>12, <1>13,
     <1>14 DEF Job

LEMMA ChargesStep ==
    ASSUME AllowReset = FALSE, TypeInv, LoopInv, ChargeInv, [Next]_vars
    PROVE  ChargeInv'
<1> SUFFICES ASSUME NEW u \in Threads PROVE Charges(u)' /\ Forgives(u)'
  BY DEF ChargeInv
<1>1. Charges(u) /\ Forgives(u) /\ metrics_keys \subseteq metrics_keys'
  BY KeysGrow DEF ChargeInv
<1> USE DEF chargeState, locals, jobVars, loopVars, attemptVars
<1>2. ASSUME NEW o \in Orders, NEW c \in CustomProviders \cup {NoProvider},
             NEW t \in Threads, Schedule(o, c, t)
      PROVE  Charges(u)' /\ Forgives(u)'
  <2>1. CASE u = t
    BY <1>1, <1>2, <2>1 DEF Schedule, Go, Charges, Forgives, Charging, TypeInv, TypeOK,
                            metricVars
  <2>2. CASE u # t
    <3>1. UNCHANGED chargeState(u)
      BY <1>2, <2>2 DEF Schedule, Go, TypeInv, TypeOK
    <3> QED
      BY <1>1, <3>1, ChargesStutter
  <2> QED
    BY <2>1, <2>2
<1>3. ASSUME \/ \E o \in Orders : SchedulePanics(o)
             \/ \E o \in Orders, c \in Clients : Redirect(o, c)
             \/ \E o \in Orders, c \in Clients, q \in CustomProviders : RedirectCustom(o, c, q)
             \/ \E c \in Clients : Redirected(c)
             \/ ResetProviderMetrics
             \/ UNCHANGED vars
      PROVE  Charges(u)' /\ Forgives(u)'
  <2>1. UNCHANGED chargeState(u)
    BY <1>3 DEF SchedulePanics, Redirect, RedirectCustom,
           Redirected, ResetProviderMetrics, vars
  <2> QED
    BY <1>1, <2>1, ChargesStutter
<1>4. ASSUME NEW t \in Threads, Job(t)
      PROVE  Charges(u)' /\ Forgives(u)'
  <2>1. CASE u = t
    BY <1>1, <1>4, <2>1, ChargesJob DEF LoopInv
  <2>2. CASE u # t
    BY <1>1, <1>4, <2>2, OthersCharges, ChargesStutter
  <2> QED
    BY <2>1, <2>2
<1> QED
  BY <1>2, <1>3, <1>4 DEF Next, Request

LEMMA CardinalitiesOfThreads ==
    ASSUME NEW S, S \subseteq Threads
    PROVE  /\ IsFiniteSet(S) /\ Cardinality(S) \in Nat
           /\ Cardinality(S) <= Cardinality(Threads)
BY FS_Subset, FS_CardinalityType, BoundsAssumption

\* One element more or less.
LEMMA OneMore ==
    ASSUME NEW S, S \subseteq Threads, NEW t \in Threads, t \notin S
    PROVE  Cardinality(S \cup {t}) = Cardinality(S) + 1
BY CardinalitiesOfThreads, FS_AddElement

LEMMA OneLess ==
    ASSUME NEW S, S \subseteq Threads, NEW t \in S
    PROVE  Cardinality(S \ {t}) = Cardinality(S) - 1 /\ Cardinality(S) > 0
<1>1. Cardinality((S \ {t}) \cup {t}) = Cardinality(S \ {t}) + 1
  BY OneMore
<1>2. (S \ {t}) \cup {t} = S
  OBVIOUS
<1>3. Cardinality(S) = Cardinality(S \ {t}) + 1
  BY <1>1, <1>2, Zenon
<1>4. Cardinality(S \ {t}) \in Nat
  BY CardinalitiesOfThreads
<1> DEFINE n == Cardinality(S \ {t})
<1> HIDE DEF n
<1>5. Cardinality(S) = n + 1 /\ n \in Nat
  BY <1>3, <1>4 DEF n
<1>6. n = Cardinality(S) - 1 /\ Cardinality(S) > 0
  BY <1>5
<1> QED
  BY <1>6 DEF n

LEMMA SmallerSet ==
    ASSUME NEW S, S \subseteq Threads, NEW R, R \subseteq S
    PROVE  Cardinality(R) <= Cardinality(S)
BY CardinalitiesOfThreads, FS_Subset

\* A step that neither punishes nor pardons p, and lets no job begin to charge.
LEMMA CounterQuiet ==
    ASSUME NEW p \in Providers, TypeInv, Counter(p), UNCHANGED num_failures[p],
           Punishers(p)' \subseteq Punishers(p), Chargers(p)' \subseteq Chargers(p),
           "Complete" \notin ServeResults => Punishers(p)' = Punishers(p)
    PROVE  Counter(p)'
<1> DEFINE P == Punishers(p)  C == Chargers(p)
<1>1. P \subseteq Threads /\ C \subseteq Threads /\ P' \subseteq Threads /\ C' \subseteq Threads
  BY DEF Punishers, Chargers
<1>2. /\ Cardinality(P) \in Nat /\ Cardinality(P') \in Nat
      /\ Cardinality(C) \in Nat /\ Cardinality(C') \in Nat /\ Cardinality(Threads) \in Nat
  BY <1>1, CardinalitiesOfThreads
<1>3. Cardinality(P') <= Cardinality(P) /\ Cardinality(C') <= Cardinality(C)
  BY <1>1, SmallerSet
<1>4. num_failures[p] \in Nat /\ MaxFailures \in Nat
  BY BoundsAssumption DEF TypeInv, TypeOK, AllProviders
<1>5. "Complete" \notin ServeResults => num_failures[p] = Cardinality(P')
  BY DEF Counter
<1> HIDE DEF P, C
<1>6. num_failures[p] >= Cardinality(P)
      /\ num_failures[p] + Cardinality(C) <= MaxFailures + Cardinality(Threads)
  BY DEF Counter, P, C
<1>7. num_failures[p] >= Cardinality(P')
      /\ num_failures[p] + Cardinality(C') <= MaxFailures + Cardinality(Threads)
  BY <1>2, <1>3, <1>4, <1>6
<1> QED
  BY <1>5, <1>7 DEF Counter, P, C

LEMMA CounterSchedule ==
    ASSUME NEW p \in Providers, TypeInv, Counter(p),
           NEW o \in Orders, NEW c \in CustomProviders \cup {NoProvider},
           NEW t \in Threads, Schedule(o, c, t)
    PROVE  Counter(p)'
<1> DEFINE C == Chargers(p)'
<1>1. num_failures' = num_failures /\ Punishers(p)' = Punishers(p) /\ num_failures[p] < MaxFailures
  BY DEF Schedule, WithinBounds, Punishers, metricVars, loopVars
<1>2. Cardinality(C) \in Nat /\ Cardinality(C) <= Cardinality(Threads)
      /\ Cardinality(Threads) \in Nat
  <2>1. C \subseteq Threads
    BY DEF Chargers
  <2> QED
    BY <2>1, CardinalitiesOfThreads
<1>3. num_failures[p] \in Nat /\ MaxFailures \in Nat
  BY BoundsAssumption DEF TypeInv, TypeOK, AllProviders
<1> HIDE DEF C
<1>4. num_failures[p] + Cardinality(C) <= MaxFailures + Cardinality(Threads)
  BY <1>1, <1>2, <1>3
<1> QED
  BY <1>1, <1>4 DEF Counter, C

Bounded == AllowReset = FALSE /\ MaxFailures + Cardinality(Threads) <= MaxU32

LEMMA CounterPunish ==
    ASSUME Bounded, NEW p \in Providers, TypeInv, Counter(p), NEW t \in Threads,
           Charges(t), Loop(t), Punish(t)
    PROVE  Counter(p)'
<1> USE DEF TypeInv, TypeOK
<1> DEFINE P == Punishers(p)  C == Chargers(p)
<1>1. /\ pc[t] = "settle" /\ pc' = [pc EXCEPT ![t] = "judge"]
      /\ punished_providers' = [punished_providers EXCEPT ![t] = @ \cup {provider[t]}]
      /\ num_failures' = IF provider[t] \in metrics_keys
                         THEN [num_failures EXCEPT ![provider[t]] = Increment(@)]
                         ELSE num_failures
  BY DEF Punish, Go
<1>2. P \subseteq Threads /\ C \subseteq Threads
  BY DEF Punishers, Chargers
<1>3. CASE provider[t] # p
  <2>1. num_failures'[p] = num_failures[p]
    BY <1>1, <1>3 DEF AllProviders
  <2>2. P' = P /\ C' = C
    BY <1>1, <1>3 DEF Punishers, Chargers, Charging
  <2> QED
    BY <2>1, <2>2, CounterQuiet
<1>4. CASE provider[t] = p
  <2>1. p \notin punished_providers[t] /\ p \in metrics_keys
    BY <1>1, <1>4 DEF Charges, Charging, Loop, Guarding
  <2>2. P' = P \cup {t} /\ t \notin P /\ C' = C \ {t} /\ t \in C
    BY <1>1, <1>4, <2>1 DEF Punishers, Chargers, Charging
  <2>3. Cardinality(P') = Cardinality(P) + 1
    BY <1>2, <2>2, OneMore
  <2>4. Cardinality(C') = Cardinality(C) - 1 /\ Cardinality(C) > 0
    BY <1>2, <2>2, OneLess
  <2>5. num_failures'[p] = Increment(num_failures[p])
    BY <1>1, <1>4, <2>1 DEF AllProviders
  <2>6. Cardinality(P) \in Nat /\ Cardinality(C) \in Nat /\ Cardinality(Threads) \in Nat
    BY <1>2, CardinalitiesOfThreads
  <2>7. num_failures[p] \in Nat /\ MaxFailures \in Nat /\ MaxU32 \in Nat
    BY BoundsAssumption DEF AllProviders
  <2> HIDE DEF P, C
  <2>8. /\ num_failures[p] >= Cardinality(P)
        /\ "Complete" \notin ServeResults => num_failures[p] = Cardinality(P)
        /\ num_failures[p] + Cardinality(C) <= MaxFailures + Cardinality(Threads)
    BY DEF Counter, P, C
  <2>9. num_failures'[p] = num_failures[p] + 1
    BY <2>4, <2>5, <2>6, <2>7, <2>8 DEF Increment, Bounded
  <2>10. /\ num_failures'[p] >= Cardinality(P')
         /\ "Complete" \notin ServeResults => num_failures'[p] = Cardinality(P')
         /\ num_failures'[p] + Cardinality(C') <= MaxFailures + Cardinality(Threads)
    BY <2>3, <2>4, <2>6, <2>7, <2>8, <2>9
  <2> QED
    BY <2>10 DEF Counter, P, C
<1> QED
  BY <1>3, <1>4

LEMMA CounterPardon ==
    ASSUME NEW p \in Providers, TypeInv, Counter(p), NEW t \in Threads,
           Charges(t), Pardon(t)
    PROVE  Counter(p)'
<1> USE DEF TypeInv, TypeOK
<1> DEFINE P == Punishers(p)  C == Chargers(p)
<1>1. /\ pc[t] = "pardon" /\ pc' = [pc EXCEPT ![t] = "remove"]
      /\ punished_providers' = [punished_providers EXCEPT ![t] = {}]
      /\ num_failures'[p] = IF p \in Pardoned(t) THEN Decrement(num_failures[p])
                            ELSE num_failures[p]
  BY DEF Pardon, Go, AllProviders
<1>2. P \subseteq Threads /\ C \subseteq Threads /\ C' = C /\ P' = P \ {t}
  BY <1>1 DEF Punishers, Chargers, Charging
<1>3. p \in Pardoned(t) <=> t \in P
  BY DEF Pardoned, Charges, Punishers
<1>4. CASE t \notin P
  <2>1. num_failures'[p] = num_failures[p] /\ P' = P
    BY <1>1, <1>2, <1>3, <1>4
  <2> QED
    BY <1>2, <2>1, CounterQuiet
<1>5. CASE t \in P
  <2>1. Cardinality(P') = Cardinality(P) - 1 /\ Cardinality(P) > 0
    BY <1>2, <1>5, OneLess
  <2>2. num_failures'[p] = Decrement(num_failures[p])
    BY <1>1, <1>3, <1>5
  <2>3. Cardinality(P) \in Nat /\ Cardinality(C) \in Nat /\ Cardinality(Threads) \in Nat
    BY <1>2, CardinalitiesOfThreads
  <2>4. num_failures[p] \in Nat /\ MaxFailures \in Nat
    BY BoundsAssumption DEF AllProviders
  <2>5. Cardinality(C') = Cardinality(C)
    BY <1>2
  <2> HIDE DEF P, C
  <2>6. /\ num_failures[p] >= Cardinality(P)
        /\ "Complete" \notin ServeResults => num_failures[p] = Cardinality(P)
        /\ num_failures[p] + Cardinality(C) <= MaxFailures + Cardinality(Threads)
    BY DEF Counter, P, C
  <2>7. num_failures'[p] = num_failures[p] - 1
    BY <2>1, <2>2, <2>3, <2>4, <2>6 DEF Decrement
  <2>8. /\ num_failures'[p] >= Cardinality(P')
        /\ "Complete" \notin ServeResults => num_failures'[p] = Cardinality(P')
        /\ num_failures'[p] + Cardinality(C') <= MaxFailures + Cardinality(Threads)
    BY <2>1, <2>3, <2>4, <2>5, <2>6, <2>7
  <2> QED
    BY <2>8 DEF Counter, P, C
<1> QED
  BY <1>4, <1>5

LEMMA CounterFinish ==
    ASSUME NEW p \in Providers, TypeInv, Counter(p), NEW t \in Threads,
           Forgives(t), Finish(t)
    PROVE  Counter(p)'
<1> USE DEF TypeInv, TypeOK
<1>1. /\ pc[t] = "finish" /\ pc' = [pc EXCEPT ![t] = "ended"]
      /\ punished_providers' = [punished_providers EXCEPT ![t] = {}]
      /\ num_failures' = num_failures
  BY DEF Finish, Go, metricVars
<1>2. Punishers(p)' = Punishers(p) \ {t} /\ Chargers(p)' = Chargers(p)
  BY <1>1 DEF Punishers, Chargers, Charging
<1>3. "Complete" \notin ServeResults => t \notin Punishers(p)
  BY <1>1 DEF Forgives, Punishers
<1>4. /\ UNCHANGED num_failures[p]
      /\ Punishers(p)' \subseteq Punishers(p) /\ Chargers(p)' \subseteq Chargers(p)
      /\ "Complete" \notin ServeResults => Punishers(p)' = Punishers(p)
  BY <1>1, <1>2, <1>3
<1> QED
  BY <1>4, CounterQuiet

LEMMA CounterJob ==
    ASSUME Bounded, NEW p \in Providers, TypeInv, Counter(p), NEW t \in Threads,
           Loop(t), Charges(t), Forgives(t), Job(t)
    PROVE  Counter(p)'
<1> USE DEF TypeInv, TypeOK, Go, contextVars, metricVars, jobVars, attemptVars, loopVars,
            shared, locals
<1> DEFINE Quiet == /\ UNCHANGED <<num_failures, punished_providers>>
                    /\ \A u \in Threads : pc'[u] \in Charging => pc[u] \in Charging
<1>1. ASSUME \/ StartThread(t) \/ SelectCustom(t) \/ BeginSelection(t) \/ ReadUsages(t)
             \/ SelectProvider(t) \/ GetChannel(t) \/ ChannelFails(t)
      PROVE  Quiet
  BY <1>1 DEF StartThread, SelectCustom, BeginSelection, ReadUsages, SelectProvider,
              GetChannel, ChannelFails, Charging
<1>2. ASSUME \/ ServeFromProvider(t) \/ Pause(t) \/ Panic(t) \/ NoPunishment(t) \/ BreakOnSuccess(t)
             \/ BreakOnLastChance(t) \/ TryNext(t) \/ RemoveOrder(t)
      PROVE  Quiet
  BY <1>2 DEF ServeFromProvider, Pause, Panic, NoPunishment, BreakOnSuccess, BreakOnLastChance,
              TryNext, RemoveOrder, Charging
<1>3. ASSUME Quiet PROVE Counter(p)'
  <2>1. Punishers(p)' = Punishers(p) /\ Chargers(p)' \subseteq Chargers(p)
    BY <1>3 DEF Punishers, Chargers
  <2> QED
    BY <1>3, <2>1, CounterQuiet
<1> HIDE DEF Quiet
<1> QED
  BY <1>1, <1>2, <1>3, CounterPunish, CounterPardon, CounterFinish DEF Job

LEMMA CountStep ==
    ASSUME Bounded, TypeInv, LoopInv, ChargeInv, CountInv, [Next]_vars
    PROVE  CountInv'
<1> SUFFICES ASSUME NEW p \in Providers PROVE Counter(p)'
  BY DEF CountInv
<1>1. Counter(p)
  BY DEF CountInv
<1>2. ASSUME NEW t \in Threads, Job(t) PROVE Counter(p)'
  BY <1>1, <1>2, CounterJob DEF LoopInv, ChargeInv
<1>3. CASE \/ \E o \in Orders : SchedulePanics(o)
           \/ \E o \in Orders, c \in Clients : Redirect(o, c)
           \/ \E o \in Orders, c \in Clients, q \in CustomProviders : RedirectCustom(o, c, q)
           \/ \E c \in Clients : Redirected(c)
           \/ UNCHANGED vars
  <2>1. UNCHANGED <<num_failures, punished_providers, pc>>
    BY <1>3 DEF SchedulePanics, Redirect, RedirectCustom,
           Redirected, vars, shared, locals, metricVars, loopVars
  <2>2. Punishers(p)' = Punishers(p) /\ Chargers(p)' = Chargers(p)
    BY <2>1 DEF Punishers, Chargers
  <2> QED
    BY <1>1, <2>1, <2>2, CounterQuiet
<1>4. ~ResetProviderMetrics
  BY DEF Bounded, ResetProviderMetrics
<1> QED
  BY <1>1, <1>2, <1>3, <1>4, CounterSchedule DEF Next, Request

LEMMA ChargesInit == Init => ChargeInv /\ CountInv
<1> SUFFICES ASSUME Init PROVE ChargeInv /\ CountInv
  OBVIOUS
<1>1. ChargeInv
  BY DEF Init, ChargeInv, Charges, Forgives, Charging
<1>2. ASSUME NEW p \in Providers PROVE Counter(p)
  <2>1. Punishers(p) = {} /\ Chargers(p) = {} /\ num_failures[p] = 0
    BY DEF Init, Punishers, Chargers, Charging, AllProviders
  <2>2. Cardinality({}) = 0 /\ MaxFailures \in Nat /\ Cardinality(Threads) \in Nat
    BY FS_EmptySet, CardinalitiesOfThreads, BoundsAssumption
  <2> QED
    BY <2>1, <2>2 DEF Counter
<1> QED
  BY <1>1, <1>2 DEF CountInv

\* Without /reset-metrics, and short of a wrap of the u32 above, the counters
\* of the mirrors and the accounts of the jobs agree in every reachable state.
THEOREM Accounts == ASSUME Bounded PROVE Spec => [](TypeInv /\ ChargeInv /\ CountInv)
<1>1. Init => ChargeInv /\ CountInv
  BY ChargesInit
<1>2. TypeInv /\ LoopInv /\ ChargeInv /\ CountInv /\ [Next]_vars => ChargeInv' /\ CountInv'
  BY ChargesStep, CountStep DEF Bounded
<1> QED
  BY <1>1, <1>2, Typing, LoopInvariant, PTL DEF Spec

\* No job pardons a mirror more than jobs have punished it: value.num_failures
\* -= 1 in pardon never meets a zero, however jobs interleave.
THEOREM PunishmentsAreCounted ==
    ASSUME AllowReset = FALSE, MaxFailures + Cardinality(Threads) <= MaxU32
    PROVE  Spec => []PunishmentsCounted
<1>1. CountInv => PunishmentsCounted
  BY DEF CountInv, Counter, PunishmentsCounted, Punishers
<1>2. Bounded
  BY DEF Bounded
<1> QED
  BY <1>1, <1>2, Accounts, PTL

\* What the test no_downgrade_if_all_providers_fail promises does hold when
\* neither /reset-metrics nor a custom repository is used: with no job that
\* completes, all failures are forgiven once no job is running.
THEOREM NoDowngrade ==
    ASSUME AllowReset = FALSE, CustomProviders = {},
           MaxFailures + Cardinality(Threads) <= MaxU32
    PROVE  Spec => []NoDowngradeWhenAllFail
<1>1. ChargeInv /\ CountInv => NoDowngradeWhenAllFail
  <2> SUFFICES ASSUME ChargeInv, CountInv, "Complete" \notin ServeResults,
                      \A t \in Threads : pc[t] = "ended", NEW p \in AllProviders
               PROVE  num_failures[p] = 0
    BY DEF NoDowngradeWhenAllFail
  <2>1. p \in Providers
    BY DEF AllProviders
  <2>2. Punishers(p) = {}
    BY DEF Punishers, ChargeInv, Charges
  <2> QED
    BY <2>1, <2>2, FS_EmptySet DEF CountInv, Counter
<1>2. Bounded
  BY DEF Bounded
<1> QED
  BY <1>1, <1>2, Accounts, PTL

-----------------------------------------------------------------------------
(* The usage counts of a selection. *)

\* One selection at a time, since it holds the mutex of the guards; and while
\* it runs guards are dropped but none is handed out, so that a count that it
\* has read may be too high by the time it is used, but never too low.
ScanInv ==
    /\ \A t, u \in Threads : pc[t] = "scan" /\ pc[u] = "scan" => t = u
    /\ (\E t \in Threads : pc[t] = "scan") =>
          \A p \in 1..Len(usages) : NumCurrentUsages(p) <= usages[p]

\* A step that begins no selection and hands out no guard.
Releases ==
    /\ usages' = usages
    /\ \A t \in Threads :
          /\ pc'[t] = "scan" => pc[t] = "scan"
          /\ pc'[t] \in Guarding => pc[t] \in Guarding /\ provider'[t] = provider[t]
    /\ \A c \in Clients :
          redirects'[c] \in {NoProvider, redirects[c]} \cup CustomProviders

LEMMA FewerUsages ==
    ASSUME NEW p \in Providers, Releases
    PROVE  NumCurrentUsages(p)' \in Nat /\ NumCurrentUsages(p)' <= NumCurrentUsages(p)
<1> DEFINE T == {t \in Threads : pc[t] \in Guarding /\ provider[t] = p}
           C == {c \in Clients : redirects[c] = p}
<1>1. T' \subseteq T /\ C' \subseteq C /\ T \subseteq Threads /\ C \subseteq Clients
  BY ProvidersAssumption DEF Releases, Providers
<1>2. IsFiniteSet(T) /\ IsFiniteSet(C)
  BY <1>1, FS_Subset, BoundsAssumption
<1>3. IsFiniteSet(T') /\ IsFiniteSet(C')
      /\ Cardinality(T') <= Cardinality(T) /\ Cardinality(C') <= Cardinality(C)
  BY <1>1, <1>2, FS_Subset
<1>4. /\ Cardinality(T) \in Nat /\ Cardinality(C) \in Nat
      /\ Cardinality(T') \in Nat /\ Cardinality(C') \in Nat
  BY <1>2, <1>3, FS_CardinalityType
<1>5. /\ NumCurrentUsages(p) = 1 + Cardinality(T) + Cardinality(C)
      /\ NumCurrentUsages(p)' = 1 + Cardinality(T') + Cardinality(C')
  BY DEF NumCurrentUsages
<1> HIDE DEF T, C
<1> QED
  BY <1>3, <1>4, <1>5

LEMMA ReleasesKeep == ASSUME TypeInv, ScanInv, Releases PROVE ScanInv'
<1>1. \A t, u \in Threads : pc'[t] = "scan" /\ pc'[u] = "scan" => t = u
  BY DEF ScanInv, Releases
<1>2. ASSUME \E t \in Threads : pc'[t] = "scan", NEW p \in 1..Len(usages')
      PROVE  NumCurrentUsages(p)' <= usages'[p]
  <2>1. p \in 1..Len(usages) /\ NumCurrentUsages(p) <= usages[p] /\ usages'[p] = usages[p]
    BY <1>2 DEF ScanInv, Releases
  <2>4. p \in Providers
    BY <2>1, ProvidersAssumption DEF TypeInv, TypeOK, Providers
  <2>2. NumCurrentUsages(p)' \in Nat /\ NumCurrentUsages(p)' <= NumCurrentUsages(p)
    BY <2>4, FewerUsages
  <2>3. NumCurrentUsages(p) \in Nat /\ usages[p] \in Nat
    BY <2>1, UsagesAreNatural DEF TypeInv, TypeOK
  <2> QED
    BY <2>1, <2>2, <2>3
<1> QED
  BY <1>1, <1>2 DEF ScanInv

LEMMA ScanJob ==
    ASSUME TypeInv, ScanInv, NEW t \in Threads, Job(t)
    PROVE  ScanInv'
<1> USE DEF TypeInv, TypeOK, Go, Guarding, contextVars, metricVars, jobVars, attemptVars,
            loopVars, shared, locals
<1>1. CASE SelectCustom(t)
  <2>1. \A u \in Threads : pc'[u] # "scan"
    BY <1>1 DEF SelectCustom, MetricsUnlocked
  <2> QED
    BY <2>1 DEF ScanInv
<1>2. CASE BeginSelection(t)
  <2>1. (\A u \in Threads : pc'[u] = "scan" => u = t) /\ Len(usages') = 0
    BY <1>2 DEF BeginSelection, MetricsUnlocked
  <2> QED
    BY <2>1 DEF ScanInv
<1>3. CASE ReadUsages(t)
  <2> DEFINE n == Len(usages) + 1
  <2>1. /\ usages' = Append(usages, NumCurrentUsages(n)) /\ Len(usages) \in Nat
        /\ pc[t] = "scan" /\ UNCHANGED <<pc, provider, redirects>>
    BY <1>3 DEF ReadUsages
  <2>2. \A p : NumCurrentUsages(p)' = NumCurrentUsages(p) /\ NumCurrentUsages(p) \in Nat
    BY <2>1, UsagesAreNatural DEF NumCurrentUsages
  <2>3. ASSUME NEW p \in 1..Len(usages') PROVE NumCurrentUsages(p) <= usages'[p]
    <3>1. CASE p = n
      BY <2>1, <2>2, <3>1
    <3>2. CASE p # n
      <4>1. p \in 1..Len(usages) /\ usages'[p] = usages[p]
        BY <2>1, <2>2, <3>2
      <4> QED
        BY <2>1, <4>1 DEF ScanInv
    <3> QED
      BY <3>1, <3>2
  <2> QED
    BY <2>1, <2>2, <2>3 DEF ScanInv
<1>4. CASE SelectProvider(t)
  <2>1. \A u \in Threads : pc'[u] # "scan"
    BY <1>4 DEF SelectProvider, ScanInv
  <2> QED
    BY <2>1 DEF ScanInv
<1>5. ASSUME \/ StartThread(t) \/ GetChannel(t) \/ ChannelFails(t) \/ ServeFromProvider(t)
             \/ Pause(t) \/ Panic(t) \/ Punish(t) \/ NoPunishment(t) \/ BreakOnSuccess(t)
      PROVE  Releases
  BY <1>5 DEF StartThread, GetChannel, ChannelFails, ServeFromProvider, Pause, Panic, Punish,
              NoPunishment, BreakOnSuccess, Releases
<1>6. ASSUME \/ BreakOnLastChance(t) \/ TryNext(t) \/ Pardon(t) \/ RemoveOrder(t)
             \/ Finish(t)
      PROVE  Releases
  BY <1>6 DEF BreakOnLastChance, TryNext, Pardon, RemoveOrder, Finish, Releases
<1> QED
  BY <1>1, <1>2, <1>3, <1>4, <1>5, <1>6, ReleasesKeep DEF Job

LEMMA ScanStep ==
    ASSUME TypeInv, ScanInv, [Next]_vars
    PROVE  ScanInv'
<1> USE DEF TypeInv, TypeOK, Guarding, contextVars, metricVars, jobVars, attemptVars,
            loopVars, shared, locals
<1>1. ASSUME NEW o \in Orders, NEW c \in Clients, Redirect(o, c)
      PROVE  ScanInv'
  BY <1>1 DEF Redirect, MetricsUnlocked, ScanInv
<1>2. ASSUME NEW o \in Orders, NEW c \in CustomProviders \cup {NoProvider},
             NEW t \in Threads, Schedule(o, c, t)
      PROVE  Releases
  BY <1>2 DEF Schedule, Go, Releases
<1>3. ASSUME \/ \E o \in Orders : SchedulePanics(o)
             \/ \E o \in Orders, c \in Clients, q \in CustomProviders : RedirectCustom(o, c, q)
             \/ \E c \in Clients : Redirected(c)
             \/ ResetProviderMetrics
             \/ UNCHANGED vars
      PROVE  Releases
  BY <1>3 DEF SchedulePanics, RedirectCustom,
         Redirected, ResetProviderMetrics, Releases, vars
<1> QED
  BY <1>1, <1>2, <1>3, ReleasesKeep, ScanJob DEF Next, Request

\* Only the selection itself takes a thread from its scan to a channel.
LEMMA OnlySelection ==
    ASSUME TypeInv, [Next]_vars, NEW t \in Threads, pc[t] = "scan", pc'[t] = "channel"
    PROVE  SelectProvider(t)
<1> USE DEF TypeInv, TypeOK
<1>1. ~Request /\ ~UNCHANGED vars
  BY DEF Request, Schedule, SchedulePanics, Redirect, RedirectCustom,
         Redirected, ResetProviderMetrics, Go, vars
<1>2. PICK u \in Threads : Job(u)
  BY <1>1 DEF Next
<1>3. u = t
  BY <1>2, OthersCharges DEF chargeState
<1> QED
  BY <1>2, <1>3 DEF Job, StartThread, SelectCustom, BeginSelection, ReadUsages, GetChannel,
     ChannelFails, ServeFromProvider, Pause, Panic, Punish, NoPunishment, BreakOnSuccess,
     BreakOnLastChance, TryNext, Pardon, RemoveOrder, Finish, Go

\* The guard of another job keeps the count of its provider above one.
LEMMA SharedIsSeen ==
    ASSUME TypeInv, ScanInv, NEW t \in Threads, pc[t] = "scan", NEW p \in 1..Len(usages),
           NEW u \in Threads, pc[u] \in Guarding, provider[u] = p
    PROVE  usages[p] > 1
<1> DEFINE T == {v \in Threads : pc[v] \in Guarding /\ provider[v] = p}
           C == {c \in Clients : redirects[c] = p}
<1>1. IsFiniteSet(T) /\ IsFiniteSet(C) /\ u \in T
  BY FS_Subset, BoundsAssumption
<1>2. Cardinality(T) \in Nat /\ Cardinality(C) \in Nat /\ Cardinality(T) # 0
  BY <1>1, FS_CardinalityType, FS_EmptySet
<1>3. NumCurrentUsages(p) = 1 + Cardinality(T) + Cardinality(C)
  BY DEF NumCurrentUsages
<1>4. usages[p] \in Nat /\ NumCurrentUsages(p) <= usages[p]
  BY DEF ScanInv, TypeInv, TypeOK
<1> HIDE DEF T, C
<1> QED
  BY <1>2, <1>3, <1>4

\* Cacheable orders spread over the mirrors: a selection shares a mirror with
\* another job only when it has seen every candidate without more failures in
\* use, although guards are dropped while it reads their counts.
THEOREM SharesOnlyWhenBusy == Spec => NoSharingWhileIdle
<1>1. Init => ScanInv
  BY DEF Init, ScanInv
<1>2. TypeInv /\ ScanInv /\ [Next]_vars => ScanInv'
  BY ScanStep
<1>3. ASSUME TypeInv, ScanInv, [Next]_vars, NEW t \in Threads, NEW u \in Threads,
             pc[t] = "scan", pc'[t] = "channel", job_order[t] \in Cacheable,
             pc[u] \in Guarding, provider[u] = provider'[t],
             NEW q \in Candidates(t), num_failures[q] <= num_failures[provider'[t]]
      PROVE  usages[q] > 1
  <2>1. SelectProvider(t)
    BY <1>3, OnlySelection
  <2>2. PICK p \in MinByKey(t) : provider'[t] = p
    BY <1>3, <2>1 DEF SelectProvider, TypeInv, TypeOK
  <2>3. p \in Providers /\ q \in Providers /\ First(p, Score(t, p), q, Score(t, q))
    BY <2>2 DEF MinByKey, Candidates
  <2>4. p \in 1..Len(usages) /\ q \in 1..Len(usages) /\ p \in AllProviders /\ q \in AllProviders
    BY <2>1, <2>3 DEF SelectProvider, Providers, AllProviders
  <2>5. usages[p] > 1
    BY <1>3, <2>2, <2>4, SharedIsSeen
  <2>6. /\ usages[p] \in Nat /\ usages[q] \in Nat
        /\ num_failures[p] \in Nat /\ num_failures[q] \in Nat
    BY <1>3, <2>4, BoundsAssumption DEF TypeInv, TypeOK
  <2>7. usages[p] <= usages[q]
    <3>1. /\ Score(t, p) = <<num_failures[p], usages[p], InitialScore[p]>>
          /\ Score(t, q) = <<num_failures[q], usages[q], InitialScore[q]>>
      BY <1>3 DEF Score
    <3>2. CASE Score(t, p) = Score(t, q)
      BY <3>1, <3>2, <2>6
    <3>3. CASE ScoreLess(Score(t, p), Score(t, q))
      <4>1. PICK i \in 1..3 : /\ Score(t, p)[i] < Score(t, q)[i]
                              /\ \A j \in 1..(i - 1) : Score(t, p)[j] = Score(t, q)[j]
        BY <3>3 DEF ScoreLess
      <4>2. CASE i = 1
        BY <1>3, <2>2, <2>6, <3>1, <4>1, <4>2
      <4>3. CASE i = 2
        BY <2>6, <3>1, <4>1, <4>3
      <4>4. CASE i = 3
        <5>1. Score(t, p)[2] = Score(t, q)[2]
          BY <4>1, <4>4
        <5> QED
          BY <2>6, <3>1, <5>1
      <4> QED
        BY <4>1, <4>2, <4>3, <4>4
    <3> QED
      BY <2>3, <3>2, <3>3 DEF First
  <2> QED
    BY <2>5, <2>6, <2>7
<1>4. TypeInv /\ ScanInv /\ [Next]_vars =>
        [\A t, u \in Threads :
          /\ pc[t] = "scan" /\ pc'[t] = "channel" /\ job_order[t] \in Cacheable
          /\ u # t /\ pc[u] \in Guarding /\ provider[u] = provider'[t]
          => \A q \in Candidates(t) :
                num_failures[q] <= num_failures[provider'[t]] => usages[q] > 1]_vars
  BY <1>3
<1> QED
  BY <1>1, <1>2, <1>4, Typing, PTL DEF Spec, NoSharingWhileIdle

=============================================================================
