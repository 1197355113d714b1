---------------------------- MODULE ServerProofs ----------------------------
(***************************************************************************)
(* Proofs about the parts of the server that share no state: Service,      *)
(* GitHubClient, Startup, Events and RateLimiter (Credentials has          *)
(* CredentialsProofs).                                                     *)
(***************************************************************************)
EXTENDS MCServer, CredentialsProofs, FiniteSetTheorems, TLAPS

-----------------------------------------------------------------------------
(***************************************************************************)
(* Service: the two times of an alert key.                                 *)
(***************************************************************************)

\* lastSent never says that an alert is younger than the youngest one sent,
\* and lags behind it by the time of one report at most.
TimesAgree ==
  \A k \in AlertKeys : newest[k] <= lastSent[k] /\ lastSent[k] <= newest[k] + SendTimeout

AlertInv == ServiceTypeOK /\ TimesAgree

\* What a process starts with.
LEMMA FreshStart ==
  /\ Starting \in Stages
  /\ Silent \in [sending : BOOLEAN, age : 0..SendTimeout]
  /\ Quiet \in [Goroutines -> [sending : BOOLEAN, age : 0..SendTimeout]]
  /\ Never \in [AlertKeys -> 0..Cooldown]
<1>1. Starting \in Stages
  BY DEF Starting, Stages, Alarms, Goroutines
<1>2. 0 \in 0..SendTimeout /\ Cooldown \in 0..Cooldown
  BY ServiceAssumption
<1>3. Silent \in [sending : BOOLEAN, age : 0..SendTimeout]
  BY <1>2 DEF Silent
<1> QED
  BY <1>1, <1>2, <1>3 DEF Quiet, Never

LEMMA AlertInit == ServiceInit => AlertInv
<1> SUFFICES ASSUME ServiceInit PROVE AlertInv
  OBVIOUS
<1>1. ServiceTypeOK
  <2>1. waited \in 0..Grace /\ alerts \in Settings /\ signalled \in BOOLEAN
    <3>1. 0 \in 0..Grace
      BY ServiceAssumption
    <3> QED
      BY <3>1, Zenon DEF ServiceInit
  <2>2. stage \in Stages /\ report = Quiet /\ lastSent = Never /\ newest = Never
    BY FreshStart DEF ServiceInit
  <2> QED
    BY <2>1, <2>2, FreshStart DEF ServiceTypeOK
<1>2. TimesAgree
  BY ServiceAssumption DEF ServiceInit, TimesAgree, Never
<1> QED
  BY <1>1, <1>2 DEF AlertInv

\* Steps of the goroutines keep every stage a stage.
LEMMA StagesKept ==
  ASSUME stage \in Stages,
         \/ \E g, s : Enter(g, s) /\ s \in Alarms \union {"idle", "handling", "dropped",
              "working", "ended", "serving", "draining", "closed", "gone"}
         \/ \E g \in Goroutines : AfterReport(g)
  PROVE  stage' \in Stages
<1>1. ASSUME NEW g \in Goroutines, AfterReport(g)
      PROVE  stage' \in Stages
  BY <1>1 DEF AfterReport, Enter, Stages, Goroutines
<1> QED
  BY <1>1 DEF Enter, Stages

\* A report in flight is younger than its deadline.
LEMMA ReportsKept ==
  ASSUME ServiceTypeOK, NEW g \in Goroutines,
         \/ report' = [report EXCEPT ![g].sending = TRUE]
         \/ report' = [report EXCEPT ![g] = Silent]
  PROVE  report' \in [Goroutines -> [sending : BOOLEAN, age : 0..SendTimeout]]
<1>1. /\ report \in [Goroutines -> [sending : BOOLEAN, age : 0..SendTimeout]]
      /\ Silent \in [sending : BOOLEAN, age : 0..SendTimeout]
  BY FreshStart DEF ServiceTypeOK
<1>2. CASE report' = [report EXCEPT ![g].sending = TRUE]
  BY <1>1, <1>2
<1>3. CASE report' = [report EXCEPT ![g] = Silent]
  BY <1>1, <1>3
<1> QED
  BY <1>2, <1>3

LEMMA AlertStep ==
  ASSUME AlertInv, [ServiceNext]_serviceVars
  PROVE  AlertInv'
<1>a. /\ ServiceTypeOK /\ TimesAgree
      /\ Cooldown \in Nat /\ SendTimeout \in 0..(Cooldown - 1) /\ Grace \in Nat
  BY ServiceAssumption DEF AlertInv
<1>1. ASSUME NEW c \in Callers, Arrives(c) \/ Answers(c) \/ Panics(c)
      PROVE  AlertInv'
  <2>1. stage' \in Stages
    BY <1>1, <1>a, StagesKept DEF Arrives, Answers, Panics, Serves, ServiceTypeOK, Alarms
  <2> QED
    BY <1>1, <1>a, <2>1 DEF Arrives, Answers, Panics, Serves, AlertInv, ServiceTypeOK, TimesAgree
<1>2. ASSUME NEW w \in Loops, LoopFails(w) \/ LoopPanics(w) \/ LoopEnds(w)
      PROVE  AlertInv'
  <2>1. stage' \in Stages
    BY <1>2, <1>a, StagesKept DEF LoopFails, LoopPanics, LoopEnds, Serves, ServiceTypeOK, Alarms
  <2> QED
    BY <1>2, <1>a, <2>1 DEF LoopFails, LoopPanics, LoopEnds, Serves, AlertInv, ServiceTypeOK,
                            TimesAgree
<1>3. ASSUME NEW g \in Goroutines, Suppressed(g) \/ NoReporter(g)
      PROVE  AlertInv'
  <2>1. stage' \in Stages
    BY <1>3, <1>a, StagesKept DEF Suppressed, NoReporter, ServiceTypeOK
  <2> QED
    BY <1>3, <1>a, <2>1 DEF Suppressed, NoReporter, AlertInv, ServiceTypeOK, TimesAgree
<1>4. ASSUME NEW g \in Goroutines, BeginReport(g) \/ ReportFails(g)
      PROVE  AlertInv'
  <2>1. stage' \in Stages
    BY <1>4, <1>a, StagesKept DEF BeginReport, ReportFails, ServiceTypeOK
  <2>2. report' \in [Goroutines -> [sending : BOOLEAN, age : 0..SendTimeout]]
    BY <1>4, <1>a, ReportsKept DEF BeginReport, ReportFails
  <2> QED
    BY <1>4, <1>a, <2>1, <2>2 DEF BeginReport, ReportFails, AlertInv, ServiceTypeOK, TimesAgree
<1>5. ASSUME NEW g \in Goroutines, ReportSent(g)
      PROVE  AlertInv'
  <2>1. stage' \in Stages
    BY <1>5, <1>a, StagesKept DEF ReportSent, ServiceTypeOK
  <2>2. report' \in [Goroutines -> [sending : BOOLEAN, age : 0..SendTimeout]]
    BY <1>5, <1>a, ReportsKept DEF ReportSent
  <2> DEFINE k == KeyOf(g)
             a == report[g].age
  <2>3. /\ lastSent' = [lastSent EXCEPT ![k] = a]
        /\ newest' = [newest EXCEPT ![k] = Smaller(newest[k], a)]
    BY <1>5 DEF ReportSent
  <2>4. a \in 0..SendTimeout
    BY <1>a DEF ServiceTypeOK
  <2> HIDE DEF k, a
  <2>5. ASSUME NEW j \in AlertKeys
        PROVE  /\ lastSent'[j] \in 0..Cooldown /\ newest'[j] \in 0..Cooldown
               /\ newest'[j] <= lastSent'[j] /\ lastSent'[j] <= newest'[j] + SendTimeout
    <3>1. CASE j = k
      <4>1. lastSent'[j] = a /\ newest'[j] = Smaller(newest[j], a)
        BY <2>3, <3>1, <1>a DEF ServiceTypeOK
      <4>2. newest[j] \in 0..Cooldown
        BY <1>a DEF ServiceTypeOK
      <4> QED
        BY <4>1, <4>2, <2>4, <1>a DEF Smaller
    <3>2. CASE j # k
      BY <2>3, <3>2, <1>a DEF ServiceTypeOK, TimesAgree
    <3> QED
      BY <3>1, <3>2
  <2>6. lastSent' \in [AlertKeys -> 0..Cooldown] /\ newest' \in [AlertKeys -> 0..Cooldown]
    BY <2>3, <2>5, <1>a DEF ServiceTypeOK
  <2> QED
    BY <1>5, <1>a, <2>1, <2>2, <2>5, <2>6 DEF ReportSent, AlertInv, ServiceTypeOK, TimesAgree
<1>6. CASE Signal \/ ServerFails \/ Shutdown
  <2>1. stage' \in Stages
    BY <1>6, <1>a, StagesKept DEF Signal, ServerFails, Shutdown, Drained, GraceOver, Exit,
                                  MainStep, ServiceTypeOK, Alarms
  <2> QED
    BY <1>6, <1>a, <2>1 DEF Signal, ServerFails, Shutdown, Drained, GraceOver, Exit, MainStep,
                            AlertInv, ServiceTypeOK, TimesAgree
<1>7. CASE Restart
  <2>1. ServiceTypeOK'
    <3>1. waited' \in 0..Grace /\ alerts' \in Settings /\ signalled' \in BOOLEAN
      <4>1. 0 \in 0..Grace
        BY <1>a
      <4> QED
        BY <4>1, <1>7, <1>a, Zenon DEF Restart, ServiceTypeOK
    <3>2. stage' \in Stages /\ report' = Quiet /\ lastSent' = Never /\ newest' = Never
      BY <1>7, FreshStart DEF Restart
    <3> QED
      BY <3>1, <3>2, FreshStart DEF ServiceTypeOK
  <2>2. TimesAgree'
    BY <1>7, <1>a DEF Restart, TimesAgree, Never
  <2> QED
    BY <2>1, <2>2 DEF AlertInv
<1>8. CASE ServiceTick
  <2>1. report' \in [Goroutines -> [sending : BOOLEAN, age : 0..SendTimeout]]
    <3>1. ASSUME NEW g \in Goroutines
          PROVE  report'[g] \in [sending : BOOLEAN, age : 0..SendTimeout]
      <4>1. /\ report[g] \in [sending : BOOLEAN, age : 0..SendTimeout]
            /\ report[g].age < SendTimeout
            /\ report'[g] = report[g] \/ report'[g] = [report[g] EXCEPT !.age = @ + 1]
        BY <1>8, <1>a DEF ServiceTick, ServiceTypeOK
      <4> QED
        BY <4>1, <1>a
    <3> QED
      BY <3>1, <1>8 DEF ServiceTick
  <2>2. ASSUME NEW k \in AlertKeys
        PROVE  /\ lastSent'[k] \in 0..Cooldown /\ newest'[k] \in 0..Cooldown
               /\ newest'[k] <= lastSent'[k] /\ lastSent'[k] <= newest'[k] + SendTimeout
    <3>1. /\ lastSent'[k] = Smaller(lastSent[k] + 1, Cooldown)
          /\ newest'[k] = Smaller(newest[k] + 1, Cooldown)
          /\ lastSent[k] \in 0..Cooldown /\ newest[k] \in 0..Cooldown
          /\ newest[k] <= lastSent[k] /\ lastSent[k] <= newest[k] + SendTimeout
      BY <1>8, <1>a DEF ServiceTick, ServiceTypeOK, TimesAgree
    <3> QED
      BY <3>1, <1>a DEF Smaller
  <2>3. lastSent' \in [AlertKeys -> 0..Cooldown] /\ newest' \in [AlertKeys -> 0..Cooldown]
    BY <1>8, <2>2 DEF ServiceTick
  <2>4. waited' \in 0..Grace
    BY <1>8, <1>a DEF ServiceTick, ServiceTypeOK
  <2> QED
    BY <1>8, <1>a, <2>1, <2>2, <2>3, <2>4 DEF ServiceTick, AlertInv, ServiceTypeOK, TimesAgree
<1>9. CASE UNCHANGED serviceVars
  BY <1>9, <1>a DEF serviceVars, AlertInv, ServiceTypeOK, TimesAgree
<1> QED
  BY <1>1, <1>2, <1>3, <1>4, <1>5, <1>6, <1>7, <1>8, <1>9 DEF ServiceNext, ReportStep

LEMMA AlertInvariant == ServiceSpec => []AlertInv
BY AlertInit, AlertStep, PTL DEF ServiceSpec

\* Nothing is kept quiet that was not told: while reports of a key are
\* suppressed, an alert of it that began within the cooldown was accepted, for
\* any number of goroutines whose reports overlap.
THEOREM NothingKeptQuiet == ServiceSpec => []SuppressedIsCovered
<1>1. AlertInv => SuppressedIsCovered
  BY ServiceAssumption DEF AlertInv, ServiceTypeOK, TimesAgree, SuppressedIsCovered
<1> QED
  BY <1>1, AlertInvariant, PTL

\* A report that begins after an alert of its key was sent is suppressed for
\* the cooldown, less the time one report takes, whatever the three durations.
THEOREM AlertsKeepTheirDistance == ServiceSpec => []AlertsSpaced
<1>1. AlertInv => AlertsSpaced
  BY ServiceAssumption DEF AlertInv, ServiceTypeOK, TimesAgree, AlertsSpaced
<1> QED
  BY <1>1, AlertInvariant, PTL

-----------------------------------------------------------------------------
(***************************************************************************)
(* GitHubClient: the lives of tokens.                                      *)
(***************************************************************************)

\* The tick an exchange may still take.
Pending(c) == IF waiting[c] THEN 0 ELSE 1

\* A call that has not read the cache has no token.  The one it asks for is
\* new, and the one it begins its first exchange with outlives a tick.
Lives ==
  \A c \in Calls :
    /\ at[c] \in Ends \union {"cache"} => token[c] = 0
    /\ at[c] = "fill" => token[c] = 0 \/ token[c] + 1 >= Life + Pending(c)
    /\ at[c] = "first" => token[c] >= 1 + Pending(c)

TokenInv == ClientTypeOK /\ Lives

LEMMA TokenInit == ClientInit => TokenInv
BY GitHubClientAssumption DEF ClientInit, TokenInv, ClientTypeOK, Lives, Steps, Ends

LEMMA TokenStep ==
  ASSUME TokenInv, [ClientNext]_clientVars
  PROVE  TokenInv'
<1>a. /\ ClientTypeOK /\ Lives
      /\ MaxNumber \in Nat /\ MaxRemovals \in Nat
      /\ Margin \in Nat \ {0} /\ Life \in Nat /\ Life > Margin + 1
  BY GitHubClientAssumption DEF TokenInv
<1> USE DEF Steps, Ends
<1>1. ASSUME NEW c \in Calls, FindByMarkerCalled(c)
      PROVE  TokenInv'
  <2>1. ClientTypeOK'
    BY <1>1, <1>a DEF FindByMarkerCalled, Proceed, repository, ClientTypeOK
  <2>2. Lives'
    BY <1>1, <1>a DEF FindByMarkerCalled, Proceed, ClientTypeOK, Lives, Pending
  <2> QED
    BY <2>1, <2>2 DEF TokenInv
<1>2. ASSUME NEW c \in Calls, ReadCache(c)
      PROVE  TokenInv'
  <2>1. ClientTypeOK'
    BY <1>2, <1>a, ZenonT(60) DEF ReadCache, Proceed, repository, search, ClientTypeOK
  <2>2. Lives'
    BY <1>2, <1>a DEF ReadCache, Proceed, ClientTypeOK, Lives, Pending
  <2> QED
    BY <2>1, <2>2 DEF TokenInv
<1>3. ASSUME NEW c \in Calls, TokenMade(c)
      PROVE  TokenInv'
  <2>1. ClientTypeOK'
    BY <1>3, <1>a DEF TokenMade, repository, search, ClientTypeOK
  <2>2. Lives'
    BY <1>3, <1>a DEF TokenMade, ClientTypeOK, Lives, Pending
  <2> QED
    BY <2>1, <2>2 DEF TokenInv
<1>4. ASSUME NEW c \in Calls, FillCache(c)
      PROVE  TokenInv'
  <2>1. ClientTypeOK'
    BY <1>4, <1>a DEF FillCache, Proceed, repository, search, ClientTypeOK
  <2>2. Lives'
    BY <1>4, <1>a DEF FillCache, Proceed, ClientTypeOK, Lives, Pending
  <2> QED
    BY <2>1, <2>2 DEF TokenInv
<1>5. ASSUME NEW c \in Calls, FetchPage(c) \/ ExchangeFails(c)
      PROVE  TokenInv'
  <2>1. \/ \E e \in {"found", "notFound", "failed"} : End(c, e)
        \/ NextPage(c)
    BY <1>5 DEF FetchPage, ExchangeFails
  <2>2. UNCHANGED <<repository, cached, there, lost>>
    BY <1>5 DEF FetchPage, ExchangeFails
  <2>3. ClientTypeOK'
    <3>1. at' \in [Calls -> Steps] /\ waiting' \in [Calls -> BOOLEAN]
      BY <2>1, <1>a, ZenonT(60) DEF End, NextPage, Proceed, ClientTypeOK
    <3>2. token' \in [Calls -> 0..Life] /\ page' \in [Calls -> Nat]
      BY <2>1, <1>a DEF End, NextPage, ClientTypeOK
    <3> QED
      BY <2>2, <3>1, <3>2, <1>a DEF ClientTypeOK, repository
  <2>4. Lives'
    BY <2>1, <2>2, <1>a DEF End, NextPage, Proceed, ClientTypeOK, Lives, Pending
  <2> QED
    BY <2>3, <2>4 DEF TokenInv
<1>6. ASSUME NEW n \in Issue, IssueOpened(n) \/ IssueRemoved(n)
      PROVE  TokenInv'
  <2>1. /\ marked' \subseteq listed' /\ listed' \subseteq Issue
        /\ removals' \in 0..MaxRemovals
    BY <1>6, <1>a DEF IssueOpened, IssueRemoved, ClientTypeOK
  <2>2. lost' \in [Calls -> BOOLEAN]
    BY <1>6, <1>a, Zenon DEF IssueOpened, IssueRemoved, ClientTypeOK, search
  <2>3. UNCHANGED <<cached, at, token, waiting, page, there>>
    BY <1>6 DEF IssueOpened, IssueRemoved, search
  <2> QED
    BY <2>1, <2>2, <2>3, <1>a DEF TokenInv, ClientTypeOK, Lives, Pending
<1>7. CASE ClientTick
  <2>1. cached' \in 0..Life
    BY <1>7, <1>a DEF ClientTick, ClientTypeOK, Less
  <2>2. ASSUME NEW c \in Calls
        PROVE  /\ token'[c] = Less(token[c]) /\ token[c] \in 0..Life
               /\ ~waiting[c] /\ waiting'[c] = (at[c] \in Exchanges) /\ at'[c] = at[c]
    BY <1>7, <1>a DEF ClientTick, ClientTypeOK
  <2>3. token' \in [Calls -> 0..Life]
    BY <1>7, <2>2, <1>a DEF ClientTick, Less
  <2>4. waiting' \in [Calls -> BOOLEAN]
    BY <1>7 DEF ClientTick
  <2>5. ClientTypeOK'
    BY <1>7, <2>1, <2>3, <2>4, <1>a DEF ClientTick, ClientTypeOK, repository, search
  <2>6. ASSUME NEW c \in Calls
        PROVE  /\ at'[c] \in Ends \union {"cache"} => token'[c] = 0
               /\ at'[c] = "fill" => token'[c] = 0 \/ token'[c] + 1 >= Life
               /\ at'[c] = "first" => token'[c] >= 1
               /\ at'[c] \in Exchanges => waiting'[c]
    <3>1. Pending(c) = 1
      BY <2>2 DEF Pending
    <3>2. at'[c] \in Exchanges => waiting'[c]
      BY <2>2
    <3>3. /\ at[c] \in Ends \union {"cache"} => token[c] = 0
          /\ at[c] = "fill" => token[c] = 0 \/ token[c] + 1 >= Life + 1
          /\ at[c] = "first" => token[c] >= 2
      BY <3>1, <1>a DEF Lives
    <3>4. token[c] \in 0..Life /\ token'[c] = Less(token[c]) /\ at'[c] = at[c]
      BY <2>2
    <3> QED
      BY <3>2, <3>3, <3>4, <1>a DEF Less
  <2>7. Lives'
    BY <2>6, <1>a DEF Lives, Pending, Exchanges
  <2> QED
    BY <2>5, <2>7 DEF TokenInv
<1>8. CASE UNCHANGED clientVars
  BY <1>8, <1>a DEF clientVars, TokenInv, ClientTypeOK, Lives, Pending
<1> QED
  BY <1>1, <1>2, <1>3, <1>4, <1>5, <1>6, <1>7, <1>8 DEF ClientNext, CallStep

LEMMA TokenInvariant == ClientSpec => []TokenInv
BY TokenInit, TokenStep, PTL DEF ClientSpec

\* The first exchange of a call never has an expired token, however many
\* calls fill the cache and in whatever order the answers come, as long as a
\* token lives for a tick more than the margin.
THEOREM TokensOutliveTheCache == ClientSpec => []TokenLasts
<1>1. TokenInv => TokenLasts
  BY DEF TokenInv, ClientTypeOK, Lives, Pending, TokenLasts
<1> QED
  BY <1>1, TokenInvariant, PTL

-----------------------------------------------------------------------------
(***************************************************************************)
(* GitHubClient: the pages of a search.                                    *)
(***************************************************************************)

\* Place of n among the numbers of a list, the highest first.
Place(list, n) == Cardinality({m \in list : m >= n})

LEMMA IssuesFinite == ASSUME ClientTypeOK PROVE IsFiniteSet(listed) /\ listed \subseteq Nat
<1>1. IsFiniteSet(Issue) /\ Issue \subseteq Nat
  BY FS_Interval, GitHubClientAssumption DEF Issue
<1> QED
  BY <1>1, FS_Subset DEF ClientTypeOK

LEMMA PlaceType ==
  ASSUME NEW list \in SUBSET Nat, IsFiniteSet(list), NEW n \in list
  PROVE  Place(list, n) \in 1..Cardinality(list)
<1> DEFINE above == {m \in list : m >= n}
<1>1. /\ IsFiniteSet(above) /\ Cardinality(above) <= Cardinality(list)
      /\ Cardinality(above) \in Nat /\ Cardinality(list) \in Nat
  BY FS_Subset, FS_CardinalityType
<1>2. Cardinality(above) # 0
  <2>1. n \in above
    OBVIOUS
  <2> QED
    BY <1>1, <2>1, FS_EmptySet
<1> QED
  BY <1>1, <1>2 DEF Place

\* A higher number has an earlier place.
LEMMA PlacesFall ==
  ASSUME NEW list \in SUBSET Nat, IsFiniteSet(list),
         NEW m \in list, NEW n \in list, m < n
  PROVE  Place(list, n) < Place(list, m)
<1> DEFINE above(x) == {y \in list : y >= x}
<1>1. above(n) \subseteq above(m) /\ m \in above(m) /\ m \notin above(n)
  <2>1. m \in Nat /\ n \in Nat /\ ~(m >= n) /\ m >= m
    OBVIOUS
  <2>2. ASSUME NEW y \in list, y >= n
        PROVE  y >= m
    BY <2>1, <2>2
  <2> QED
    BY <2>1, <2>2
<1>2. IsFiniteSet(above(m)) /\ IsFiniteSet(above(n))
  BY FS_Subset
<1>3. /\ Cardinality(above(n)) <= Cardinality(above(m))
      /\ Cardinality(above(n)) # Cardinality(above(m))
  BY <1>1, <1>2, FS_Subset
<1> QED
  BY <1>2, <1>3, FS_CardinalityType DEF Place

\* So every place is taken, by one number.
LEMMA PlacesBiject ==
  ASSUME NEW list \in SUBSET Nat, IsFiniteSet(list)
  PROVE  [n \in list |-> Place(list, n)] \in Bijection(list, 1..Cardinality(list))
<1> DEFINE f == [n \in list |-> Place(list, n)]
           N == Cardinality(list)
<1>1. N \in Nat
  BY FS_CardinalityType
<1>2. f \in [list -> 1..N]
  BY PlaceType
<1>3. ASSUME NEW m \in list, NEW n \in list, f[m] = f[n]
      PROVE  m = n
  <2>1. Place(list, m) = Place(list, n) /\ Place(list, n) \in Nat /\ m \in Nat /\ n \in Nat
    BY <1>3, <1>2, PlaceType
  <2>2. ~(m < n) /\ ~(n < m)
    BY <2>1, PlacesFall
  <2> QED
    BY <2>1, <2>2
<1>4. f \in Injection(list, 1..N)
  BY <1>2, <1>3 DEF Injection, IsInjective
<1>5. IsFiniteSet(1..N) /\ Cardinality(1..N) = N
  BY <1>1, FS_Interval
<1>6. f \in Surjection(list, 1..N)
  BY <1>4, <1>5, FS_Injection
<1> QED
  BY <1>4, <1>6 DEF Bijection

\* A range of places that are all taken has as many numbers as places.
LEMMA PlacesFull ==
  ASSUME NEW list \in SUBSET Nat, IsFiniteSet(list),
         NEW lo \in Nat \ {0}, NEW hi \in Nat, lo <= hi, hi <= Cardinality(list)
  PROVE  Cardinality({n \in list : Place(list, n) \in lo..hi}) = hi - lo + 1
<1> DEFINE range == {n \in list : Place(list, n) \in lo..hi}
           f == [n \in list |-> Place(list, n)]
           g == [n \in range |-> Place(list, n)]
<1>1. /\ Cardinality(list) \in Nat
      /\ \A m, n \in list : Place(list, m) = Place(list, n) => m = n
      /\ \A r \in 1..Cardinality(list) : \E n \in list : Place(list, n) = r
  <2>1. f \in Bijection(list, 1..Cardinality(list)) /\ \A n \in list : f[n] = Place(list, n)
    BY PlacesBiject
  <2> HIDE DEF f
  <2>2. /\ DOMAIN f = list
        /\ \A m, n \in DOMAIN f : f[m] = f[n] => m = n
        /\ \A r \in 1..Cardinality(list) : \E n \in list : f[n] = r
    BY <2>1 DEF Bijection, Injection, IsInjective, Surjection
  <2>3. Cardinality(list) \in Nat
    BY FS_CardinalityType
  <2> QED
    BY <2>1, <2>2, <2>3
<1>2. g \in [range -> lo..hi]
  OBVIOUS
<1>3. g \in Injection(range, lo..hi)
  BY <1>1, <1>2 DEF Injection, IsInjective
<1>4. g \in Surjection(range, lo..hi)
  <2>1. ASSUME NEW r \in lo..hi
        PROVE  \E n \in range : g[n] = r
    <3>1. r \in 1..Cardinality(list)
      BY <1>1
    <3>2. PICK n \in list : Place(list, n) = r
      BY <1>1, <3>1
    <3> QED
      BY <3>2
  <2> QED
    BY <1>2, <2>1 DEF Surjection
<1>5. IsFiniteSet(range) /\ ExistsBijection(range, lo..hi)
  BY <1>3, <1>4, FS_Subset DEF ExistsBijection, Bijection
<1>6. Cardinality(lo..hi) = Cardinality(range)
  <2> HIDE DEF range
  <2> QED
    BY <1>5, FS_Bijection
<1>7. Cardinality(lo..hi) = hi - lo + 1
  BY FS_Interval
<1> QED
  BY <1>6, <1>7

\* A page is full when an issue has its place behind it.
LEMMA PagesBeforeAreFull ==
  ASSUME ClientTypeOK, NEW p \in Nat \ {0}, NEW m \in listed, Rank(m) > p * PageSize
  PROVE  ~LastPage(p)
<1>1. IsFiniteSet(listed) /\ listed \in SUBSET Nat
  BY IssuesFinite
<1>2. \A n \in listed : Rank(n) = Place(listed, n)
  BY DEF Rank, Place
<1>3. Cardinality(listed) \in Nat /\ Rank(m) <= Cardinality(listed)
  BY <1>1, <1>2, PlaceType, FS_CardinalityType
<1> DEFINE lo == (p - 1) * PageSize + 1
           hi == p * PageSize
<1>4. PageSize \in Nat \ {0}
  BY GitHubClientAssumption
<1>5. /\ lo \in Nat \ {0} /\ hi \in Nat /\ lo <= hi /\ hi - lo + 1 = PageSize
  <2> DEFINE q == (p - 1) * PageSize
  <2>1. q \in Nat /\ p * PageSize = q + PageSize
    BY <1>4
  <2> HIDE DEF q
  <2>2. q + 1 \in Nat \ {0} /\ q + PageSize \in Nat /\ q + 1 <= q + PageSize
        /\ (q + PageSize) - (q + 1) + 1 = PageSize
    BY <1>4, <2>1
  <2> QED
    BY <2>1, <2>2 DEF q
<1>6. hi <= Cardinality(listed)
  <2>1. Rank(m) \in Nat
    BY <1>1, <1>2, PlaceType, FS_CardinalityType
  <2> QED
    BY <1>3, <1>5, <2>1
<1> HIDE DEF lo, hi
<1>7. Cardinality({n \in listed : Place(listed, n) \in lo..hi}) = hi - lo + 1
  BY <1>1, <1>5, <1>6, PlacesFull
<1>8. {n \in listed : Place(listed, n) \in lo..hi} = Page(p)
  BY <1>2 DEF Page, lo, hi
<1>9. Cardinality(Page(p)) = PageSize
  BY <1>5, <1>7, <1>8, Zenon
<1> QED
  BY <1>4, <1>9 DEF LastPage

Searching == {"cache", "fill", "first", "next"}

\* An issue with the marker has its place on the page to fetch or behind it.
Ahead(c) == \E m \in marked : Rank(m) > (page[c] - 1) * PageSize

\* A search that began with an issue to find, and lost none since, still has
\* one before it, until it is found or the search fails.
Truthful(c) ==
  /\ page[c] >= 1
  /\ at[c] # "next" => page[c] = 1
  /\ there[c] /\ ~lost[c] => at[c] # "notFound" /\ (at[c] \in Searching => Ahead(c))

SearchInv == ClientTypeOK /\ \A c \in Calls : Truthful(c)

LEMMA SearchInit == ClientInit => SearchInv
<1>1. ClientInit => ClientTypeOK
  BY TokenInit DEF TokenInv
<1> QED
  BY <1>1 DEF ClientInit, SearchInv, Truthful

\* New issues have higher numbers, so the places of the others only grow.
LEMMA PlacesGrow ==
  ASSUME ClientTypeOK, ClientTypeOK', listed \subseteq listed', NEW m \in listed
  PROVE  Rank(m) \in Nat \ {0} /\ Rank(m)' \in Nat /\ Rank(m) <= Rank(m)'
<1>1. /\ IsFiniteSet(listed) /\ listed \in SUBSET Nat
      /\ IsFiniteSet(Issue) /\ listed' \subseteq Issue
  <2>1. IsFiniteSet(Issue)
    BY FS_Interval, GitHubClientAssumption DEF Issue
  <2> QED
    BY <2>1, IssuesFinite DEF ClientTypeOK
<1>2. IsFiniteSet(listed')
  BY <1>1, FS_Subset
<1> DEFINE old == {x \in listed : x >= m}
           new == {x \in listed' : x >= m}
<1>3. IsFiniteSet(new) /\ old \in SUBSET new
  BY <1>2, FS_Subset
<1>4. Cardinality(old) <= Cardinality(new) /\ Cardinality(new) \in Nat
  BY <1>3, FS_Subset, FS_CardinalityType
<1>5. Rank(m) = Place(listed, m) /\ Rank(m) = Cardinality(old) /\ Rank(m)' = Cardinality(new)
  BY DEF Rank, Place
<1>6. Rank(m) \in Nat \ {0}
  <2>1. Cardinality(listed) \in Nat
    BY <1>1, FS_CardinalityType
  <2>2. Rank(m) \in 1..Cardinality(listed)
    BY <1>1, <1>5, PlaceType
  <2> QED
    BY <2>1, <2>2
<1> QED
  BY <1>4, <1>5, <1>6

\* Fetching a page leaves what is on none of the pages so far ahead.
LEMMA PageTurned ==
  ASSUME ClientTypeOK, NEW c \in Calls, page[c] >= 1, Ahead(c),
         Page(page[c]) \intersect marked = {}
  PROVE  /\ \E m \in marked : Rank(m) > page[c] * PageSize
         /\ ~LastPage(page[c])
<1>1. PICK m \in marked : Rank(m) > (page[c] - 1) * PageSize
  BY DEF Ahead
<1>2. page[c] \in Nat \ {0} /\ m \in listed /\ PageSize \in Nat \ {0}
  BY GitHubClientAssumption DEF ClientTypeOK
<1>3. Rank(m) \in Nat
  <2>1. IsFiniteSet(listed) /\ listed \in SUBSET Nat
    BY IssuesFinite
  <2> QED
    BY <1>2, <2>1, PlaceType, FS_CardinalityType DEF Rank, Place
<1>4. Rank(m) \notin (page[c] - 1) * PageSize + 1 .. page[c] * PageSize
  BY <1>2 DEF Page
<1>5. (page[c] - 1) * PageSize \in Int /\ page[c] * PageSize \in Int
  BY <1>2
<1>6. Rank(m) > page[c] * PageSize
  BY <1>1, <1>3, <1>4, <1>5
<1> QED
  BY <1>2, <1>6, PagesBeforeAreFull

\* Calls that do not move while the repository rests.
LEMMA OthersTruthful ==
  ASSUME NEW c \in Calls, Truthful(c), UNCHANGED repository, page'[c] = page[c],
         at'[c] = at[c], there'[c] = there[c], lost'[c] = lost[c]
  PROVE  Truthful(c)'
BY DEF Truthful, Ahead, Rank, repository

LEMMA SearchStep ==
  ASSUME SearchInv, TokenInv', [ClientNext]_clientVars
  PROVE  SearchInv'
<1>a. ClientTypeOK /\ ClientTypeOK' /\ \A c \in Calls : Truthful(c)
  BY DEF SearchInv, TokenInv
<1> SUFFICES \A d \in Calls : Truthful(d)'
  BY <1>a DEF SearchInv
<1>b. /\ at \in [Calls -> Steps] /\ page \in [Calls -> Nat]
      /\ there \in [Calls -> BOOLEAN] /\ lost \in [Calls -> BOOLEAN]
  BY <1>a DEF ClientTypeOK
<1>1. ASSUME NEW c \in Calls, FindByMarkerCalled(c), NEW d \in Calls
      PROVE  Truthful(d)'
  <2>1. CASE d # c
    BY <1>1, <1>a, <1>b, <2>1, OthersTruthful DEF FindByMarkerCalled, Proceed
  <2>2. CASE d = c
    <3>1. /\ at[c] \in Ends /\ at'[c] = "cache" /\ page'[c] = page[c]
          /\ there'[c] <=> marked # {}
          /\ UNCHANGED repository
      BY <1>1, <1>b DEF FindByMarkerCalled, Proceed
    <3>2. page'[c] = 1
      BY <1>a, <3>1 DEF Truthful, Ends
    <3>3. ASSUME NEW m \in marked
          PROVE  Ahead(c)'
      <4>1. Rank(m) \in Nat \ {0} /\ Rank(m)' \in Nat /\ Rank(m) <= Rank(m)'
        BY <1>a, <3>1, PlacesGrow DEF ClientTypeOK, repository
      <4>2. (1 - 1) * PageSize = 0
        BY GitHubClientAssumption
      <4>3. Rank(m)' > (page'[c] - 1) * PageSize
        BY <3>2, <4>1, <4>2
      <4> QED
        BY <3>1, <4>3 DEF Ahead, repository
    <3> QED
      BY <2>2, <3>1, <3>2, <3>3 DEF Truthful
  <2> QED
    BY <2>1, <2>2
<1>2. ASSUME NEW c \in Calls, ReadCache(c) \/ TokenMade(c) \/ FillCache(c), NEW d \in Calls
      PROVE  Truthful(d)'
  <2>1. UNCHANGED <<repository, page, there, lost>>
    BY <1>2 DEF ReadCache, TokenMade, FillCache, search
  <2>2. CASE d # c
    <3>1. at'[d] = at[d]
      BY <1>2, <1>b, <2>2 DEF ReadCache, TokenMade, FillCache, Proceed
    <3> QED
      BY <1>a, <2>1, <3>1, OthersTruthful
  <2>3. CASE d = c
    <3>1. at[c] \in {"cache", "fill"} /\ at'[c] \in {"fill", "first"}
      BY <1>2, <1>b DEF ReadCache, TokenMade, FillCache, Proceed
    <3>2. Ahead(c) => Ahead(c)'
      BY <2>1 DEF Ahead, Rank, repository
    <3> QED
      BY <1>a, <2>1, <2>3, <3>1, <3>2 DEF Truthful, Searching
  <2> QED
    BY <2>2, <2>3
<1>3. ASSUME NEW c \in Calls, FetchPage(c) \/ ExchangeFails(c), NEW d \in Calls
      PROVE  Truthful(d)'
  <2>1. UNCHANGED <<repository, there, lost>>
    BY <1>3 DEF FetchPage, ExchangeFails
  <2>2. CASE d # c
    <3>1. at'[d] = at[d] /\ page'[d] = page[d]
      BY <1>3, <1>b, <2>2 DEF FetchPage, ExchangeFails, End, NextPage, Proceed
    <3> QED
      BY <1>a, <2>1, <3>1, OthersTruthful
  <2>3. CASE d = c /\ (End(c, "found") \/ End(c, "failed"))
    <3>1. page'[c] = 1 /\ at'[c] \in {"found", "failed"}
      BY <2>3, <1>b DEF End, Proceed
    <3> QED
      BY <2>3, <3>1 DEF Truthful, Searching
  <2>4. ASSUME d = c, FetchPage(c), Page(page[c]) \intersect marked = {},
               \/ LastPage(page[c]) /\ End(c, "notFound")
               \/ ~LastPage(page[c]) /\ NextPage(c)
        PROVE  Truthful(c)'
    <3>1. at[c] \in Searching /\ page[c] >= 1 /\ page[c] \in Nat
      BY <2>4, <1>a, <1>b DEF FetchPage, Searching, Truthful
    <3>2. there[c] /\ ~lost[c] => /\ \E m \in marked : Rank(m) > page[c] * PageSize
                                  /\ ~LastPage(page[c])
      BY <1>a, <2>4, <3>1, PageTurned DEF Truthful
    <3>3. CASE LastPage(page[c]) /\ End(c, "notFound")
      <4>1. page'[c] = 1 /\ at'[c] = "notFound"
        BY <3>3, <1>b DEF End, Proceed
      <4> QED
        BY <2>1, <3>2, <3>3, <4>1 DEF Truthful, Searching
    <3>4. CASE NextPage(c)
      <4>1. page'[c] = page[c] + 1 /\ at'[c] = "next"
        BY <3>4, <1>b DEF NextPage, Proceed
      <4>2. page'[c] - 1 = page[c] /\ page'[c] >= 1
        BY <3>1, <4>1
      <4>3. there[c] /\ ~lost[c] => Ahead(c)'
        BY <2>1, <3>2, <4>2 DEF Ahead, Rank, repository
      <4> QED
        BY <2>1, <4>1, <4>2, <4>3 DEF Truthful, Searching
    <3> QED
      BY <2>4, <3>3, <3>4
  <2> QED
    BY <1>3, <2>2, <2>3, <2>4 DEF FetchPage, ExchangeFails
<1>4. ASSUME NEW n \in Issue, IssueOpened(n), NEW d \in Calls
      PROVE  Truthful(d)'
  <2>1. /\ listed \subseteq listed' /\ marked \subseteq marked'
        /\ UNCHANGED <<at, page, there, lost>>
    BY <1>4 DEF IssueOpened, search
  <2>2. ASSUME Ahead(d)
        PROVE  Ahead(d)'
    <3>1. PICK m \in marked : Rank(m) > (page[d] - 1) * PageSize
      BY <2>2 DEF Ahead
    <3>2. Rank(m) \in Nat /\ Rank(m)' \in Nat /\ Rank(m) <= Rank(m)'
      BY <1>a, <2>1, PlacesGrow DEF ClientTypeOK
    <3>3. (page[d] - 1) * PageSize \in Int
      BY <1>b, GitHubClientAssumption
    <3>4. Rank(m)' > (page[d] - 1) * PageSize
      BY <3>1, <3>2, <3>3
    <3> QED
      BY <2>1, <3>4 DEF Ahead
  <2> QED
    BY <1>a, <2>1, <2>2 DEF Truthful
<1>5. ASSUME NEW n \in Issue, IssueRemoved(n), NEW d \in Calls
      PROVE  Truthful(d)'
  <2>1. UNCHANGED <<at, page, there>> /\ (lost'[d] <=> at[d] \notin Ends \/ lost[d])
    BY <1>5 DEF IssueRemoved
  <2> QED
    BY <1>a, <2>1 DEF Truthful, Searching, Ends
<1>6. CASE ClientTick \/ UNCHANGED clientVars
  BY <1>6, <1>a, OthersTruthful DEF ClientTick, search, clientVars, repository
<1> QED
  BY <1>1, <1>2, <1>3, <1>4, <1>5, <1>6 DEF ClientNext, CallStep

LEMMA SearchInvariant == ClientSpec => []SearchInv
BY SearchInit, SearchStep, TokenInvariant, PTL DEF ClientSpec

\* FindByMarker only says that there is no issue with the marker when there
\* was none as it began, or when one was removed meanwhile, for any number of
\* issues, pages and calls: issues that others open never push a marked one
\* past the search, because every page before it is full.
THEOREM MarkersAreFound == ClientSpec => []NotFoundIsTrue
<1>1. SearchInv => NotFoundIsTrue
  BY DEF SearchInv, Truthful, NotFoundIsTrue
<1> QED
  BY <1>1, SearchInvariant, PTL

-----------------------------------------------------------------------------
(***************************************************************************)
(* Startup: what the statements make of the table of apps.                  *)
(***************************************************************************)
AreRows(table) == \A a \in DOMAIN table : table[a] \in Row

LEMMA ProjectsFilled ==
  ASSUME NEW table, AreRows(table)
  PROVE  LET new == SetAll(table, "project") IN
         /\ DOMAIN new = DOMAIN table /\ AreRows(new)
         /\ \A a \in DOMAIN table : /\ new[a].owner = table[a].owner
                                   /\ new[a].token = table[a].token
                                   /\ new[a].slug = table[a].slug
                                   /\ new[a].project
BY DEF AreRows, SetAll, Row

LEMMA SlugsFilled ==
  ASSUME NEW table, AreRows(table)
  PROVE  LET new == SetAll(table, "slug") IN
         /\ DOMAIN new = DOMAIN table /\ AreRows(new)
         /\ \A a \in DOMAIN table : /\ new[a].owner = table[a].owner
                                   /\ new[a].token = table[a].token
                                   /\ new[a].project = table[a].project
                                   /\ new[a].slug
BY DEF AreRows, SetAll, Row

\* AssignLegacyProjects writes the owner, of rows that have none.
LEMMA OnlyUnowned ==
  ASSUME NEW table, AreRows(table), NEW u \in Owners
  PROVE  LET new == Assigned(table, u) IN
         /\ DOMAIN new = DOMAIN table /\ AreRows(new)
         /\ \A a \in DOMAIN table :
              /\ new[a].owner = IF table[a].owner = Nobody THEN u ELSE table[a].owner
              /\ new[a].token = table[a].token
              /\ new[a].slug = table[a].slug
              /\ new[a].project = table[a].project
BY DEF AreRows, Assigned, Row

\* UpsertApp keeps the owner of a row that is there.
LEMMA OwnerSurvives ==
  ASSUME NEW table, AreRows(table), NEW a
  PROVE  LET new == Written(table, a) IN
         /\ DOMAIN new = DOMAIN table \union {a} /\ AreRows(new)
         /\ \A n \in DOMAIN table : new[n].owner = table[n].owner
         /\ \A n \in DOMAIN table \ {a} : new[n] = table[n]
         /\ a \notin DOMAIN table => new[a].owner = Nobody
         /\ new[a].slug /\ new[a].project /\ new[a].token
BY DEF AreRows, Written, Row, Owners

\* CreateProject adds a row.
Added(table, a, u) ==
  [n \in DOMAIN table \union {a} |-> IF n # a THEN table[n]
     ELSE [owner |-> u, slug |-> TRUE, project |-> TRUE, token |-> FALSE]]

\* ClearLegacyTokens of a process p
Cleared(table, p) ==
  [a \in DOMAIN table |->
     IF conf[p].disable /\ legacyOwner[p] # Nobody /\ table[a].owner = legacyOwner[p]
       THEN [table[a] EXCEPT !.token = FALSE] ELSE table[a]]

LEMMA TokensCleared ==
  ASSUME NEW table, AreRows(table), NEW p
  PROVE  LET new == Cleared(table, p) IN
         /\ DOMAIN new = DOMAIN table /\ AreRows(new)
         /\ \A a \in DOMAIN table :
              /\ new[a].owner = table[a].owner
              /\ new[a].slug = table[a].slug /\ new[a].project = table[a].project
              /\ new[a].token => /\ table[a].token
                                 /\ ~(conf[p].disable /\ legacyOwner[p] # Nobody
                                       /\ table[a].owner = legacyOwner[p])
BY DEF AreRows, Cleared, Row

-----------------------------------------------------------------------------
(***************************************************************************)
(* Startup: migration, owners and tokens.                                  *)
(***************************************************************************)

\* The halves of the type invariant: the shared file and the processes.
DatabaseTypeOK ==
  /\ DOMAIN apps \subseteq AppNames /\ AreRows(apps)
  /\ schema \subseteq Columns \union {"index"}
  /\ linkedTo \subseteq groups /\ groups \subseteq DOMAIN apps
  /\ users \subseteq Users
ProcessTypeOK ==
  /\ phase \in [Processes -> StartSteps]
  /\ conf \in [Processes -> Confs]
  /\ left \in [Processes -> SUBSET Slugs]
  /\ legacyOwner \in [Processes -> Owners]
  /\ signing \in [Processes -> BOOLEAN]
  /\ late \in [Processes -> SUBSET AppNames]

LEMMA TypeHalves ==
  /\ StartupTypeOK <=> DatabaseTypeOK /\ ProcessTypeOK
  /\ StartupTypeOK' <=> DatabaseTypeOK' /\ ProcessTypeOK'
BY DEF StartupTypeOK, DatabaseTypeOK, ProcessTypeOK, AreRows

\* What the statements of its start have done by the time a process is at a
\* step.
AfterProjects == {"slugs", "groups", "index", "owner", "assign", "upsert", "clear", "serving"}
AfterSlugs    == AfterProjects \ {"slugs"}
AfterGroups   == AfterSlugs \ {"groups"}

HaveProjects == \A a \in DOMAIN apps : apps[a].project
HaveSlugs    == \A a \in DOMAIN apps : apps[a].slug
GroupsLinked == linkedTo = groups

DoneAt(step) ==
  /\ step \in AfterProjects => HaveProjects
  /\ step \in AfterSlugs => HaveSlugs
  /\ step \in AfterGroups => GroupsLinked

Migrated == \A p \in Processes : DoneAt(phase[p])

MigrationInv == StartupTypeOK /\ Migrated

LEMMA MigrationInit == StartupInit => MigrationInv
<1> SUFFICES ASSUME StartupInit PROVE MigrationInv
  OBVIOUS
<1>1. PICK old \in SUBSET Slugs :
        /\ apps = [a \in {Environment} \X old |-> OldRow]
        /\ groups \in SUBSET DOMAIN apps
        /\ schema = IF old = {} THEN Columns ELSE {}
  BY DEF StartupInit
<1>2. DOMAIN apps = {Environment} \X old /\ \A a \in DOMAIN apps : apps[a] = OldRow
  BY <1>1
<1>3. OldRow \in Row
  BY DEF OldRow, Row, Owners
<1>4. DOMAIN apps \subseteq AppNames
  BY <1>2 DEF AppNames
<1>5. DatabaseTypeOK
  BY <1>1, <1>2, <1>3, <1>4 DEF StartupInit, DatabaseTypeOK, AreRows
<1>6. ProcessTypeOK
  BY DEF StartupInit, ProcessTypeOK, StartSteps, Confs, Unset, Owners
<1>7. Migrated
  BY DEF StartupInit, Migrated, DoneAt, AfterProjects, AfterSlugs, AfterGroups
<1> QED
  BY <1>5, <1>6, <1>7, TypeHalves DEF MigrationInv

\* A step of one process that undoes nothing, and after which what its next
\* step relies on is done.
LEMMA OneGoesOn ==
  ASSUME MigrationInv, NEW p \in Processes, NEW step \in StartSteps, GoTo(p, step),
         HaveProjects => HaveProjects', HaveSlugs => HaveSlugs', GroupsLinked => GroupsLinked',
         DoneAt(step)'
  PROVE  Migrated' /\ phase' \in [Processes -> StartSteps]
<1>1. phase' \in [Processes -> StartSteps]
  BY DEF GoTo, MigrationInv, StartupTypeOK
<1>2. ASSUME NEW q \in Processes
      PROVE  DoneAt(phase[q])'
  <2>1. CASE q = p
    <3>1. phase'[q] = step
      BY <2>1 DEF GoTo, MigrationInv, StartupTypeOK
    <3> QED
      BY <3>1 DEF DoneAt
  <2>2. CASE q # p
    <3>1. phase'[q] = phase[q]
      BY <2>2 DEF GoTo, MigrationInv, StartupTypeOK
    <3> QED
      BY <3>1 DEF DoneAt, MigrationInv, Migrated
  <2> QED
    BY <2>1, <2>2
<1> QED
  BY <1>1, <1>2 DEF Migrated

\* The process forgets, the database stays.
LEMMA DownStep ==
  ASSUME MigrationInv, NEW p \in Processes, Down(p), UNCHANGED database
  PROVE  MigrationInv'
<1>1. Migrated' /\ phase' \in [Processes -> StartSteps]
  <2>1. /\ HaveProjects => HaveProjects'
        /\ HaveSlugs => HaveSlugs'
        /\ GroupsLinked => GroupsLinked'
    BY DEF database, HaveProjects, HaveSlugs, GroupsLinked
  <2>2. DoneAt("down")'
    BY DEF DoneAt, AfterProjects, AfterSlugs, AfterGroups
  <2> QED
    BY <2>1, <2>2, OneGoesOn DEF Down, StartSteps
<1>2. ProcessTypeOK'
  BY <1>1, TypeHalves DEF MigrationInv, ProcessTypeOK, Down, Confs, Unset, Owners
<1>3. DatabaseTypeOK'
  BY TypeHalves DEF MigrationInv, DatabaseTypeOK, AreRows, database
<1> QED
  BY <1>1, <1>2, <1>3, TypeHalves DEF MigrationInv

\* What the statements of a step change, and what they do not.
LEMMA MigrationStep ==
  ASSUME MigrationInv, [StartupNext]_startupVars
  PROVE  MigrationInv'
<1>a. DatabaseTypeOK /\ ProcessTypeOK /\ AreRows(apps) /\ Migrated
  BY TypeHalves DEF MigrationInv, DatabaseTypeOK
<1> DEFINE Keeps == /\ HaveProjects => HaveProjects'
                    /\ HaveSlugs => HaveSlugs'
                    /\ GroupsLinked => GroupsLinked'
<1>b. ASSUME NEW p \in Processes, NEW step \in StartSteps, GoTo(p, step), Keeps, DoneAt(step)',
             DatabaseTypeOK', UNCHANGED process
      PROVE  MigrationInv'
  <2>1. Migrated' /\ phase' \in [Processes -> StartSteps]
    BY <1>b, OneGoesOn
  <2>2. ProcessTypeOK'
    BY <1>a, <1>b, <2>1 DEF ProcessTypeOK, process
  <2> QED
    BY <1>b, <2>1, <2>2, TypeHalves DEF MigrationInv
<1>c. ASSUME UNCHANGED phase, Keeps, DatabaseTypeOK', ProcessTypeOK'
      PROVE  MigrationInv'
  BY <1>a, <1>c, TypeHalves DEF MigrationInv, Migrated, DoneAt
<1>d. \A p \in Processes : DoneAt(phase[p])
  BY <1>a DEF Migrated
<1> USE DEF AfterProjects, AfterSlugs, AfterGroups
<1>1. ASSUME NEW p \in Processes, Start(p) \/ ColumnsThere(p) \/ CreateIndex(p) \/ AppsWritten(p)
      PROVE  MigrationInv'
  <2>1. /\ UNCHANGED <<apps, groups, linkedTo, users, process>>
        /\ schema' \in {schema, schema \union {"index"}}
    BY <1>1 DEF Start, ColumnsThere, CreateIndex, AppsWritten, Begin, database
  <2>2. Keeps /\ DatabaseTypeOK'
    BY <2>1, <1>a DEF HaveProjects, HaveSlugs, GroupsLinked, DatabaseTypeOK, AreRows
  <2>3. \/ GoTo(p, "columns") \/ GoTo(p, "projects")
        \/ phase[p] = "index" /\ GoTo(p, "owner")
        \/ phase[p] = "upsert" /\ GoTo(p, "clear")
    BY <1>1 DEF Start, ColumnsThere, CreateIndex, AppsWritten, Begin, After
  <2>4. DoneAt("columns")' /\ DoneAt("projects")'
    BY DEF DoneAt
  <2>5. phase[p] \in {"index", "upsert"} => DoneAt("owner")' /\ DoneAt("clear")'
    BY <2>2, <1>d DEF DoneAt
  <2> QED
    BY <2>1, <2>2, <2>3, <2>4, <2>5, <1>b DEF StartSteps
<1>2. ASSUME NEW p \in Processes, FillProjects(p)
      PROVE  MigrationInv'
  <2>1. /\ DOMAIN apps' = DOMAIN apps /\ AreRows(apps')
        /\ \A a \in DOMAIN apps : apps'[a].project /\ apps'[a].slug = apps[a].slug
    BY <1>2, <1>a, ProjectsFilled DEF FillProjects
  <2>2. GoTo(p, "slugs") /\ UNCHANGED <<schema, groups, linkedTo, users, process>>
    BY <1>2 DEF FillProjects, Begin, After
  <2>3. Keeps /\ DatabaseTypeOK' /\ DoneAt("slugs")'
    BY <2>1, <2>2, <1>a DEF HaveProjects, HaveSlugs, GroupsLinked, DatabaseTypeOK, DoneAt
  <2> QED
    BY <2>2, <2>3, <1>b DEF StartSteps
<1>3. ASSUME NEW p \in Processes, FillSlugs(p)
      PROVE  MigrationInv'
  <2>1. /\ DOMAIN apps' = DOMAIN apps /\ AreRows(apps')
        /\ \A a \in DOMAIN apps : apps'[a].slug /\ apps'[a].project = apps[a].project
    BY <1>3, <1>a, SlugsFilled DEF FillSlugs
  <2>2. /\ phase[p] = "slugs" /\ GoTo(p, "groups")
        /\ UNCHANGED <<schema, groups, linkedTo, users, process>>
    BY <1>3 DEF FillSlugs, Begin, After
  <2>3. Keeps /\ DatabaseTypeOK'
    BY <2>1, <2>2, <1>a DEF HaveProjects, HaveSlugs, GroupsLinked, DatabaseTypeOK
  <2>4. DoneAt("groups")'
    BY <2>1, <2>2, <2>3, <1>d DEF DoneAt, HaveSlugs
  <2> QED
    BY <2>2, <2>3, <2>4, <1>b DEF StartSteps
<1>4. ASSUME NEW p \in Processes, FillGroups(p)
      PROVE  MigrationInv'
  <2>1. /\ phase[p] = "groups" /\ GoTo(p, "index")
        /\ UNCHANGED <<apps, schema, groups, users, process>>
        /\ linkedTo' = linkedTo \union {a \in groups : apps[a].project}
    BY <1>4 DEF FillGroups, Begin, After
  <2>2. HaveProjects /\ HaveSlugs
    BY <2>1, <1>d DEF DoneAt
  <2>3. linkedTo' = groups
    BY <2>1, <2>2, <1>a DEF HaveProjects, DatabaseTypeOK
  <2>4. Keeps /\ DatabaseTypeOK' /\ DoneAt("index")'
    BY <2>1, <2>2, <2>3, <1>a DEF HaveProjects, HaveSlugs, GroupsLinked, DatabaseTypeOK, AreRows,
                                  DoneAt
  <2> QED
    BY <2>1, <2>4, <1>b DEF StartSteps
<1>5. ASSUME NEW p \in Processes, NEW c \in Columns, AddColumn(p, c)
      PROVE  MigrationInv'
  <2>1. UNCHANGED <<apps, groups, linkedTo, users, phase, process>> /\ schema' = schema \union {c}
    BY <1>5 DEF AddColumn
  <2> QED
    BY <2>1, <1>a, <1>c DEF HaveProjects, HaveSlugs, GroupsLinked, DatabaseTypeOK, AreRows,
                            ProcessTypeOK, process
<1>6. ASSUME NEW p \in Processes, LookUpOwner(p)
      PROVE  MigrationInv'
  <2>1. PICK c \in Confs, names \in SUBSET Slugs :
          /\ phase[p] = "owner"
          /\ conf' = [conf EXCEPT ![p] = c] /\ left' = [left EXCEPT ![p] = names]
          /\ \/ /\ c.owner \in users /\ GoTo(p, "assign")
                /\ legacyOwner' = [legacyOwner EXCEPT ![p] = c.owner]
             \/ GoTo(p, "upsert") /\ UNCHANGED legacyOwner
          /\ UNCHANGED <<database, signing, late>>
    BY <1>6 DEF LookUpOwner
  <2>2. Keeps /\ DatabaseTypeOK'
    BY <2>1, <1>a DEF database, HaveProjects, HaveSlugs, GroupsLinked, DatabaseTypeOK, AreRows
  <2>3. DoneAt("assign")' /\ DoneAt("upsert")'
    BY <2>1, <2>2, <1>d DEF DoneAt
  <2>4. Migrated' /\ phase' \in [Processes -> StartSteps]
    BY <2>1, <2>2, <2>3, OneGoesOn DEF StartSteps
  <2>5. ProcessTypeOK'
    BY <2>1, <2>4, <1>a DEF ProcessTypeOK, DatabaseTypeOK, Owners
  <2> QED
    BY <2>2, <2>4, <2>5, TypeHalves DEF MigrationInv
<1>7. ASSUME NEW p \in Processes, OwnerMissing(p) \/ AssignFails(p) \/ ProcessDies(p)
      PROVE  MigrationInv'
  BY <1>7, DownStep DEF OwnerMissing, AssignFails, ProcessDies
<1>8. ASSUME NEW p \in Processes, AssignLegacyProjects(p)
      PROVE  MigrationInv'
  <2>1. /\ DOMAIN apps' = DOMAIN apps /\ AreRows(apps')
        /\ \A a \in DOMAIN apps : apps'[a].slug = apps[a].slug /\ apps'[a].project = apps[a].project
    <3>1. legacyOwner[p] \in Owners
      BY <1>a DEF ProcessTypeOK
    <3> QED
      BY <3>1, <1>8, <1>a, OnlyUnowned DEF AssignLegacyProjects
  <2>2. /\ phase[p] = "assign" /\ GoTo(p, "upsert")
        /\ UNCHANGED <<schema, groups, linkedTo, users, process>>
    BY <1>8 DEF AssignLegacyProjects, Begin, After
  <2>3. Keeps /\ DatabaseTypeOK'
    BY <2>1, <2>2, <1>a DEF HaveProjects, HaveSlugs, GroupsLinked, DatabaseTypeOK
  <2>4. DoneAt("upsert")'
    BY <2>2, <2>3, <1>d DEF DoneAt
  <2> QED
    BY <2>2, <2>3, <2>4, <1>b DEF StartSteps
<1>9. ASSUME NEW p \in Processes, NEW s \in Slugs, UpsertApp(p, s)
      PROVE  MigrationInv'
  <2> DEFINE a == <<Environment, s>>
  <2>1. a \in AppNames
    BY DEF AppNames
  <2>2. /\ apps' = Written(apps, a) /\ left' = [left EXCEPT ![p] = @ \ {s}]
        /\ late' = [q \in Processes |-> IF HasAssigned(q) /\ (q # p \/ a \notin DOMAIN apps)
                                          THEN late[q] \union {a} ELSE late[q]]
        /\ UNCHANGED <<schema, groups, linkedTo, users, phase, conf, legacyOwner, signing>>
    BY <1>9 DEF UpsertApp
  <2> HIDE DEF a
  <2>3. /\ DOMAIN apps' = DOMAIN apps \union {a} /\ AreRows(apps')
        /\ \A n \in DOMAIN apps \ {a} : apps'[n] = apps[n]
        /\ apps'[a].slug /\ apps'[a].project
    BY <2>2, <1>a, OwnerSurvives
  <2>4. Keeps /\ DatabaseTypeOK'
    BY <2>1, <2>2, <2>3, <1>a DEF HaveProjects, HaveSlugs, GroupsLinked, DatabaseTypeOK
  <2>5. ProcessTypeOK'
    BY <2>1, <2>2, <1>a DEF ProcessTypeOK
  <2> QED
    BY <2>2, <2>4, <2>5, <1>c
<1>10. ASSUME NEW p \in Processes, ClearLegacyTokens(p)
       PROVE  MigrationInv'
  <2>1. apps' = Cleared(apps, p)
    BY <1>10 DEF ClearLegacyTokens, Cleared
  <2>2. /\ DOMAIN apps' = DOMAIN apps /\ AreRows(apps')
        /\ \A a \in DOMAIN apps : apps'[a].slug = apps[a].slug /\ apps'[a].project = apps[a].project
    BY <2>1, <1>a, TokensCleared
  <2>3. /\ phase[p] = "clear" /\ GoTo(p, "serving")
        /\ late' = [late EXCEPT ![p] = {a \in DOMAIN apps \intersect @ : apps[a].owner = Nobody}]
        /\ UNCHANGED <<schema, groups, linkedTo, users, conf, left, legacyOwner, signing>>
    BY <1>10 DEF ClearLegacyTokens, After
  <2>4. Keeps /\ DatabaseTypeOK'
    BY <2>2, <2>3, <1>a DEF HaveProjects, HaveSlugs, GroupsLinked, DatabaseTypeOK
  <2>5. DoneAt("serving")'
    BY <2>3, <2>4, <1>d DEF DoneAt
  <2>6. Migrated' /\ phase' \in [Processes -> StartSteps]
    BY <2>3, <2>4, <2>5, OneGoesOn DEF StartSteps
  <2>7. ProcessTypeOK'
    BY <2>3, <2>6, <1>a DEF ProcessTypeOK
  <2> QED
    BY <2>4, <2>6, <2>7, TypeHalves DEF MigrationInv
<1>11. ASSUME NEW p \in Processes, NEW u \in Users, SignIn(p, u)
       PROVE  MigrationInv'
  <2>1. /\ UNCHANGED <<apps, schema, groups, linkedTo, phase, conf, left, legacyOwner, late>>
        /\ users' = users \union {u} /\ signing' = [signing EXCEPT ![p] = (u = conf[p].owner)]
    BY <1>11 DEF SignIn
  <2>2. Keeps /\ DatabaseTypeOK'
    BY <2>1, <1>a DEF HaveProjects, HaveSlugs, GroupsLinked, DatabaseTypeOK, AreRows
  <2>3. ProcessTypeOK'
    BY <2>1, <1>a DEF ProcessTypeOK
  <2> QED
    BY <2>1, <2>2, <2>3, <1>c
<1>12. ASSUME NEW p \in Processes, SignInAssigns(p)
       PROVE  MigrationInv'
  <2>1. /\ apps' = IF Unique(Assigned(apps, conf[p].owner)) THEN Assigned(apps, conf[p].owner) ELSE apps
        /\ signing' = [signing EXCEPT ![p] = FALSE]
        /\ UNCHANGED <<schema, groups, linkedTo, users, phase, conf, left, legacyOwner, late>>
    BY <1>12 DEF SignInAssigns
  <2>2. conf[p].owner \in Owners
    BY <1>a DEF ProcessTypeOK, Confs
  <2>3. /\ DOMAIN apps' = DOMAIN apps /\ AreRows(apps')
        /\ \A a \in DOMAIN apps : apps'[a].slug = apps[a].slug /\ apps'[a].project = apps[a].project
    BY <2>1, <2>2, <1>a, OnlyUnowned
  <2>4. Keeps /\ DatabaseTypeOK'
    BY <2>1, <2>3, <1>a DEF HaveProjects, HaveSlugs, GroupsLinked, DatabaseTypeOK
  <2>5. ProcessTypeOK'
    BY <2>1, <1>a DEF ProcessTypeOK
  <2> QED
    BY <2>1, <2>4, <2>5, <1>c
<1>13. ASSUME NEW p \in Processes, NEW u \in Owners, NEW s \in Slugs, CreateProject(p, u, s)
       PROVE  MigrationInv'
  <2> DEFINE a == <<u, s>>
  <2>1. a \in AppNames
    BY DEF AppNames
  <2>2. /\ a \notin DOMAIN apps /\ apps' = Added(apps, a, u)
        /\ UNCHANGED <<schema, groups, linkedTo, users, phase, process>>
    BY <1>13 DEF CreateProject, Added
  <2> HIDE DEF a
  <2>3. /\ DOMAIN apps' = DOMAIN apps \union {a} /\ AreRows(apps')
        /\ \A n \in DOMAIN apps : apps'[n] = apps[n]
        /\ apps'[a].slug /\ apps'[a].project
    <3>1. /\ DOMAIN apps' = DOMAIN apps \union {a}
          /\ \A n \in DOMAIN apps : apps'[n] = apps[n]
          /\ apps'[a] = [owner |-> u, slug |-> TRUE, project |-> TRUE, token |-> FALSE]
      BY <2>2 DEF Added
    <3>2. apps'[a] \in Row /\ apps'[a].slug /\ apps'[a].project
      BY <3>1 DEF Row
    <3> QED
      BY <1>a, <3>1, <3>2 DEF AreRows
  <2>4. Keeps /\ DatabaseTypeOK'
    BY <2>1, <2>2, <2>3, <1>a DEF HaveProjects, HaveSlugs, GroupsLinked, DatabaseTypeOK
  <2>5. ProcessTypeOK'
    BY <2>2, <1>a DEF ProcessTypeOK, process
  <2> QED
    BY <2>2, <2>4, <2>5, <1>c
<1>14. CASE UNCHANGED startupVars
  BY <1>14 DEF startupVars, MigrationInv, StartupTypeOK, Migrated, DoneAt, HaveProjects, HaveSlugs,
               GroupsLinked
<1> QED
  BY <1>1, <1>2, <1>3, <1>4, <1>5, <1>6, <1>7, <1>8, <1>9, <1>10, <1>11, <1>12, <1>13, <1>14
     DEF StartupNext, Initialize

LEMMA MigrationInvariant == StartupSpec => []MigrationInv
BY MigrationInit, MigrationStep, PTL DEF StartupSpec

\* When a server listens, every project has its identity and slug and every
\* old group its project, wherever earlier starts died and whatever the other
\* processes do, for any number of projects and of processes.
THEOREM MigrationsFinish == StartupSpec => []MigrationCompletes
<1>1. MigrationInv => MigrationCompletes
  BY DEF MigrationInv, Migrated, DoneAt, HaveProjects, HaveSlugs, GroupsLinked,
         MigrationCompletes, AfterProjects, AfterSlugs, AfterGroups
<1> QED
  BY <1>1, MigrationInvariant, PTL

\* What a step does to owners and tokens, UpsertApp's aside: no project loses
\* its owner, none gets a token, and those of the environment are no more.
LEMMA AppsTraced ==
  ASSUME MigrationInv, [StartupNext]_startupVars,
         ~\E p \in Processes, s \in Slugs : UpsertApp(p, s)
  PROVE  /\ \A a \in DOMAIN apps : /\ a \in DOMAIN apps'
                                   /\ apps[a].owner # Nobody => apps'[a].owner = apps[a].owner
                                   /\ apps'[a].token => apps[a].token
         /\ \A a \in DOMAIN apps' \ DOMAIN apps : ~apps'[a].token /\ a[1] # Environment
<1>a. AreRows(apps) /\ ProcessTypeOK
  BY TypeHalves DEF MigrationInv, DatabaseTypeOK
<1>1. ASSUME NEW p \in Processes, FillProjects(p)
      PROVE  /\ DOMAIN apps' = DOMAIN apps
             /\ \A a \in DOMAIN apps : apps'[a].owner = apps[a].owner /\ apps'[a].token = apps[a].token
  BY <1>1, <1>a, ProjectsFilled DEF FillProjects
<1>2. ASSUME NEW p \in Processes, FillSlugs(p)
      PROVE  /\ DOMAIN apps' = DOMAIN apps
             /\ \A a \in DOMAIN apps : apps'[a].owner = apps[a].owner /\ apps'[a].token = apps[a].token
  BY <1>2, <1>a, SlugsFilled DEF FillSlugs
<1>3. ASSUME NEW u \in Owners, apps' = Assigned(apps, u)
      PROVE  /\ DOMAIN apps' = DOMAIN apps
             /\ \A a \in DOMAIN apps :
                  /\ apps[a].owner # Nobody => apps'[a].owner = apps[a].owner
                  /\ apps'[a].token = apps[a].token
  BY <1>3, <1>a, OnlyUnowned
<1>4. ASSUME NEW p \in Processes, AssignLegacyProjects(p) \/ SignInAssigns(p)
      PROVE  UNCHANGED apps \/ \E u \in Owners : apps' = Assigned(apps, u)
  <2>1. legacyOwner[p] \in Owners /\ conf[p].owner \in Owners
    BY <1>a DEF ProcessTypeOK, Confs
  <2> QED
    BY <1>4, <2>1 DEF AssignLegacyProjects, SignInAssigns
<1>5. ASSUME NEW p \in Processes, ClearLegacyTokens(p)
      PROVE  /\ DOMAIN apps' = DOMAIN apps
             /\ \A a \in DOMAIN apps :
                  apps'[a].owner = apps[a].owner /\ (apps'[a].token => apps[a].token)
  <2>1. apps' = Cleared(apps, p)
    BY <1>5 DEF ClearLegacyTokens, Cleared
  <2> QED
    BY <2>1, <1>a, TokensCleared
<1>6. ASSUME NEW p \in Processes, NEW u \in Owners, NEW s \in Slugs, CreateProject(p, u, s)
      PROVE  /\ \A a \in DOMAIN apps : a \in DOMAIN apps' /\ apps'[a] = apps[a]
             /\ \A a \in DOMAIN apps' \ DOMAIN apps : ~apps'[a].token /\ a[1] # Environment
  <2> DEFINE a == <<u, s>>
  <2>1. a[1] # Environment
    BY StartupAssumption DEF Owners
  <2>2. a \notin DOMAIN apps /\ apps' = Added(apps, a, u)
    BY <1>6 DEF CreateProject, Added
  <2> HIDE DEF a
  <2>3. /\ DOMAIN apps' = DOMAIN apps \union {a} /\ ~apps'[a].token
        /\ \A n \in DOMAIN apps : apps'[n] = apps[n]
    BY <2>2 DEF Added
  <2> QED
    BY <2>1, <2>3
<1>7. ASSUME NEW p \in Processes,
             \/ Start(p) \/ (\E c \in Columns : AddColumn(p, c)) \/ ColumnsThere(p)
             \/ FillGroups(p) \/ CreateIndex(p) \/ LookUpOwner(p) \/ OwnerMissing(p)
             \/ AssignFails(p) \/ AppsWritten(p) \/ (\E u \in Users : SignIn(p, u))
             \/ ProcessDies(p)
      PROVE  UNCHANGED apps
  BY <1>7 DEF Start, AddColumn, ColumnsThere, FillGroups, CreateIndex, LookUpOwner,
              OwnerMissing, AssignFails, AppsWritten, SignIn, ProcessDies, Begin, database
<1>8. CASE UNCHANGED apps
  BY <1>8
<1>9. CASE \E u \in Owners : apps' = Assigned(apps, u)
  BY <1>9, <1>3
<1>10. CASE \E p \in Processes : FillProjects(p) \/ FillSlugs(p) \/ ClearLegacyTokens(p)
  BY <1>10, <1>1, <1>2, <1>5
<1>11. CASE \E p \in Processes, u \in Owners, s \in Slugs : CreateProject(p, u, s)
  BY <1>11, <1>6
<1> QED
  BY <1>4, <1>7, <1>8, <1>9, <1>10, <1>11 DEF StartupNext, Initialize, startupVars

\* UpsertApp's part: the row it writes is of the environment and keeps its owner.
LEMMA AppWritten ==
  ASSUME MigrationInv, NEW p \in Processes, NEW s \in Slugs, UpsertApp(p, s)
  PROVE  LET a == <<Environment, s>> IN
         /\ a[1] = Environment /\ DOMAIN apps' = DOMAIN apps \union {a}
         /\ \A n \in DOMAIN apps : apps'[n].owner = apps[n].owner
         /\ \A n \in DOMAIN apps \ {a} : apps'[n] = apps[n]
         /\ a \notin DOMAIN apps => apps'[a].owner = Nobody
<1> DEFINE a == <<Environment, s>>
<1>1. a[1] = Environment
  OBVIOUS
<1>2. AreRows(apps) /\ apps' = Written(apps, a)
  BY TypeHalves DEF MigrationInv, DatabaseTypeOK, UpsertApp
<1> HIDE DEF a
<1>3. /\ DOMAIN apps' = DOMAIN apps \union {a}
      /\ \A n \in DOMAIN apps : apps'[n].owner = apps[n].owner
      /\ \A n \in DOMAIN apps \ {a} : apps'[n] = apps[n]
      /\ a \notin DOMAIN apps => apps'[a].owner = Nobody
  <2> DEFINE new == Written(apps, a)
  <2>1. /\ DOMAIN new = DOMAIN apps \union {a}
        /\ \A n \in DOMAIN apps : new[n].owner = apps[n].owner
        /\ \A n \in DOMAIN apps \ {a} : new[n] = apps[n]
        /\ a \notin DOMAIN apps => new[a].owner = Nobody
    <3>1. AreRows(apps)
      BY <1>2
    <3> QED
      BY <3>1, OwnerSurvives, ZenonT(60)
  <2> QED
    BY <1>2, <2>1
<1> QED
  BY <1>1, <1>3 DEF a

\* Starts side by side, restarts, edited environments, other initial owners and
\* sign-ins never take a project from the account that owns it, for any
\* projects, users, processes and number of starts.
THEOREM OwnersKeepProjects == StartupSpec => OwnedStays
<1>1. ASSUME MigrationInv, [StartupNext]_startupVars
      PROVE  \A a \in DOMAIN apps : apps[a].owner # Nobody => apps'[a].owner = apps[a].owner
  <2>1. CASE \E p \in Processes, s \in Slugs : UpsertApp(p, s)
    BY <1>1, <2>1, AppWritten
  <2>2. CASE ~\E p \in Processes, s \in Slugs : UpsertApp(p, s)
    BY <1>1, <2>2, AppsTraced
  <2> QED
    BY <2>1, <2>2
<1> QED
  BY <1>1, MigrationInvariant, PTL DEF StartupSpec, OwnedStays

\* Only the environment writes legacy tokens.
FromEnvironment == \A a \in DOMAIN apps : apps[a].token => a[1] = Environment

\* A process has no owner before it has looked for one; one that has assigned
\* knows the projects of the environment that came without an owner since; and
\* its clearing missed what it knows.
OwnerFound(p) ==
  /\ phase[p] \notin {"assign", "upsert", "clear", "serving"} => legacyOwner[p] = Nobody
  /\ HasAssigned(p) =>
       \A a \in DOMAIN apps : a[1] = Environment /\ apps[a].owner = Nobody => a \in late[p]
ClearedFor(p) ==
  phase[p] = "serving" /\ conf[p].disable /\ legacyOwner[p] # Nobody =>
    \A a \in DOMAIN apps : apps[a].owner = legacyOwner[p] /\ apps[a].token => a \in late[p]

LegacyInv == MigrationInv /\ FromEnvironment
             /\ \A p \in Processes : OwnerFound(p) /\ ClearedFor(p)

LEMMA LegacyInit == StartupInit => LegacyInv
<1> SUFFICES ASSUME StartupInit PROVE LegacyInv
  OBVIOUS
<1>1. PICK old \in SUBSET Slugs : apps = [a \in {Environment} \X old |-> OldRow]
  BY DEF StartupInit
<1>2. \A a \in DOMAIN apps : a[1] = Environment
  BY <1>1
<1>3. \A p \in Processes : phase[p] = "down" /\ legacyOwner[p] = Nobody
  BY DEF StartupInit
<1> QED
  BY <1>2, <1>3, MigrationInit
     DEF LegacyInv, FromEnvironment, OwnerFound, ClearedFor, HasAssigned

\* A step after which a process knows every project of the environment that is
\* new, or written while it serves.
LEMMA LegacyKept ==
  ASSUME LegacyInv, FromEnvironment', NEW p \in Processes,
         conf'[p] = conf[p], legacyOwner'[p] = legacyOwner[p], late[p] \subseteq late'[p],
         \/ phase'[p] = phase[p]
         \/ phase[p] = "upsert" /\ phase'[p] = "clear"
         \/ phase[p] # "assign" /\ phase'[p] # "serving" /\ legacyOwner[p] = Nobody,
         HasAssigned(p) => \A a \in DOMAIN apps' : a[1] = Environment =>
           \/ a \in late'[p]
           \/ /\ a \in DOMAIN apps /\ apps[a].owner \in {apps'[a].owner, Nobody}
              /\ phase[p] = "serving" /\ apps'[a].token => apps[a].token
  PROVE  (OwnerFound(p) /\ ClearedFor(p))'
<1>1. OwnerFound(p) /\ ClearedFor(p) /\ FromEnvironment
  BY DEF LegacyInv
<1>2. HasAssigned(p)' => HasAssigned(p)
  BY DEF HasAssigned
<1>3. OwnerFound(p)'
  BY <1>1, <1>2 DEF OwnerFound
<1>4. ClearedFor(p)'
  <2> SUFFICES ASSUME phase'[p] = "serving", conf[p].disable, legacyOwner[p] # Nobody,
                      NEW a \in DOMAIN apps', apps'[a].owner = legacyOwner[p], apps'[a].token
               PROVE  a \in late'[p]
    BY DEF ClearedFor
  <2>1. phase[p] = "serving" /\ HasAssigned(p) /\ a[1] = Environment
    BY DEF HasAssigned, FromEnvironment
  <2>2. CASE a \in DOMAIN apps /\ apps[a].owner = legacyOwner[p] /\ apps[a].token
    BY <2>1, <2>2, <1>1 DEF ClearedFor
  <2>3. CASE a \in DOMAIN apps /\ apps[a].owner = Nobody
    BY <2>1, <2>3, <1>1 DEF OwnerFound
  <2> QED
    BY <2>1, <2>2, <2>3
<1> QED
  BY <1>3, <1>4

LEMMA LegacyStep ==
  ASSUME LegacyInv, MigrationInv', [StartupNext]_startupVars
  PROVE  LegacyInv'
<1>a. /\ MigrationInv /\ FromEnvironment /\ AreRows(apps) /\ ProcessTypeOK
      /\ \A p \in Processes : OwnerFound(p) /\ ClearedFor(p)
  BY TypeHalves DEF LegacyInv, MigrationInv, DatabaseTypeOK
<1>1. CASE \E p \in Processes, s \in Slugs : UpsertApp(p, s)
  <2>1. PICK p \in Processes, s \in Slugs : UpsertApp(p, s)
    BY <1>1
  <2> DEFINE a == <<Environment, s>>
  <2>2. /\ a[1] = Environment /\ DOMAIN apps' = DOMAIN apps \union {a}
        /\ \A n \in DOMAIN apps : apps'[n].owner = apps[n].owner
        /\ \A n \in DOMAIN apps \ {a} : apps'[n] = apps[n]
    BY <1>a, <2>1, AppWritten
  <2>3. /\ phase[p] = "upsert" /\ UNCHANGED <<phase, conf, legacyOwner>>
        /\ late' = [q \in Processes |-> IF HasAssigned(q) /\ (q # p \/ a \notin DOMAIN apps)
                                          THEN late[q] \union {a} ELSE late[q]]
    BY <2>1 DEF UpsertApp
  <2> HIDE DEF a
  <2>4. FromEnvironment'
    BY <1>a, <2>2 DEF FromEnvironment
  <2>5. ASSUME NEW q \in Processes
        PROVE  (OwnerFound(q) /\ ClearedFor(q))'
    <3>1. late[q] \subseteq late'[q]
      BY <2>3
    <3>2. ASSUME HasAssigned(q), NEW n \in DOMAIN apps', n \notin late'[q]
          PROVE  /\ n \in DOMAIN apps /\ apps[n].owner = apps'[n].owner
                 /\ phase[q] = "serving" /\ apps'[n].token => apps[n].token
      <4>1. CASE n = a
        BY <2>2, <2>3, <3>2, <4>1
      <4>2. CASE n # a
        BY <2>2, <3>2, <4>2
      <4> QED
        BY <4>1, <4>2
    <3> QED
      BY <2>3, <2>4, <3>1, <3>2, LegacyKept
  <2> QED
    BY <2>4, <2>5 DEF LegacyInv
<1>2. CASE ~\E p \in Processes, s \in Slugs : UpsertApp(p, s)
  <2>1. /\ \A a \in DOMAIN apps : /\ a \in DOMAIN apps'
                                  /\ apps[a].owner # Nobody => apps'[a].owner = apps[a].owner
                                  /\ apps'[a].token => apps[a].token
        /\ \A a \in DOMAIN apps' \ DOMAIN apps : ~apps'[a].token /\ a[1] # Environment
    BY <1>a, <1>2, AppsTraced
  <2>2. FromEnvironment'
    BY <1>a, <2>1 DEF FromEnvironment
  <2>3. ASSUME NEW q \in Processes,
               conf'[q] = conf[q], legacyOwner'[q] = legacyOwner[q], late'[q] = late[q],
               \/ phase'[q] = phase[q]
               \/ phase[q] = "upsert" /\ phase'[q] = "clear"
               \/ phase[q] # "assign" /\ phase'[q] # "serving" /\ legacyOwner[q] = Nobody
        PROVE  (OwnerFound(q) /\ ClearedFor(q))'
    <3>1. \A a \in DOMAIN apps' : a[1] = Environment =>
            /\ a \in DOMAIN apps /\ apps[a].owner \in {apps'[a].owner, Nobody}
            /\ phase[q] = "serving" /\ apps'[a].token => apps[a].token
      BY <2>1
    <3> QED
      BY <2>2, <2>3, <3>1, LegacyKept
  <2>4. ASSUME NEW p \in Processes,
               \/ Start(p) \/ Initialize(p) \/ AppsWritten(p)
               \/ (\E u \in Users : SignIn(p, u)) \/ SignInAssigns(p)
               \/ (\E u \in Owners, s \in Slugs : CreateProject(p, u, s)),
               NEW q \in Processes
        PROVE  (OwnerFound(q) /\ ClearedFor(q))'
    <3> DEFINE Early == phase[p] \in {"down", "columns", "projects", "slugs", "groups", "index"}
    <3>1. /\ UNCHANGED <<conf, legacyOwner, late>>
          /\ \/ UNCHANGED phase
             \/ Early /\ GoTo(p, IF phase[p] = "down" THEN "columns" ELSE After(phase[p]))
             \/ phase[p] = "upsert" /\ GoTo(p, "clear")
      BY <2>4 DEF Start, Initialize, AddColumn, ColumnsThere, FillProjects, FillSlugs, FillGroups,
                  CreateIndex, AppsWritten, SignIn, SignInAssigns, CreateProject, Begin, After,
                  process
    <3>2. CASE phase'[q] = phase[q]
      BY <3>1, <3>2, <2>3
    <3>3. CASE phase'[q] # phase[q]
      <4>1. q = p
        BY <1>a, <3>1, <3>3 DEF GoTo, ProcessTypeOK
      <4>2. CASE phase[p] = "upsert" /\ GoTo(p, "clear")
        BY <1>a, <2>3, <3>1, <4>1, <4>2 DEF GoTo, ProcessTypeOK
      <4>3. CASE Early /\ GoTo(p, IF phase[p] = "down" THEN "columns" ELSE After(phase[p]))
        <5>1. legacyOwner[p] = Nobody
          BY <1>a, <4>3 DEF OwnerFound
        <5>2. phase'[p] # "serving"
          BY <1>a, <4>3 DEF GoTo, ProcessTypeOK, After
        <5>3. phase[q] # "assign" /\ phase'[q] # "serving" /\ legacyOwner[q] = Nobody
          BY <4>1, <4>3, <5>1, <5>2
        <5>4. conf'[q] = conf[q] /\ legacyOwner'[q] = legacyOwner[q] /\ late'[q] = late[q]
          BY <3>1
        <5> QED
          BY <2>3, <5>3, <5>4
      <4> QED
        BY <3>1, <3>3, <4>2, <4>3
    <3> QED
      BY <3>2, <3>3
  <2>5. ASSUME NEW p \in Processes,
               \/ Down(p) \/ LookUpOwner(p) \/ AssignLegacyProjects(p) \/ ClearLegacyTokens(p),
               NEW q \in Processes, q # p
        PROVE  (OwnerFound(q) /\ ClearedFor(q))'
    <3>1. /\ conf'[q] = conf[q] /\ legacyOwner'[q] = legacyOwner[q] /\ late'[q] = late[q]
          /\ phase'[q] = phase[q]
      BY <1>a, <2>5 DEF Down, LookUpOwner, AssignLegacyProjects, ClearLegacyTokens, Begin, GoTo,
                        process, ProcessTypeOK
    <3> QED
      BY <2>3, <3>1
  <2>6. ASSUME NEW p \in Processes, Down(p)
        PROVE  (OwnerFound(p) /\ ClearedFor(p))'
    <3>1. phase'[p] = "down" /\ legacyOwner'[p] = Nobody
      BY <1>a, <2>6 DEF Down, GoTo, ProcessTypeOK
    <3> QED
      BY <3>1 DEF OwnerFound, ClearedFor, HasAssigned
  <2>7. ASSUME NEW p \in Processes, LookUpOwner(p)
        PROVE  (OwnerFound(p) /\ ClearedFor(p))'
    <3>1. phase[p] = "owner" /\ legacyOwner[p] = Nobody
      BY <1>a, <2>7 DEF LookUpOwner, OwnerFound
    <3>2. \/ GoTo(p, "assign")
          \/ GoTo(p, "upsert") /\ UNCHANGED legacyOwner
      BY <2>7 DEF LookUpOwner
    <3>3. \/ phase'[p] = "assign"
          \/ phase'[p] = "upsert" /\ legacyOwner'[p] = Nobody
      BY <1>a, <3>1, <3>2 DEF GoTo, ProcessTypeOK
    <3> QED
      BY <3>3 DEF OwnerFound, ClearedFor, HasAssigned
  <2>8. ASSUME NEW p \in Processes, AssignLegacyProjects(p)
        PROVE  (OwnerFound(p) /\ ClearedFor(p))'
    <3>1. phase'[p] = "upsert" /\ UNCHANGED legacyOwner /\ legacyOwner[p] \in Owners
      BY <1>a, <2>8 DEF AssignLegacyProjects, Begin, After, GoTo, process, ProcessTypeOK
    <3>2. ASSUME legacyOwner[p] # Nobody, NEW a \in DOMAIN apps'
          PROVE  apps'[a].owner # Nobody
      <4>1. apps' = Assigned(apps, legacyOwner[p])
        BY <2>8 DEF AssignLegacyProjects
      <4> QED
        BY <1>a, <3>1, <3>2, <4>1, OnlyUnowned
    <3> QED
      BY <3>1, <3>2 DEF OwnerFound, ClearedFor, HasAssigned
  <2>9. ASSUME NEW p \in Processes, ClearLegacyTokens(p)
        PROVE  (OwnerFound(p) /\ ClearedFor(p))'
    <3>1. /\ phase[p] = "clear" /\ phase'[p] = "serving" /\ UNCHANGED <<conf, legacyOwner>>
          /\ late'[p] = {a \in DOMAIN apps \intersect late[p] : apps[a].owner = Nobody}
      BY <1>a, <2>9 DEF ClearLegacyTokens, After, GoTo, ProcessTypeOK
    <3>2. /\ DOMAIN apps' = DOMAIN apps
          /\ \A a \in DOMAIN apps :
               /\ apps'[a].owner = apps[a].owner
               /\ apps'[a].token => /\ apps[a].token
                                    /\ ~(conf[p].disable /\ legacyOwner[p] # Nobody
                                          /\ apps[a].owner = legacyOwner[p])
      <4>1. apps' = Cleared(apps, p)
        BY <2>9 DEF ClearLegacyTokens, Cleared
      <4> QED
        BY <4>1, <1>a, TokensCleared
    <3>3. OwnerFound(p)'
      BY <1>a, <3>1, <3>2 DEF OwnerFound, HasAssigned
    <3>4. ClearedFor(p)'
      BY <3>1, <3>2 DEF ClearedFor
    <3> QED
      BY <3>3, <3>4
  <2>10. CASE UNCHANGED startupVars
    <3>1. UNCHANGED <<apps, phase, conf, legacyOwner, late>>
      BY <2>10 DEF startupVars
    <3>2. \A q \in Processes : (OwnerFound(q) /\ ClearedFor(q))'
      BY <3>1, <2>3
    <3> QED
      BY <2>2, <3>2 DEF LegacyInv
  <2>11. ASSUME NEW p \in Processes, OwnerMissing(p) \/ AssignFails(p) \/ ProcessDies(p)
         PROVE  Down(p)
    BY <2>11 DEF OwnerMissing, AssignFails, ProcessDies
  <2>12. CASE StartupNext
    <3>1. PICK p \in Processes :
            \/ Start(p) \/ Initialize(p) \/ AppsWritten(p)
            \/ (\E u \in Users : SignIn(p, u)) \/ SignInAssigns(p)
            \/ (\E u \in Owners, s \in Slugs : CreateProject(p, u, s))
            \/ Down(p) \/ LookUpOwner(p) \/ AssignLegacyProjects(p) \/ ClearLegacyTokens(p)
      BY <1>2, <2>11, <2>12 DEF StartupNext
    <3>2. ASSUME NEW q \in Processes
          PROVE  (OwnerFound(q) /\ ClearedFor(q))'
      <4>1. CASE q = p
        BY <3>1, <4>1, <2>4, <2>6, <2>7, <2>8, <2>9
      <4>2. CASE q # p
        BY <3>1, <4>2, <2>4, <2>5
      <4> QED
        BY <4>1, <4>2
    <3> QED
      BY <2>2, <3>2 DEF LegacyInv
  <2> QED
    BY <2>10, <2>12
<1> QED
  BY <1>1, <1>2

LEMMA LegacyInvariant == StartupSpec => []LegacyInv
BY LegacyInit, LegacyStep, MigrationInvariant, PTL DEF StartupSpec

\* With DISABLE_LEGACY_TOKENS and a known owner, no token of the environment
\* gives access to a project of that owner, except one that another process
\* wrote after the clearing, or whose project belonged to nobody as the process
\* cleared, inserted since it assigned: for any number of processes, which may
\* name different owners, of projects and of starts.
THEOREM LegacyTokensStop == StartupSpec => []LegacyTokensGone
<1>1. LegacyInv => LegacyTokensGone
  BY DEF LegacyInv, ClearedFor, LegacyTokensGone
<1> QED
  BY <1>1, LegacyInvariant, PTL

-----------------------------------------------------------------------------
(***************************************************************************)
(* Events: the history of an account.                                      *)
(***************************************************************************)

\* The events of its account that come before e.
Newer(es, e) == {f \in Of(es, e.account) : Before(f, e)}

EventsInv == EventsTypeOK /\ IsFiniteSet(made) /\ EventsRetained

LEMMA EventsInitial == EventsInit => EventsInv
BY FS_EmptySet DEF EventsInit, EventsInv, EventsTypeOK, EventsRetained

\* More events, more newer ones.
LEMMA NewerGrow ==
  ASSUME NEW es, NEW fs, es \subseteq fs, IsFiniteSet(fs), NEW e
  PROVE  /\ Cardinality(Newer(es, e)) \in Nat /\ Cardinality(Newer(fs, e)) \in Nat
         /\ Cardinality(Newer(es, e)) <= Cardinality(Newer(fs, e))
<1>1. Newer(es, e) \in SUBSET Newer(fs, e) /\ Newer(fs, e) \in SUBSET fs
  BY DEF Newer, Of
<1>2. IsFiniteSet(Newer(fs, e)) /\ IsFiniteSet(Newer(es, e))
  BY <1>1, FS_Subset
<1> QED
  BY <1>1, <1>2, FS_Subset, FS_CardinalityType

\* What a tick makes of one event.
Aged(e) == [e EXCEPT !.age = IF @ = Overdue THEN @ ELSE @ + 1]

LEMMA AgedEvent ==
  ASSUME NEW e \in Event
  PROVE  /\ Aged(e) \in Event
         /\ Aged(e).id = e.id /\ Aged(e).account = e.account
         /\ Aged(e).age = IF e.age = Overdue THEN Overdue ELSE e.age + 1
         /\ e.age \in 0..Overdue /\ e.id \in Int
<1>1. Retention \in Nat /\ MaxIds \in Nat
  BY EventsAssumption
<1>2. /\ e.age \in 0..Overdue /\ e.id \in Ids /\ e.account \in Accounts
      /\ e = [id |-> e.id, account |-> e.account, age |-> e.age]
  BY DEF Event
<1> DEFINE new == IF e.age = Overdue THEN e.age ELSE e.age + 1
<1>3. new \in 0..Overdue
  BY <1>1, <1>2 DEF Overdue
<1> HIDE DEF new
<1>4. Aged(e) = [id |-> e.id, account |-> e.account, age |-> new]
  BY <1>2 DEF Aged, new
<1> QED
  BY <1>1, <1>2, <1>3, <1>4 DEF Event, Ids, new

LEMMA AgedSet == ASSUME NEW es PROVE Older(es) = {Aged(e) : e \in es}
BY DEF Older, Aged

LEMMA EventsStep ==
  ASSUME EventsInv, [EventsNext]_eventVars
  PROVE  EventsInv'
<1>a. /\ EventsTypeOK /\ IsFiniteSet(made) /\ EventsRetained
      /\ MaxEvents \in Nat \ {0} /\ Retention \in Nat /\ MaxIds \in Nat
  BY EventsAssumption DEF EventsInv
<1>1. ASSUME NEW id \in Ids, NEW a \in Accounts, CreateEvent(id, a)
      PROVE  EventsInv'
  <2> DEFINE new == [id |-> id, account |-> a, age |-> 0]
             now == events \union {new}
             kept == {e \in Of(now, a) : e.age <= Retention}
  <2>1. /\ made' = made \union {new} /\ queued' = queued \union {id}
        /\ events' = (now \ Of(now, a)) \union Latest(kept)
    BY <1>1 DEF CreateEvent, Pruned
  <2>2. new \in Event /\ new.id = id
    BY <1>a DEF Event, Overdue
  <2>3. IsFiniteSet(made')
    BY <2>1, <1>a, FS_AddElement
  <2>4. kept \subseteq now /\ now \subseteq made' /\ made \subseteq made'
    BY <2>1, <1>a DEF Of, EventsTypeOK
  <2> HIDE DEF new
  <2>5. EventsTypeOK'
    <3>1. events' \subseteq made'
      BY <2>1, <2>4 DEF Latest
    <3>2. queued' = {e.id : e \in made'}
      BY <2>1, <2>2, <1>a DEF EventsTypeOK
    <3> QED
      BY <2>1, <2>2, <3>1, <3>2, <1>a DEF EventsTypeOK
  <2>6. ASSUME NEW e \in made' \ events'
        PROVE  e.age > Retention \/ Cardinality(Newer(made', e)) >= MaxEvents
    <3>1. CASE e \notin now
      <4>1. e \in made \ events
        BY <2>1, <3>1
      <4>2. e.age > Retention \/ Cardinality(Newer(made, e)) >= MaxEvents
        BY <4>1, <1>a DEF EventsRetained, Newer
      <4> QED
        BY <4>2, <2>3, <2>4, <1>a, NewerGrow
    <3>2. CASE e \in now
      <4>1. e \in Of(now, a) /\ e.account = a /\ e \notin Latest(kept)
        BY <2>1, <3>2 DEF Of
      <4>2. CASE e \notin kept
        <5>1. ~(e.age <= Retention) /\ e \in Event
          BY <4>1, <4>2, <2>1, <2>2, <1>a DEF EventsTypeOK
        <5>2. e.age \in Int
          BY <5>1, AgedEvent, <1>a DEF Overdue
        <5> QED
          BY <5>1, <5>2, <1>a
      <4>3. CASE e \in kept
        <5>1. ~(Cardinality({f \in kept : Before(f, e)}) < MaxEvents)
          BY <4>1, <4>3 DEF Latest
        <5>2. {f \in kept : Before(f, e)} = Newer(kept, e)
          BY <4>1 DEF Newer, Of
        <5>3. /\ Cardinality(Newer(kept, e)) \in Nat /\ Cardinality(Newer(made', e)) \in Nat
              /\ Cardinality(Newer(kept, e)) <= Cardinality(Newer(made', e))
          BY <2>3, <2>4, NewerGrow
        <5>4. ~(Cardinality(Newer(kept, e)) < MaxEvents)
          BY <5>1, <5>2, Zenon
        <5> HIDE DEF kept
        <5> QED
          BY <5>3, <5>4, <1>a
      <4> QED
        BY <4>2, <4>3
    <3> QED
      BY <3>1, <3>2
  <2>7. EventsRetained'
    BY <2>6 DEF EventsRetained, Newer
  <2> QED
    BY <2>3, <2>5, <2>7 DEF EventsInv
<1>2. CASE EventsTick
  <2>1. /\ events' = {Aged(e) : e \in events} /\ made' = {Aged(e) : e \in made}
        /\ queued' = queued
    BY <1>2, AgedSet DEF EventsTick
  <2>2. \A e \in made : e \in Event
    BY <1>a DEF EventsTypeOK
  <2>3. EventsTypeOK'
    <3>1. events' \subseteq made'
      BY <2>1, <1>a DEF EventsTypeOK
    <3>2. made' \subseteq Event /\ \A e \in made : Aged(e).id = e.id
      BY <2>1, <2>2, AgedEvent
    <3>3. {e.id : e \in made'} = {e.id : e \in made}
      BY <2>1, <3>2
    <3> QED
      BY <2>1, <3>1, <3>2, <3>3, <1>a DEF EventsTypeOK
  <2>4. IsFiniteSet(made')
    <3> DEFINE ages == [e \in made |-> Aged(e)]
    <3>1. ages \in Surjection(made, made')
      BY <2>1 DEF Surjection
    <3> QED
      BY <3>1, <1>a, FS_Surjection
  <2>5. ASSUME NEW e \in made, e \notin events
        PROVE  \/ Aged(e).age > Retention
               \/ Cardinality(Newer(made', Aged(e))) >= MaxEvents
    <3>1. /\ Aged(e).age = IF e.age = Overdue THEN Overdue ELSE e.age + 1
          /\ e.age \in 0..Overdue /\ Aged(e).id = e.id /\ Aged(e).account = e.account
          /\ e.id \in Int
      BY <2>2, AgedEvent
    <3>2. CASE e.age >= Retention
      BY <3>1, <3>2, <1>a DEF Overdue
    <3>3. CASE e.age < Retention
      <4>1. Aged(e).age = e.age + 1 /\ Cardinality(Newer(made, e)) >= MaxEvents
        BY <3>1, <3>3, <2>5, <1>a DEF Overdue, EventsRetained, Newer
      <4>2. ASSUME NEW f \in Newer(made, e)
            PROVE  /\ f \in Event /\ Aged(f).age = f.age + 1
                   /\ Aged(f) \in Newer(made', Aged(e))
        <5>1. f \in made /\ f \in Event /\ f.account = e.account /\ Before(f, e)
          BY <2>2 DEF Newer, Of
        <5>2. /\ Aged(f).age = IF f.age = Overdue THEN Overdue ELSE f.age + 1
              /\ f.age \in 0..Overdue /\ Aged(f).id = f.id /\ Aged(f).account = f.account
              /\ f.id \in Int
          BY <5>1, AgedEvent
        <5>3. Aged(f).age = f.age + 1 /\ Before(Aged(f), Aged(e))
          BY <5>1, <5>2, <3>1, <3>3, <4>1, <1>a DEF Before, Overdue
        <5>4. Aged(f) \in made'
          BY <5>1, <2>1
        <5> QED
          BY <5>1, <5>2, <5>3, <5>4, <3>1 DEF Newer, Of
      <4> DEFINE ages == [f \in Newer(made, e) |-> Aged(f)]
      <4>3. \A f, g \in Newer(made, e) : Aged(f) = Aged(g) => f = g
        <5> SUFFICES ASSUME NEW f \in Newer(made, e), NEW g \in Newer(made, e),
                            Aged(f) = Aged(g)
                     PROVE  f = g
          OBVIOUS
        <5>1. /\ f \in Event /\ g \in Event
              /\ Aged(f).age = f.age + 1 /\ Aged(g).age = g.age + 1
          BY <4>2
        <5>2. /\ f.id = g.id /\ f.account = g.account
              /\ f.age \in 0..Overdue /\ g.age \in 0..Overdue
          BY <5>1, AgedEvent
        <5>3. f.age = g.age
          BY <5>1, <5>2, <1>a DEF Overdue
        <5> QED
          BY <5>1, <5>2, <5>3 DEF Event
      <4>4. ages \in Injection(Newer(made, e), Newer(made', Aged(e)))
        BY <4>2, <4>3 DEF Injection, IsInjective
      <4>5. IsFiniteSet(Newer(made', Aged(e)))
        BY <2>4, FS_Subset DEF Newer, Of
      <4>6. Cardinality(Newer(made, e)) <= Cardinality(Newer(made', Aged(e)))
        BY <4>4, <4>5, FS_Injection
      <4>7. /\ Cardinality(Newer(made, e)) \in Nat
            /\ Cardinality(Newer(made', Aged(e))) \in Nat
        BY <1>a, <2>4, NewerGrow
      <4> QED
        BY <4>1, <4>6, <4>7, <1>a
    <3> QED
      BY <3>1, <3>2, <3>3, <1>a DEF Overdue
  <2>6. ASSUME NEW d \in made' \ events'
        PROVE  d.age > Retention \/ Cardinality(Newer(made', d)) >= MaxEvents
    <3>1. PICK e \in made : d = Aged(e)
      BY <2>1
    <3>2. e \notin events
      BY <2>1, <3>1
    <3> QED
      BY <2>5, <3>1, <3>2
  <2>7. EventsRetained'
    BY <2>6 DEF EventsRetained, Newer
  <2> QED
    BY <2>3, <2>4, <2>7 DEF EventsInv
<1>3. CASE UNCHANGED eventVars
  BY <1>3, <1>a DEF eventVars, EventsInv, EventsTypeOK, EventsRetained
<1> QED
  BY <1>1, <1>2, <1>3 DEF EventsNext

LEMMA EventsInvariant == EventsSpec => []EventsInv
BY EventsInitial, EventsStep, PTL DEF EventsSpec

\* An event is missing only if it is older than the retention or its account
\* has made the maximum of newer ones, whatever others do, for any number of
\* accounts and events.
THEOREM EventsAreKept == EventsSpec => []EventsRetained
<1>1. EventsInv => EventsRetained
  BY DEF EventsInv
<1> QED
  BY <1>1, EventsInvariant, PTL

-----------------------------------------------------------------------------
(***************************************************************************)
(* RateLimiter: the requests of the last minute and the window that counts *)
(* them.                                                                   *)
(***************************************************************************)
Counter == [age : 0..Oldest, count : 0..Limit]
Passage == [age : Ages, nth : Nat]

\* The window w of a bucket and its requests A of the last minute.  While the
\* window is open it counts those that came since it began, and those that
\* came before fit into one window; once it is over, all of them fell into it.
Fits(w, A) ==
  /\ IsFiniteSet(A)
  /\ \A r \in A : r.age = 0 => r.nth <= Cardinality({q \in A : q.age = 0})
  /\ w.count = 0 => A = {}
  /\ w.count > 0 /\ w.age < Window =>
       /\ Cardinality({r \in A : r.age <= w.age}) = w.count
       /\ Cardinality({r \in A : r.age > w.age}) <= Limit
  /\ w.age >= Window =>
       /\ Cardinality(A) <= Limit
       /\ \A r \in A : w.age < r.age + Window

LimiterInv == LimiterTypeOK /\ \A b \in Buckets : Fits(limits[b], admitted[b])

LEMMA LimiterInitial == LimiterInit => LimiterInv
<1> SUFFICES ASSUME LimiterInit PROVE LimiterInv
  OBVIOUS
<1>1. NoWindow \in Counter /\ NoWindow.count = 0 /\ NoWindow.age = 0
  BY RateLimiterAssumption DEF NoWindow, Counter, Oldest
<1>2. LimiterTypeOK
  BY <1>1 DEF LimiterInit, LimiterTypeOK, Counter
<1>3. Fits(NoWindow, {})
  <2>1. ~(0 >= Window)
    BY RateLimiterAssumption
  <2> QED
    BY <1>1, <2>1, FS_EmptySet DEF Fits
<1> QED
  BY <1>2, <1>3 DEF LimiterInit, LimiterInv

\* A tick keeps the number of the requests it leaves in the last minute.
Moved(T) == {[age |-> r.age + 1, nth |-> r.nth] : r \in T}

LEMMA MovedCount ==
  ASSUME NEW T \in SUBSET Passage, IsFiniteSet(T), \A r \in T : r.age + 1 < Window
  PROVE  /\ IsFiniteSet(Moved(T)) /\ Cardinality(Moved(T)) = Cardinality(T)
         /\ Moved(T) \subseteq Passage
<1> DEFINE f == [r \in T |-> [age |-> r.age + 1, nth |-> r.nth]]
<1>1. \A r \in T : r.age \in Nat /\ r.nth \in Nat /\ r = [age |-> r.age, nth |-> r.nth]
  BY RateLimiterAssumption DEF Passage, Ages
<1>2. f \in Surjection(T, Moved(T))
  BY DEF Surjection, Moved
<1>3. \A a, c \in T : f[a] = f[c] => a = c
  <2> SUFFICES ASSUME NEW a \in T, NEW c \in T, f[a] = f[c] PROVE a = c
    OBVIOUS
  <2>1. /\ [age |-> a.age + 1, nth |-> a.nth] = [age |-> c.age + 1, nth |-> c.nth]
    OBVIOUS
  <2>2. a.age + 1 = c.age + 1 /\ a.nth = c.nth
    BY <2>1
  <2>3. a.age = c.age
    BY <1>1, <2>2
  <2> QED
    BY <1>1, <2>2, <2>3
<1>4. f \in Bijection(T, Moved(T))
  BY <1>2, <1>3 DEF Bijection, Injection, IsInjective, Surjection
<1>5. Moved(T) \subseteq Passage
  <2> SUFFICES ASSUME NEW r \in T PROVE [age |-> r.age + 1, nth |-> r.nth] \in Passage
    BY DEF Moved
  <2>1. r.age + 1 \in 0..(Window - 1)
    BY <1>1, RateLimiterAssumption
  <2> QED
    BY <1>1, <2>1 DEF Passage, Ages
<1> QED
  BY <1>4, <1>5, FS_Bijection DEF ExistsBijection

\* A minute that gets a tick older still fits.
LEMMA FitsTick ==
  ASSUME NEW w \in Counter, NEW A \in SUBSET Passage, Fits(w, A)
  PROVE  LET v == IF w.count = 0 \/ w.age = Oldest THEN w ELSE [w EXCEPT !.age = @ + 1]
         IN  v \in Counter /\ Lingering(A) \in SUBSET Passage /\ Fits(v, Lingering(A))
<1> DEFINE v == IF w.count = 0 \/ w.age = Oldest THEN w ELSE [w EXCEPT !.age = @ + 1]
           T == {q \in A : q.age + 1 < Window}
           B == Lingering(A)
<1>0. /\ Window \in Nat /\ Window > 0 /\ Limit \in Nat /\ Oldest = 2 * Window + 1
      /\ w.age \in Nat /\ w.age <= Oldest /\ w.count \in Nat /\ w.count <= Limit
      /\ \A r \in A : r.age \in Nat /\ r.age < Window
  BY RateLimiterAssumption DEF Counter, Passage, Ages, Oldest
<1>1. /\ IsFiniteSet(A)
      /\ w.count = 0 => A = {}
      /\ w.count > 0 /\ w.age < Window =>
           /\ Cardinality({r \in A : r.age <= w.age}) = w.count
           /\ Cardinality({r \in A : r.age > w.age}) <= Limit
      /\ w.age >= Window =>
           /\ Cardinality(A) <= Limit
           /\ \A r \in A : w.age < r.age + Window
  BY DEF Fits
<1>2. B = Moved(T)
  BY DEF Lingering, Moved
<1>3. T \in SUBSET Passage /\ IsFiniteSet(T) /\ T \subseteq A /\ Cardinality(T) <= Cardinality(A)
  BY <1>1, FS_Subset
<1>4. IsFiniteSet(B) /\ Cardinality(B) = Cardinality(T) /\ B \subseteq Passage
  BY <1>2, <1>3, MovedCount
<1>5. \A r \in B : r.age > 0 /\ \E q \in T : r.age = q.age + 1
  BY <1>0, <1>2, <1>3 DEF Moved
<1>6. v \in Counter /\ v.count = w.count
  <2>1. CASE w.count = 0 \/ w.age = Oldest
    BY <2>1
  <2>2. CASE ~(w.count = 0 \/ w.age = Oldest)
    <3>1. w.age + 1 \in 0..Oldest
      BY <1>0, <2>2
    <3> QED
      BY <2>2, <3>1 DEF Counter
  <2> QED
    BY <2>1, <2>2
<1>7. CASE w.count = 0
  <2>1. B = {} /\ v = w
    BY <1>1, <1>2, <1>7 DEF Moved
  <2>2. Cardinality(B) <= Limit
    BY <1>0, <2>1, FS_EmptySet
  <2> QED
    BY <1>4, <1>6, <1>7, <2>1, <2>2 DEF Fits
<1>8. CASE w.count # 0 /\ w.age < Window
  <2>1. v.age = w.age + 1
    <3>1. w.age # Oldest
      BY <1>0, <1>8
    <3> QED
      BY <1>8, <3>1 DEF Counter
  <2>2. /\ Cardinality({r \in A : r.age <= w.age}) = w.count
        /\ Cardinality({r \in A : r.age > w.age}) <= Limit
    BY <1>0, <1>1, <1>8
  <2> DEFINE in == {r \in T : r.age <= w.age}
             out == {r \in T : r.age > w.age}
  <2>3. /\ in \in SUBSET Passage /\ IsFiniteSet(in)
        /\ out \in SUBSET Passage /\ IsFiniteSet(out)
        /\ \A r \in T : r.age + 1 < Window
    BY <1>3, FS_Subset
  <2>4. /\ Cardinality(Moved(in)) = Cardinality(in)
        /\ Cardinality(Moved(out)) = Cardinality(out)
    BY <2>3, MovedCount
  <2>5. {r \in B : r.age <= w.age + 1} = Moved(in) /\ {r \in B : r.age > w.age + 1} = Moved(out)
    <3>1. \A q \in T : q.age \in Nat
      BY <1>0, <1>3
    <3>2. \A q \in T : (q.age + 1 <= w.age + 1 <=> q.age <= w.age) /\ (q.age + 1 > w.age + 1 <=> q.age > w.age)
      BY <1>0, <3>1
    <3> QED
      BY <1>2, <3>2 DEF Moved
  <2>6. Cardinality(out) <= Limit /\ Cardinality(in) <= w.count /\ Cardinality(out) \in Nat
    <3>1. IsFiniteSet({r \in A : r.age > w.age}) /\ out \subseteq {r \in A : r.age > w.age}
      BY <1>1, <1>3, FS_Subset
    <3>2. IsFiniteSet({r \in A : r.age <= w.age}) /\ in \subseteq {r \in A : r.age <= w.age}
      BY <1>1, <1>3, FS_Subset
    <3>3. /\ Cardinality(out) <= Cardinality({r \in A : r.age > w.age})
          /\ Cardinality(in) <= Cardinality({r \in A : r.age <= w.age})
      BY <3>1, <3>2, FS_Subset
    <3>4. Cardinality(out) \in Nat /\ Cardinality({r \in A : r.age > w.age}) \in Nat
      BY <2>3, <3>1, FS_CardinalityType
    <3> QED
      BY <1>0, <2>2, <3>3, <3>4
  <2>7. CASE w.age + 1 < Window
    <3>1. in = {r \in A : r.age <= w.age}
      <4>1. \A r \in A : r.age <= w.age => r.age + 1 < Window
        BY <1>0, <2>7
      <4> QED
        BY <4>1
    <3>2. Cardinality({r \in B : r.age <= v.age}) = v.count
      BY <1>6, <2>1, <2>2, <2>4, <2>5, <3>1
    <3>3. Cardinality({r \in B : r.age > v.age}) <= Limit
      BY <2>1, <2>4, <2>5, <2>6
    <3>4. v.age < Window /\ ~(v.age >= Window) /\ v.count # 0
      BY <1>0, <1>6, <1>8, <2>1, <2>7
    <3>5. \A r \in B : r.age # 0
      BY <1>5
    <3>6. Fits(v, B)
      BY <1>4, <3>2, <3>3, <3>4, <3>5 DEF Fits
    <3> QED
      BY <1>4, <1>6, <3>6
  <2>8. CASE ~(w.age + 1 < Window)
    <3>1. v.age = Window
      BY <1>0, <1>8, <2>1, <2>8
    <3>2. T = in
      <4>1. \A r \in T : r.age <= w.age
        BY <1>0, <1>3, <2>3, <2>8
      <4> QED
        BY <4>1
    <3>3. Cardinality(B) <= Limit
      <4>1. Cardinality(in) \in Nat
        BY <2>3, FS_CardinalityType
      <4> QED
        BY <1>0, <1>4, <2>6, <3>2, <4>1
    <3>4. \A r \in B : v.age < r.age + Window
      <4>1. \A r \in B : r.age \in Nat /\ r.age > 0
        BY <1>0, <1>3, <1>5
      <4> QED
        BY <1>0, <3>1, <4>1
    <3>5. ~(v.age < Window) /\ v.count # 0 /\ \A r \in B : r.age # 0
      BY <1>0, <1>5, <1>6, <1>8, <3>1
    <3>6. Fits(v, B)
      BY <1>4, <3>3, <3>4, <3>5 DEF Fits
    <3> QED
      BY <1>4, <1>6, <3>6
  <2> QED
    BY <2>7, <2>8
<1>9. CASE w.count # 0 /\ ~(w.age < Window)
  <2>1. Cardinality(A) <= Limit /\ \A r \in A : w.age < r.age + Window
    BY <1>0, <1>1, <1>9
  <2>2. Cardinality(B) <= Limit
    <3>1. Cardinality(A) \in Nat /\ Cardinality(T) \in Nat
      BY <1>1, <1>3, FS_CardinalityType
    <3> QED
      BY <1>0, <1>3, <1>4, <2>1, <3>1
  <2>3. v.age \in Nat /\ v.age <= w.age + 1 /\ v.age >= Window
    <3>1. v.age = w.age \/ v.age = w.age + 1
      BY DEF Counter
    <3> QED
      BY <1>0, <1>9, <3>1
  <2>4. \A r \in B : v.age < r.age + Window
    <3> SUFFICES ASSUME NEW r \in B PROVE v.age < r.age + Window
      OBVIOUS
    <3>1. PICK q \in T : r.age = q.age + 1
      BY <1>5
    <3>2. q.age \in Nat /\ w.age < q.age + Window
      BY <1>0, <1>3, <2>1
    <3> QED
      BY <1>0, <2>3, <3>1, <3>2
  <2>5. ~(v.age < Window) /\ v.count # 0 /\ \A r \in B : r.age # 0
    BY <1>0, <1>5, <1>6, <1>9, <2>3
  <2>6. Fits(v, B)
    BY <1>4, <2>2, <2>4, <2>5 DEF Fits
  <2> QED
    BY <1>4, <1>6, <2>6
<1> QED
  BY <1>7, <1>8, <1>9

\* An old window that is pruned counted none of the last minute.
LEMMA FitsPruned ==
  ASSUME NEW w \in Counter, NEW A \in SUBSET Passage, Fits(w, A), w.age > 2 * Window
  PROVE  Fits(NoWindow, A)
<1>1. /\ Window \in Nat /\ Window > 0 /\ Limit \in Nat /\ w.age \in Nat
      /\ \A r \in A : r.age \in Nat /\ r.age < Window
  BY RateLimiterAssumption DEF Counter, Passage, Ages, Oldest
<1>2. w.age >= Window
  BY <1>1
<1>3. \A r \in A : w.age < r.age + Window
  BY <1>2 DEF Fits
<1>4. \A r \in A : FALSE
  BY <1>1, <1>3
<1>5. A = {}
  BY <1>4
<1>6. ~(0 >= Window)
  BY <1>1
<1> QED
  BY <1>5, <1>6, FS_EmptySet DEF Fits, NoWindow

\* A request that is let through is counted by the window it falls into.
LEMMA FitsArrival ==
  ASSUME NEW w \in Counter, NEW A \in SUBSET Passage, Fits(w, A),
         NEW c, c = (IF w.count = 0 \/ w.age >= Window THEN NoWindow ELSE w),
         c.count < Limit
  PROVE  LET v == [c EXCEPT !.count = @ + 1]
         IN  /\ v \in Counter /\ v.count # 0 /\ v.age < Window
             /\ A \union {Arrival(A)} \in SUBSET Passage
             /\ Fits(v, A \union {Arrival(A)})
<1> DEFINE v == [c EXCEPT !.count = @ + 1]
           now == {q \in A : q.age = 0}
           x == Arrival(A)
           B == A \union {x}
<1>0. /\ Window \in Nat /\ Window > 0 /\ Limit \in Nat /\ Limit > 0 /\ Oldest = 2 * Window + 1
      /\ w.age \in Nat /\ w.count \in Nat /\ w.count <= Limit
      /\ \A r \in A : r.age \in Nat /\ r.nth \in Nat /\ r.age < Window
  BY RateLimiterAssumption DEF Counter, Passage, Ages, Oldest
<1>1. /\ IsFiniteSet(A)
      /\ \A r \in A : r.age = 0 => r.nth <= Cardinality(now)
      /\ w.count = 0 => A = {}
      /\ w.count > 0 /\ w.age < Window =>
           /\ Cardinality({r \in A : r.age <= w.age}) = w.count
           /\ Cardinality({r \in A : r.age > w.age}) <= Limit
      /\ w.age >= Window =>
           /\ Cardinality(A) <= Limit
           /\ \A r \in A : w.age < r.age + Window
  BY DEF Fits
<1>2. IsFiniteSet(now) /\ Cardinality(now) \in Nat
  BY <1>1, FS_Subset, FS_CardinalityType
<1>3. x.age = 0 /\ x.nth = Cardinality(now) + 1 /\ x \in Passage
  BY <1>0, <1>2 DEF Arrival, Passage, Ages
<1>4. x \notin A
  <2>1. ~(Cardinality(now) + 1 <= Cardinality(now))
    BY <1>2
  <2> QED
    BY <1>1, <1>3, <2>1
<1>5. IsFiniteSet(B) /\ B \in SUBSET Passage
  BY <1>1, <1>3, FS_AddElement
<1>6. \A r \in B : r.age = 0 => r.nth <= Cardinality({q \in B : q.age = 0})
  <2>1. {q \in B : q.age = 0} = now \union {x}
    BY <1>3
  <2>2. Cardinality({q \in B : q.age = 0}) = Cardinality(now) + 1
    BY <1>2, <1>4, <2>1, FS_AddElement
  <2>3. \A r \in A : r.age = 0 => r.nth <= Cardinality(now) + 1
    BY <1>0, <1>1, <1>2
  <2>4. x.nth <= Cardinality(now) + 1
    BY <1>2, <1>3
  <2> QED
    BY <2>2, <2>3, <2>4
<1>7. c \in Counter /\ c.age < Window
  <2>1. NoWindow \in Counter /\ NoWindow.age = 0
    BY <1>0 DEF NoWindow, Counter
  <2> QED
    BY <1>0, <2>1
<1>8. v \in Counter /\ v.age = c.age /\ v.count = c.count + 1 /\ c.count \in Nat /\ c.age \in Nat
  BY <1>0, <1>7 DEF Counter
<1>9. /\ Cardinality({r \in A : r.age <= c.age}) = c.count
      /\ Cardinality({r \in A : r.age > c.age}) <= Limit
  <2>1. CASE w.count = 0 \/ w.age >= Window
    <3>1. c = NoWindow /\ c.age = 0 /\ c.count = 0
      BY <2>1 DEF NoWindow
    <3>2. \A r \in A : r.age > 0
      <4>1. CASE w.count = 0
        BY <1>1, <4>1
      <4>2. CASE w.age >= Window
        <5>1. \A r \in A : w.age < r.age + Window
          BY <1>1, <4>2
        <5> QED
          BY <1>0, <4>2, <5>1
      <4> QED
        BY <2>1, <4>1, <4>2
    <3>3. {r \in A : r.age <= 0} = {} /\ {r \in A : r.age > 0} = A
      BY <1>0, <3>2
    <3>4. Cardinality(A) <= Limit
      <4>1. CASE w.count = 0
        BY <1>0, <1>1, <4>1, FS_EmptySet
      <4>2. CASE w.age >= Window
        BY <1>1, <4>2
      <4> QED
        BY <2>1, <4>1, <4>2
    <3> QED
      BY <3>1, <3>3, <3>4, FS_EmptySet
  <2>2. CASE ~(w.count = 0 \/ w.age >= Window)
    <3>1. c = w /\ w.count > 0 /\ w.age < Window
      BY <1>0, <2>2
    <3> QED
      BY <1>1, <3>1
  <2> QED
    BY <2>1, <2>2
<1>10. Cardinality({r \in B : r.age <= v.age}) = v.count
  <2>1. {r \in B : r.age <= v.age} = {r \in A : r.age <= c.age} \union {x}
    BY <1>3, <1>8
  <2>2. IsFiniteSet({r \in A : r.age <= c.age}) /\ x \notin {r \in A : r.age <= c.age}
    BY <1>1, <1>4, FS_Subset
  <2>3. Cardinality({r \in A : r.age <= c.age} \union {x}) = c.count + 1
    BY <1>9, <2>2, FS_AddElement
  <2> QED
    BY <1>8, <2>1, <2>3
<1>11. Cardinality({r \in B : r.age > v.age}) <= Limit
  <2>1. {r \in B : r.age > v.age} = {r \in A : r.age > c.age}
    BY <1>3, <1>8
  <2> QED
    BY <1>9, <2>1
<1>12. v.count # 0 /\ v.age < Window /\ ~(v.age >= Window)
  BY <1>0, <1>7, <1>8
<1>13. Fits(v, B)
  BY <1>5, <1>6, <1>10, <1>11, <1>12 DEF Fits
<1> QED
  BY <1>5, <1>8, <1>12, <1>13

LEMMA LimiterStep == LimiterInv /\ [LimiterNext]_limiterVars => LimiterInv'
<1> SUFFICES ASSUME LimiterInv, [LimiterNext]_limiterVars PROVE LimiterInv'
  OBVIOUS
<1>1. /\ limits \in [Buckets -> Counter] /\ admitted \in [Buckets -> SUBSET Passage]
      /\ \A b \in Buckets : Fits(limits[b], admitted[b])
  BY DEF LimiterInv, LimiterTypeOK, Counter, Passage
<1> SUFFICES /\ limits' \in [Buckets -> Counter] /\ admitted' \in [Buckets -> SUBSET Passage]
             /\ \A b \in Buckets : Fits(limits'[b], admitted'[b])
  BY DEF LimiterInv, LimiterTypeOK, Counter, Passage, Fits
<1>2. CASE LimiterTick
  <2> DEFINE v(b) == IF limits[b].count = 0 \/ limits[b].age = Oldest THEN limits[b]
                     ELSE [limits[b] EXCEPT !.age = @ + 1]
  <2>1. ASSUME NEW b \in Buckets
        PROVE  /\ v(b) \in Counter /\ Lingering(admitted[b]) \in SUBSET Passage
               /\ Fits(v(b), Lingering(admitted[b]))
    <3>1. limits[b] \in Counter /\ admitted[b] \in SUBSET Passage /\ Fits(limits[b], admitted[b])
      BY <1>1
    <3> QED
      BY <3>1, FitsTick
  <2>2. limits' = [b \in Buckets |-> v(b)] /\ admitted' = [b \in Buckets |-> Lingering(admitted[b])]
    BY <1>2 DEF LimiterTick
  <2> HIDE DEF v
  <2> QED
    BY <2>1, <2>2
<1>3. ASSUME NEW b \in Buckets, AllowRequest(b)
      PROVE  /\ limits' \in [Buckets -> Counter] /\ admitted' \in [Buckets -> SUBSET Passage]
             /\ \A d \in Buckets : Fits(limits'[d], admitted'[d])
  <2> DEFINE v == [Current(b) EXCEPT !.count = @ + 1]
             ws == [limits EXCEPT ![b] = v]
             B == admitted[b] \union {Arrival(admitted[b])}
  <2>1. /\ limits' = IF Cardinality(Kept(ws)) > MaxBuckets THEN Prune(ws) ELSE ws
        /\ admitted' = [admitted EXCEPT ![b] = B]
        /\ Current(b).count < Limit
    BY <1>3 DEF AllowRequest
  <2>2. v \in Counter /\ v.age < Window /\ B \in SUBSET Passage /\ Fits(v, B)
    <3>1. limits[b] \in Counter /\ admitted[b] \in SUBSET Passage /\ Fits(limits[b], admitted[b])
      BY <1>1
    <3>2. Current(b) = IF limits[b].count = 0 \/ limits[b].age >= Window THEN NoWindow ELSE limits[b]
      BY DEF Current
    <3> QED
      BY <2>1, <3>1, <3>2, FitsArrival
  <2> HIDE DEF v, B
  <2>3. /\ ws \in [Buckets -> Counter] /\ admitted' \in [Buckets -> SUBSET Passage]
        /\ \A d \in Buckets : Fits(ws[d], admitted'[d])
    BY <1>1, <2>1, <2>2
  <2> HIDE DEF ws
  <2>4. CASE limits' = ws
    BY <2>3, <2>4
  <2>5. CASE limits' = Prune(ws)
    <3>1. ASSUME NEW d \in Buckets
          PROVE  /\ Prune(ws)[d] \in Counter
                 /\ Fits(Prune(ws)[d], admitted'[d])
      <4>0. NoWindow \in Counter
        BY RateLimiterAssumption DEF NoWindow, Counter, Oldest
      <4>1. ws[d] \in Counter /\ admitted'[d] \in SUBSET Passage /\ Fits(ws[d], admitted'[d])
        BY <2>3
      <4>2. Prune(ws)[d] = IF ws[d].age > 2 * Window THEN NoWindow ELSE ws[d]
        BY DEF Prune
      <4>3. CASE ws[d].age > 2 * Window
        <5>1. Fits(NoWindow, admitted'[d])
          BY <4>1, <4>3, FitsPruned
        <5> QED
          BY <4>0, <4>2, <4>3, <5>1
      <4>4. CASE ~(ws[d].age > 2 * Window)
        BY <4>1, <4>2, <4>4
      <4> QED
        BY <4>3, <4>4
    <3>2. Prune(ws) \in [Buckets -> Counter]
      BY <3>1 DEF Prune
    <3> QED
      BY <2>3, <2>5, <3>1, <3>2
  <2> QED
    BY <2>1, <2>4, <2>5
<1>4. CASE UNCHANGED limiterVars
  BY <1>1, <1>4 DEF limiterVars
<1> QED
  BY <1>2, <1>3, <1>4 DEF LimiterNext

LEMMA LimiterInvariant == LimiterSpec => []LimiterInv
BY LimiterInitial, LimiterStep, PTL DEF LimiterSpec

\* No minute of a bucket lets more than two windows' worth of requests
\* through, for any limit and window and however many other buckets make the
\* server prune: the code's fixed windows are no worse than that.
THEOREM BurstsAreBounded == LimiterSpec => []BurstIsTwoWindows
<1>1. LimiterInv => BurstIsTwoWindows
  <2> SUFFICES ASSUME LimiterInv, NEW b \in Buckets PROVE Cardinality(admitted[b]) <= 2 * Limit
    BY DEF BurstIsTwoWindows, Lately
  <2> DEFINE w == limits[b]
             A == admitted[b]
             in == {r \in A : r.age <= w.age}
             out == {r \in A : r.age > w.age}
  <2>1. /\ w \in Counter /\ A \in SUBSET Passage /\ Fits(w, A) /\ Limit \in Nat
    BY RateLimiterAssumption DEF LimiterInv, LimiterTypeOK, Counter, Passage
  <2>2. /\ Window \in Nat /\ w.age \in Nat /\ w.count \in Nat /\ w.count <= Limit
        /\ \A r \in A : r.age \in Nat
    BY <2>1, RateLimiterAssumption DEF Counter, Passage, Ages, Oldest
  <2>3. CASE w.count = 0
    <3>1. A = {}
      BY <2>1, <2>3 DEF Fits
    <3> QED
      BY <2>1, <3>1, FS_EmptySet
  <2>4. CASE w.count # 0 /\ w.age < Window
    <3>1. IsFiniteSet(A) /\ Cardinality(in) = w.count /\ Cardinality(out) <= Limit
      <4>1. w.count > 0
        BY <2>2, <2>4
      <4> QED
        BY <2>1, <2>4, <4>1 DEF Fits
    <3>2. IsFiniteSet(in) /\ IsFiniteSet(out) /\ Cardinality(out) \in Nat
      BY <3>1, FS_Subset, FS_CardinalityType
    <3>3. A = in \union out /\ in \cap out = {}
      <4>1. \A r \in A : r.age <= w.age <=> ~(r.age > w.age)
        BY <2>2
      <4> QED
        BY <4>1
    <3> HIDE DEF in, out
    <3>4. Cardinality(in \union out) = Cardinality(in) + Cardinality(out) - Cardinality(in \cap out)
      BY <3>2, FS_Union
    <3>5. Cardinality(in \cap out) = 0
      BY <3>3, FS_EmptySet
    <3> QED
      BY <2>1, <2>2, <3>1, <3>2, <3>3, <3>4, <3>5
  <2>5. CASE ~(w.age < Window)
    <3>1. w.age >= Window
      BY <2>2, <2>5
    <3>2. IsFiniteSet(A) /\ Cardinality(A) <= Limit
      BY <2>1, <3>1 DEF Fits
    <3>3. Cardinality(A) \in Nat
      BY <3>2, FS_CardinalityType
    <3> QED
      BY <2>1, <3>2, <3>3
  <2> QED
    BY <2>3, <2>4, <2>5
<1> QED
  BY <1>1, LimiterInvariant, PTL

\* A bucket is refused only after its whole limit went through in the last
\* minute: neither pruning nor an old window costs anybody a request.
THEOREM RefusalsAreEarned == LimiterSpec => []RefusalIsEarned
<1>1. LimiterInv => RefusalIsEarned
  <2> SUFFICES ASSUME LimiterInv, NEW b \in Buckets, Current(b).count >= Limit
               PROVE  Cardinality(admitted[b]) >= Limit
    BY DEF RefusalIsEarned, Lately
  <2> DEFINE w == limits[b]
             A == admitted[b]
             in == {r \in A : r.age <= w.age}
  <2>1. /\ w \in Counter /\ Fits(w, A) /\ Limit \in Nat /\ Limit > 0
    BY RateLimiterAssumption DEF LimiterInv, LimiterTypeOK, Counter
  <2>2. w.count # 0 /\ ~(w.age >= Window) /\ w.count >= Limit
    <3>1. ~(NoWindow.count >= Limit)
      BY <2>1 DEF NoWindow
    <3> QED
      BY <3>1 DEF Current
  <2>3. w.count > 0 /\ w.age < Window
    BY <2>1, <2>2, RateLimiterAssumption DEF Counter, Oldest
  <2>4. IsFiniteSet(A) /\ Cardinality(in) = w.count
    BY <2>1, <2>3 DEF Fits
  <2>5. Cardinality(in) <= Cardinality(A) /\ Cardinality(A) \in Nat /\ Cardinality(in) \in Nat
    BY <2>4, FS_Subset, FS_CardinalityType
  <2> HIDE DEF in
  <2> QED
    BY <2>1, <2>2, <2>4, <2>5
<1> QED
  BY <1>1, LimiterInvariant, PTL

-----------------------------------------------------------------------------
(***************************************************************************)
(* The product of the parts, which the run checks.                         *)
(***************************************************************************)

\* A behaviour of the product is one of every part: the others stutter.
LEMMA ProductStarts ==
  MCInit => Init /\ LimiterInit /\ ServiceInit /\ ClientInit /\ StartupInit /\ EventsInit
BY DEF MCInit

LEMMA ProductMoves ==
  [MCNext]_allVars => /\ [Next]_vars /\ [LimiterNext]_limiterVars
                      /\ [ServiceNext]_serviceVars /\ [ClientNext]_clientVars
                      /\ [StartupNext]_startupVars /\ [EventsNext]_eventVars
<1> SUFFICES ASSUME [MCNext]_allVars
             PROVE  /\ [Next]_vars /\ [LimiterNext]_limiterVars
                    /\ [ServiceNext]_serviceVars /\ [ClientNext]_clientVars
                    /\ [StartupNext]_startupVars /\ [EventsNext]_eventVars
  OBVIOUS
<1>1. CASE MCNext
  BY <1>1 DEF MCNext, Step
<1>2. CASE UNCHANGED allVars
  BY <1>2 DEF allVars
<1> QED
  BY <1>1, <1>2

\* The variables of all the parts keep their types in every behaviour of the
\* product.
THEOREM TypesAreKept == MCSpec => []ServerTypeOK
<1> DEFINE Inv == /\ CredentialsInv /\ LimiterInv /\ AlertInv
                  /\ TokenInv /\ MigrationInv /\ EventsInv
<1>1. MCInit => Inv
  BY ProductStarts, InvInit, LimiterInitial, AlertInit, TokenInit, MigrationInit, EventsInitial
<1>2. Inv /\ [MCNext]_allVars => Inv'
  BY ProductMoves, CredentialsStep, LimiterStep, AlertStep, TokenStep, MigrationStep, EventsStep
<1>3. Inv => ServerTypeOK
  BY DEF ServerTypeOK, CredentialsInv, LimiterInv, AlertInv, TokenInv, MigrationInv, EventsInv
<1> QED
  BY <1>1, <1>2, <1>3, PTL DEF MCSpec
=============================================================================
