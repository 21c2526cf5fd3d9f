-------------------------- MODULE Graceful_proofs --------------------------
(***************************************************************************)
(* Theorems about Graceful, for any checks, CRs, rights and bounds.        *)
(***************************************************************************)
EXTENDS Graceful, FiniteSetTheorems, Recursion_proofs

USE DEF Rights

Asking == {i \in Checks : review[i] = "asking"}

(* A report says what the goroutines found, and they have all ended.       *)
ReportKnown ==
    report # NoReport =>
        /\ Ended /\ ~Failed
        /\ report.granted = {i \in Checks : review[i] = "allowed"}
        /\ report.denied = {i \in Checks : review[i] = "denied"}

(* The free slots stay within bounds only because each goroutine that asks *)
(* holds one, so the type invariant needs the count.                       *)
DiscoveryInv == DiscoveryTypeOK /\ SlotsAccounted /\ ReportKnown

LEMMA SlotsType == Slots \in Nat \ {0}
BY DiscoveryAssumption DEF DiscoveryAssumption, Slots

LEMMA AskingFinite == IsFiniteSet(Asking) /\ Cardinality(Asking) \in Nat
<1>1. IsFiniteSet(Asking)
  BY DiscoveryAssumption, FS_Subset DEF DiscoveryAssumption, Asking
<1> QED  BY <1>1, FS_CardinalityType

(* Of one goroutine's step the count sees only whether it begins to ask or *)
(* ends.                                                                   *)
LEMMA AskingChanges ==
    ASSUME DiscoveryTypeOK, NEW i \in Checks, NEW r,
           review' = [review EXCEPT ![i] = r]
    PROVE  Cardinality(Asking)' = Cardinality(Asking)
               + (IF r = "asking" /\ review[i] # "asking" THEN 1
                  ELSE IF r # "asking" /\ review[i] = "asking" THEN -1 ELSE 0)
<1>1. review'[i] = r /\ \A j \in Checks : j # i => review'[j] = review[j]
  BY DEF DiscoveryTypeOK
<1>2. CASE r = "asking" /\ review[i] # "asking"
  <2>1. Asking' = Asking \cup {i} /\ i \notin Asking
    BY <1>1, <1>2 DEF Asking
  <2> QED  BY <1>2, <2>1, AskingFinite, FS_AddElement
<1>3. CASE r # "asking" /\ review[i] = "asking"
  <2>1. Asking' = Asking \ {i} /\ i \in Asking
    BY <1>1, <1>3 DEF Asking
  <2> QED  BY <1>3, <2>1, AskingFinite, FS_RemoveElement
<1>4. CASE (r = "asking") <=> (review[i] = "asking")
  <2>1. Asking' = Asking
    BY <1>1, <1>4 DEF Asking
  <2> QED  BY <1>4, <2>1, AskingFinite
<1> QED  BY <1>2, <1>3, <1>4

LEMMA NothingAsks ==
    ASSUME review = [i \in Checks |-> "waiting"], free = Slots
    PROVE  SlotsAccounted
<1>1. Asking = {}
  BY DEF Asking
<1> QED  BY <1>1, FS_EmptySet, SlotsType DEF SlotsAccounted, Asking

LEMMA InitDiscoveryInv == GracefulInit => DiscoveryInv
<1> SUFFICES ASSUME GracefulInit PROVE DiscoveryInv
  OBVIOUS
<1>0. /\ allowed \in SUBSET Rights /\ faults = 0 /\ free = Slots
      /\ review = [i \in Checks |-> "waiting"] /\ cancelled = FALSE /\ report = NoReport
  BY DEF GracefulInit, DiscoveryInit
<1>1. DiscoveryTypeOK
  <2>1. 0 \in 0..MaxFaults /\ Slots \in 0..Slots
    BY SlotsType, DiscoveryAssumption DEF DiscoveryAssumption
  <2> QED  BY <1>0, <2>1 DEF DiscoveryTypeOK
<1>2. SlotsAccounted
  BY NothingAsks DEF GracefulInit, DiscoveryInit
<1>3. ReportKnown
  BY DEF GracefulInit, DiscoveryInit, ReportKnown
<1> QED  BY <1>1, <1>2, <1>3 DEF DiscoveryInv

(* The steps of discovery, one by one.                                     *)
LEMMA GoroutineKeeps ==
    ASSUME DiscoveryInv, NEW i \in Checks, DiscoveryStep(i) \/ AskFails(i)
    PROVE  DiscoveryInv'
<1>. USE DEF DiscoveryInv
<1>t. free \in Nat /\ Cardinality(Asking) \in Nat /\ Cardinality(Asking) + free = Slots
  BY AskingFinite DEF DiscoveryTypeOK, SlotsAccounted, Asking
<1>n. report = NoReport
  BY DEF ReportKnown, Ended, DiscoveryStep, Acquire, GiveUp, Ask, AskFails, EndAsk
<1>r. report' = NoReport
  BY <1>n DEF DiscoveryStep, Acquire, GiveUp, Ask, AskFails, EndAsk
<1>f. faults' \in 0..MaxFaults
  BY DiscoveryAssumption DEF DiscoveryTypeOK, DiscoveryAssumption, Fault, DiscoveryStep,
     Acquire, GiveUp, Ask, AskFails
<1>1. CASE Acquire(i)
  <2>1. Cardinality(Asking)' = Cardinality(Asking) + 1
    BY <1>1, <1>t, AskingChanges DEF Acquire
  <2>2. SlotsAccounted'
    BY <1>1, <1>t, <2>1, SlotsType DEF Acquire, SlotsAccounted, Asking
  <2>3. DiscoveryTypeOK'
    BY <1>1, <1>t, <1>r, SlotsType DEF Acquire, DiscoveryTypeOK
  <2> QED  BY <2>2, <2>3, <1>r DEF ReportKnown
<1>2. CASE GiveUp(i)
  <2>1. Cardinality(Asking)' = Cardinality(Asking)
    <3>1. Asking' = Asking
      BY <1>2 DEF GiveUp, Asking, DiscoveryTypeOK
    <3> QED  BY <3>1
  <2>2. SlotsAccounted'
    BY <1>2, <1>t, <2>1 DEF GiveUp, SlotsAccounted, Asking
  <2>3. DiscoveryTypeOK'
    BY <1>2, <1>r DEF GiveUp, DiscoveryTypeOK
  <2> QED  BY <2>2, <2>3, <1>r DEF ReportKnown
<1>3. ASSUME NEW how \in {"allowed", "denied", "failed"}, EndAsk(i, how) PROVE DiscoveryInv'
  <2>1. Cardinality(Asking)' = Cardinality(Asking) - 1
    BY <1>3, <1>t, AskingChanges DEF EndAsk
  <2>2. Cardinality(Asking)' \in Nat
    <3>1. Asking' = Asking \ {i}
      BY <1>3 DEF EndAsk, Asking, DiscoveryTypeOK
    <3> QED  BY <3>1, AskingFinite, FS_RemoveElement, FS_CardinalityType
  <2>3. SlotsAccounted'
    BY <1>3, <1>t, <2>1, SlotsType DEF EndAsk, SlotsAccounted, Asking
  <2>4. DiscoveryTypeOK'
    BY <1>3, <1>t, <1>r, <1>f, <2>1, <2>2, SlotsType DEF EndAsk, DiscoveryTypeOK
  <2> QED  BY <2>3, <2>4, <1>r DEF ReportKnown
<1> QED  BY <1>1, <1>2, <1>3 DEF DiscoveryStep, Ask, AskFails

LEMMA CollectKeeps == ASSUME DiscoveryInv, Collect PROVE DiscoveryInv'
<1>. USE DEF DiscoveryInv
<1>1. report' \in Reports
  BY DEF Collect, Reports
<1>2. DiscoveryTypeOK'
  BY <1>1 DEF Collect, DiscoveryTypeOK
<1>3. SlotsAccounted'
  BY DEF Collect, SlotsAccounted
<1>4. ReportKnown'
  BY DEF Collect, ReportKnown, Ended, Failed
<1> QED  BY <1>2, <1>3, <1>4

LEMMA CancelKeeps == ASSUME DiscoveryInv, Cancel PROVE DiscoveryInv'
BY DiscoveryAssumption DEF DiscoveryInv, Cancel, Fault, DiscoveryTypeOK, SlotsAccounted, ReportKnown,
   DiscoveryAssumption

LEMMA AgainKeeps ==
    ASSUME DiscoveryInv, DiscoverAgain, allowed' \in SUBSET Rights, faults' \in 0..MaxFaults
    PROVE  DiscoveryInv'
<1>1. DiscoveryTypeOK'
  <2>1. Slots \in 0..Slots
    BY SlotsType
  <2> QED  BY <2>1 DEF DiscoverAgain, DiscoveryTypeOK
<1>2. SlotsAccounted'
  <2>1. Asking' = {}
    BY DEF DiscoverAgain, Asking
  <2> QED  BY <2>1, FS_EmptySet, SlotsType DEF DiscoverAgain, SlotsAccounted, Asking
<1> QED  BY <1>1, <1>2 DEF DiscoveryInv, DiscoverAgain, ReportKnown

(* Everybody else leaves discovery alone, or starts it afresh.             *)
LEMMA OthersAside ==
    ASSUME DiscoveryInv, GracefulNext,
           ~ \E i \in Checks : DiscoveryStep(i) \/ AskFails(i), ~Collect, ~Cancel
    PROVE  /\ UNCHANGED discoveryVars \/ DiscoverAgain
           /\ allowed' \in SUBSET Rights /\ faults' \in 0..MaxFaults
<1>. USE DiscoveryAssumption DEF DiscoveryInv, DiscoveryTypeOK, DiscoveryAssumption, discoveryVars, doRest
<1>1. ASSUME NEW c \in CRs, WorkerStep(c)
      PROVE  UNCHANGED <<discoveryVars, allowed, faults>>
  BY <1>1 DEF WorkerStep, Dequeue, ApplyReport, CallSucceeds, CallForbidden, Restore, Lookup, Report
<1>2. ASSUME NEW c \in CRs, CallFails(c) \/ LookupFails(c)
      PROVE  UNCHANGED <<discoveryVars, allowed>> /\ faults' \in 0..MaxFaults
  BY <1>2 DEF CallFails, LookupFails, Fault
<1>3. ASSUME NEW c \in CRs, Deliver(c) \/ TimerFires(c)
      PROVE  UNCHANGED <<discoveryVars, allowed, faults>>
  BY <1>3 DEF Deliver, TimerFires
<1>4. CASE SyncBindings
  BY <1>4 DEF SyncBindings
<1>5. CASE Restart
  BY <1>5 DEF Restart, Fault
<1>6. ASSUME NEW r \in Rights, ChangeRight(r)
      PROVE  UNCHANGED <<discoveryVars, faults>> /\ allowed' \in SUBSET Rights
  BY <1>6 DEF ChangeRight
<1>7. ASSUME NEW n \in Namespaces, ChangeBinding(n)
      PROVE  UNCHANGED <<discoveryVars, allowed, faults>>
  BY <1>7 DEF ChangeBinding
<1>8. ASSUME NEW k \in Keys, ResetBackoff(k)
      PROVE  UNCHANGED <<discoveryVars, allowed, faults>>
  BY <1>8 DEF ResetBackoff
<1> QED  BY <1>1, <1>2, <1>3, <1>4, <1>5, <1>6, <1>7, <1>8 DEF GracefulNext

LEMMA NextDiscoveryInv == DiscoveryInv /\ [GracefulNext]_gracefulVars => DiscoveryInv'
<1> SUFFICES ASSUME DiscoveryInv, [GracefulNext]_gracefulVars PROVE DiscoveryInv'
  OBVIOUS
<1>1. ASSUME NEW i \in Checks, DiscoveryStep(i) \/ AskFails(i) PROVE DiscoveryInv'
  BY <1>1, GoroutineKeeps
<1>2. CASE Collect
  BY <1>2, CollectKeeps
<1>3. CASE Cancel
  BY <1>3, CancelKeeps
<1>4. ASSUME UNCHANGED discoveryVars, allowed' \in SUBSET Rights, faults' \in 0..MaxFaults
      PROVE  DiscoveryInv'
  BY <1>4 DEF DiscoveryInv, DiscoveryTypeOK, SlotsAccounted, ReportKnown, Ended, Failed, discoveryVars
<1>5. CASE /\ GracefulNext /\ ~Collect /\ ~Cancel
           /\ ~ \E i \in Checks : DiscoveryStep(i) \/ AskFails(i)
  BY <1>4, <1>5, OthersAside, AgainKeeps
<1>6. CASE UNCHANGED gracefulVars
  BY <1>4, <1>6 DEF gracefulVars, DiscoveryInv, DiscoveryTypeOK
<1> QED  BY <1>1, <1>2, <1>3, <1>5, <1>6

LEMMA DiscoveryInvariance == GracefulSpec => []DiscoveryInv
BY InitDiscoveryInv, NextDiscoveryInv, PTL DEF GracefulSpec

(* However many checks there are and however they end, as many are asking  *)
(* as there are slots in use, never more than MaxConcurrency.              *)
THEOREM SlotsAreAccounted == GracefulSpec => []SlotsAccounted
<1>1. DiscoveryInv => SlotsAccounted
  BY DEF DiscoveryInv
<1> QED  BY <1>1, DiscoveryInvariance, PTL

(* A report is complete, tells each answer as it was given, and a denial   *)
(* of one check is not hidden by an answer to the same question.           *)
THEOREM ReportsAreFaithful == GracefulSpec => []ReportIsFaithful
<1>1. DiscoveryInv => ReportIsFaithful
  <2> SUFFICES ASSUME DiscoveryInv, report # NoReport
               PROVE  /\ report.granted \cup report.denied = Checks
                      /\ \A i \in Checks :
                            NamespaceResult(About[i][1])[About[i][2]] =>
                                \A j \in Checks : About[j] = About[i] => review[j] = "allowed"
    BY DEF DiscoveryInv, ReportKnown, ReportIsFaithful
  <2>1. report.granted = {i \in Checks : review[i] = "allowed"}
    BY DEF DiscoveryInv, ReportKnown
  <2>2. report.denied = {i \in Checks : review[i] = "denied"}
    BY DEF DiscoveryInv, ReportKnown
  <2>3. \A i \in Checks : review[i] = "allowed" \/ review[i] = "denied"
    BY DEF DiscoveryInv, ReportKnown, Ended, Failed
  <2>4. ASSUME NEW i \in Checks, NEW j \in Checks, About[j] = About[i], review[j] # "allowed"
        PROVE  ~NamespaceResult(About[i][1])[About[i][2]]
    <3>1. j \in report.denied /\ i \in report.granted \cup report.denied
      BY <2>1, <2>2, <2>3, <2>4
    <3> DEFINE told(S) == {About[k][2] : k \in {l \in S : About[l][1] = About[i][1]}}
    <3>2. About[i][2] \in told(report.denied)
      BY <2>4, <3>1
    <3> QED  BY <3>2 DEF NamespaceResult
  <2> QED  BY <2>1, <2>2, <2>3, <2>4
<1> QED  BY <1>1, DiscoveryInvariance, PTL

----------------------------------------------------------------------------
(* Delays.                                                                 *)

LEMMA FactorType == Factor \in Nat \ {0}
BY GracefulAssumption DEF GracefulAssumption, Factor

LEMMA ProductGrows ==
    ASSUME NEW a \in Nat, NEW b \in Nat, a <= b
    PROVE  a * Factor \in Nat /\ b * Factor \in Nat /\ a * Factor <= b * Factor /\ a <= a * Factor
BY FactorType, Z3

LEMMA FactorToTheStep ==
    /\ FactorToThe \in [Nat -> Nat]
    /\ FactorToThe[0] = 1
    /\ \A n \in Nat : FactorToThe[n + 1] = Factor * FactorToThe[n]
<1> DEFINE By == [v \in Nat |-> Factor * v]
           Is(f) == f = [n \in Nat |-> IF n = 0 THEN 1 ELSE Factor * f[n - 1]]
<1>1. By \in [Nat -> Nat]
  BY FactorType
<1>2. PICK g \in [Nat -> Nat] : g[0] = 1 /\ \A n \in Nat : g[n + 1] = By[g[n]]
  <2> DEFINE V == Nat
             one == 1
  <2>1. one \in V /\ By \in [V -> V]
    BY <1>1
  <2>2. \E g \in [Nat -> V] : g[0] = one /\ \A n \in Nat : g[n + 1] = By[g[n]]
    <3> HIDE DEF By, V, one
    <3> QED  BY <2>1, PrimitiveRecursion
  <2> HIDE DEF By
  <2> QED  BY <2>2
<1>3. ASSUME NEW n \in Nat PROVE g[n] = IF n = 0 THEN 1 ELSE Factor * g[n - 1]
  <2>1. CASE n = 0
    BY <1>2, <2>1
  <2>2. CASE n # 0
    <3>1. n - 1 \in Nat /\ (n - 1) + 1 = n
      BY <2>2
    <3>2. g[n] = By[g[n - 1]]
      BY <1>2, <3>1
    <3> QED  BY <2>2, <3>1, <3>2
  <2> QED  BY <2>1, <2>2
<1>4. Is(g)
  BY <1>3
<1>5. Is(FactorToThe)
  <2>1. FactorToThe = CHOOSE f : Is(f)
    BY DEF FactorToThe
  <2> HIDE DEF Is
  <2> QED  BY <1>4, <2>1
<1>6. \A n \in Nat : FactorToThe[n] = IF n = 0 THEN 1 ELSE Factor * FactorToThe[n - 1]
  BY <1>5
<1>7. FactorToThe[0] = 1 /\ \A n \in Nat : FactorToThe[n + 1] = Factor * FactorToThe[n]
  BY <1>6
<1>8. FactorToThe \in [Nat -> Nat]
  <2> DEFINE Typed == {n \in Nat : FactorToThe[n] \in Nat}
  <2>1. 0 \in Typed /\ \A n \in Nat : n \in Typed => n + 1 \in Typed
    BY <1>7, FactorType
  <2>2. Nat \subseteq Typed
    <3> HIDE DEF Typed
    <3> QED  BY <2>1, SetInduction
  <2>3. DOMAIN FactorToThe = Nat /\ FactorToThe = [n \in Nat |-> FactorToThe[n]]
    BY <1>5
  <2> QED  BY <2>2, <2>3
<1> QED  BY <1>7, <1>8

(* A delay and the one after it.                                           *)
After(d) == IF d * Factor > MaxRequeue THEN MaxRequeue ELSE d * Factor

LEMMA BackoffStep ==
    /\ Backoff \in [Nat -> 1..MaxRequeue]
    /\ Backoff[0] = RequeueAfter /\ Backoff[1] = RequeueAfter
    /\ \A n \in Nat \ {0} : Backoff[n + 1] = After(Backoff[n])
<1> DEFINE Delays == 1..MaxRequeue
           By == [v \in Delays |-> After(v)]
           Is(f) == f = [n \in Nat |->
                           IF n <= 1 THEN RequeueAfter
                           ELSE LET d == f[n - 1] * Factor
                                IN  IF d > MaxRequeue THEN MaxRequeue ELSE d]
<1>0. RequeueAfter \in Delays /\ MaxRequeue \in Delays
  BY GracefulAssumption DEF GracefulAssumption
<1>1. \A v \in Delays : After(v) \in Delays
  BY <1>0, ProductGrows DEF After
<1>2. PICK g \in [Nat -> Delays] : g[0] = RequeueAfter /\ \A n \in Nat : g[n + 1] = By[g[n]]
  <2>1. By \in [Delays -> Delays]
    BY <1>1
  <2> HIDE DEF By, Delays
  <2> QED  BY <1>0, <2>1, PrimitiveRecursion
<1>3. \A n \in Nat : g[n + 1] = After(g[n])
  BY <1>2
<1> DEFINE b == [n \in Nat |-> IF n = 0 THEN RequeueAfter ELSE g[n - 1]]
<1>4. b \in [Nat -> Delays] /\ b[0] = RequeueAfter /\ b[1] = RequeueAfter
  BY <1>0, <1>2
<1>5. ASSUME NEW n \in Nat \ {0} PROVE b[n + 1] = After(b[n])
  <2>1. n - 1 \in Nat /\ n + 1 \in Nat /\ n + 1 # 0 /\ n # 0 /\ (n + 1) - 1 = (n - 1) + 1
    OBVIOUS
  <2>2. b[n] = g[n - 1] /\ b[n + 1] = g[(n - 1) + 1]
    BY <2>1
  <2> QED  BY <1>3, <2>1, <2>2
<1>6. Is(b)
  <2> HIDE DEF b
  <2>1. ASSUME NEW n \in Nat
        PROVE  b[n] = IF n <= 1 THEN RequeueAfter
                      ELSE LET d == b[n - 1] * Factor
                           IN  IF d > MaxRequeue THEN MaxRequeue ELSE d
    <3>1. CASE n <= 1
      BY <1>4, <3>1
    <3>2. CASE ~(n <= 1)
      <4>1. n - 1 \in Nat \ {0} /\ (n - 1) + 1 = n
        BY <3>2
      <4>2. b[n] = After(b[n - 1])
        BY <1>5, <4>1
      <4> QED  BY <3>2, <4>2 DEF After
    <3> QED  BY <3>1, <3>2
  <2> QED  BY <1>4, <2>1
<1>7. Is(Backoff)
  <2>1. Backoff = CHOOSE f : Is(f)
    BY DEF Backoff
  <2> HIDE DEF Is
  <2> QED  BY <1>6, <2>1
<1>8. /\ DOMAIN Backoff = Nat /\ Backoff = [n \in Nat |-> Backoff[n]]
      /\ Backoff[0] = RequeueAfter /\ Backoff[1] = RequeueAfter
  BY <1>7
<1>9. ASSUME NEW n \in Nat \ {0} PROVE Backoff[n + 1] = After(Backoff[n])
  <2>1. n + 1 \in Nat /\ ~(n + 1 <= 1) /\ (n + 1) - 1 = n
    OBVIOUS
  <2>2. Backoff[n + 1] = IF n + 1 <= 1 THEN RequeueAfter
                         ELSE LET d == Backoff[(n + 1) - 1] * Factor
                              IN  IF d > MaxRequeue THEN MaxRequeue ELSE d
    BY <1>7, <2>1
  <2> QED  BY <2>1, <2>2 DEF After
<1>10. Backoff \in [Nat -> Delays]
  <2> DEFINE Typed == {n \in Nat : Backoff[n] \in Delays /\ Backoff[n + 1] \in Delays}
  <2>1. 0 \in Typed
    BY <1>0, <1>8
  <2>2. ASSUME NEW n \in Nat, n \in Typed PROVE n + 1 \in Typed
    <3>1. n + 1 \in Nat \ {0} /\ Backoff[n + 1] \in Delays
      BY <2>2
    <3>2. Backoff[(n + 1) + 1] = After(Backoff[n + 1])
      BY <1>9, <3>1
    <3> QED  BY <1>1, <3>1, <3>2
  <2>3. Nat \subseteq Typed
    <3> HIDE DEF Typed
    <3> QED  BY <2>1, <2>2, SetInduction
  <2> QED  BY <1>8, <2>3
<1> QED  BY <1>8, <1>9, <1>10

(* Counting on never shortens the delay.                                   *)
LEMMA DelaysGrow ==
    ASSUME NEW n \in Nat \ {0}, NEW m \in 1..n
    PROVE  calculateBackoff(m) \in 1..MaxRequeue /\ calculateBackoff(m) <= calculateBackoff(n)
<1> DEFINE Grown == {i \in Nat : i > m => Backoff[m] <= Backoff[i]}
<1>1. 0 \in Grown
  OBVIOUS
<1>2. ASSUME NEW i \in Nat, i \in Grown PROVE i + 1 \in Grown
  <2> SUFFICES ASSUME i + 1 > m PROVE Backoff[m] <= Backoff[i + 1]
    OBVIOUS
  <2>1. i \in Nat \ {0} /\ m \in Nat /\ (i > m \/ i = m)
    OBVIOUS
  <2>2. Backoff[m] \in 1..MaxRequeue /\ Backoff[i] \in 1..MaxRequeue
    BY <2>1, BackoffStep
  <2>3. Backoff[m] <= Backoff[i]
    BY <1>2, <2>1, <2>2
  <2>4. Backoff[i + 1] = After(Backoff[i])
    BY <2>1, BackoffStep
  <2>5. Backoff[i] <= After(Backoff[i]) /\ After(Backoff[i]) \in Nat
    <3> DEFINE d == Backoff[i]
    <3>1. d \in Nat /\ d <= MaxRequeue /\ MaxRequeue \in Nat
      BY <2>2, GracefulAssumption DEF GracefulAssumption
    <3> HIDE DEF d
    <3>2. d * Factor \in Nat /\ d <= d * Factor
      BY <3>1, ProductGrows
    <3>3. d <= After(d) /\ After(d) \in Nat
      BY <3>1, <3>2 DEF After
    <3> QED  BY <3>3 DEF d
  <2> QED  BY <2>2, <2>3, <2>4, <2>5
<1>3. Nat \subseteq Grown
  <2> HIDE DEF Grown
  <2> QED  BY <1>1, <1>2, SetInduction
<1>4. Backoff[m] \in 1..MaxRequeue
  BY BackoffStep
<1> QED  BY <1>3, <1>4 DEF calculateBackoff

(* Cutting off the delay after each multiplication, as the code does, is   *)
(* the same as cutting off the product once, as the documentation says.    *)
LEMMA DelaysFollowSchedule ==
    ASSUME NEW n \in Nat \ {0}
    PROVE  calculateBackoff(n) = Schedule(n)
<1> DEFINE Follow == {i \in Nat : Backoff[i + 1] = Schedule(i + 1)}
<1>0. RequeueAfter \in Nat /\ MaxRequeue \in Nat /\ RequeueAfter <= MaxRequeue
  BY GracefulAssumption DEF GracefulAssumption
<1>1. 0 \in Follow
  <2>1. 0 + 1 = 1 /\ 1 - 1 = 0
    OBVIOUS
  <2> QED  BY <1>0, <2>1, BackoffStep, FactorToTheStep DEF Schedule
<1>2. ASSUME NEW i \in Nat, i \in Follow PROVE i + 1 \in Follow
  <2> DEFINE p == RequeueAfter * FactorToThe[i]
  <2>1. /\ i + 1 \in Nat \ {0} /\ (i + 1) - 1 = i /\ ((i + 1) + 1) - 1 = i + 1
        /\ FactorToThe[i] \in Nat /\ p \in Nat
    <3>1. FactorToThe[i] \in Nat
      BY FactorToTheStep
    <3> QED  BY <1>0, <3>1, Z3
  <2>2. Backoff[i + 1] = IF p > MaxRequeue THEN MaxRequeue ELSE p
    BY <1>2, <2>1 DEF Schedule
  <2>3. Backoff[(i + 1) + 1] = After(Backoff[i + 1])
    BY <2>1, BackoffStep
  <2>4. RequeueAfter * FactorToThe[i + 1] = p * Factor
    <3>1. FactorToThe[i + 1] = Factor * FactorToThe[i]
      BY FactorToTheStep
    <3>2. ASSUME NEW a \in Nat, NEW f \in Nat, NEW t \in Nat PROVE a * (f * t) = (a * t) * f
      BY Z3
    <3> QED  BY <1>0, <2>1, <3>1, <3>2, FactorType
  <2>5. Schedule((i + 1) + 1) = IF p * Factor > MaxRequeue THEN MaxRequeue ELSE p * Factor
    BY <2>1, <2>4 DEF Schedule
  <2>6. After(Backoff[i + 1]) = IF p * Factor > MaxRequeue THEN MaxRequeue ELSE p * Factor
    <3> HIDE DEF p
    <3>1. p <= p * Factor /\ p * Factor \in Nat /\ MaxRequeue <= MaxRequeue * Factor
          /\ MaxRequeue * Factor \in Nat
      BY <1>0, <2>1, ProductGrows
    <3> QED  BY <1>0, <2>1, <2>2, <3>1 DEF After
  <2> QED  BY <2>3, <2>5, <2>6
<1>3. Nat \subseteq Follow
  <2> HIDE DEF Follow
  <2> QED  BY <1>1, <1>2, SetInduction
<1>4. n - 1 \in Follow /\ (n - 1) + 1 = n
  BY <1>3
<1> QED  BY <1>4 DEF calculateBackoff

----------------------------------------------------------------------------
(* The handler.                                                            *)

WorkOK ==
    /\ phase \in [CRs -> {"idle", "apply", "call", "restore", "lookup", "report"}]
    /\ op \in [CRs -> Nat] /\ \A c \in CRs : op[c] \in 1..Len(Ops[c])
    /\ copy \in [CRs -> Conditions]
    /\ reason \in [CRs -> {"None", "MissingPermissions", "ProvisioningPending",
                           "PermissionDenied"}]

StoreOK ==
    /\ bound \in SUBSET Namespaces /\ boundSeen \in SUBSET Namespaces
    /\ status \in [CRs -> Conditions] /\ seen \in [CRs -> Conditions]
    /\ due \in SUBSET CRs /\ timers \in SUBSET CRs /\ unapplied \in SUBSET CRs
    /\ edits \in 0..MaxEdits

CountsOK ==
    /\ counts \in [Keys -> 0..CountCap]
    /\ wait \in [CRs -> Waits \cup {NoWait}]

(* A delay was decided by a count that has only grown since.               *)
WaitKnown ==
    \A c \in CRs : wait[c] # NoWait =>
        \E n \in 1..counts[KeyOf[wait[c].what]] : wait[c].delay = calculateBackoff(n)

HandlerInv == WorkOK /\ StoreOK /\ CountsOK /\ WaitKnown

LEMMA ConditionsType ==
    /\ Unreported \in Conditions
    /\ \A by \in {"handler", "report"} : Available(by) \in Conditions
    /\ \A why \in {"None", "MissingPermissions", "ProvisioningPending", "PermissionDenied"},
          what \in Perms \cup {"report"} : Missing(why, what) \in Conditions
    /\ Reported \in Conditions
BY DEF Unreported, Available, Missing, Reported, Conditions

LEMMA OpsType ==
    ASSUME NEW c \in CRs
    PROVE  /\ Ops[c] \in Seq(Perms) /\ Len(Ops[c]) \in Nat /\ 1 \in 1..Len(Ops[c])
           /\ \A j \in 1..Len(Ops[c]) : Ops[c][j] \in Perms
<1>1. Ops[c] \in Seq(Perms) /\ Ops[c] # <<>>
  BY GracefulAssumption DEF GracefulAssumption
<1> QED  BY <1>1

LEMMA ForgetsType ==
    ASSUME WorkOK, NEW c \in CRs, Forgets(c)
    PROVE  WorkOK'
BY ConditionsType, OpsType DEF WorkOK, Forgets

LEMMA ContinueType ==
    ASSUME WorkOK, due \in SUBSET CRs, timers \in SUBSET CRs,
           NEW c \in CRs, NEW now \in Conditions, Continue(c, now)
    PROVE  WorkOK' /\ due' \in SUBSET CRs /\ timers' \in SUBSET CRs
<1>1. CASE Done(c)
  BY <1>1, ForgetsType DEF Done
<1>2. CASE /\ op[c] < Len(Ops[c])
           /\ op' = [op EXCEPT ![c] = @ + 1]
           /\ phase' = [phase EXCEPT ![c] = "call"]
           /\ copy' = [copy EXCEPT ![c] = now]
           /\ UNCHANGED <<reason, due, timers>>
  <2>1. op[c] + 1 \in 1..Len(Ops[c])
    BY <1>2, OpsType DEF WorkOK
  <2>2. op' \in [CRs -> Nat] /\ \A d \in CRs : op'[d] \in 1..Len(Ops[d])
    BY <1>2, <2>1 DEF WorkOK
  <2> QED  BY <1>2, <2>2 DEF WorkOK
<1> QED  BY <1>1, <1>2 DEF Continue

LEMMA ErrsType ==
    ASSUME WorkOK, due \in SUBSET CRs, timers \in SUBSET CRs,
           NEW c \in CRs, Errs(c) \/ Retries(c)
    PROVE  WorkOK' /\ due' \in SUBSET CRs /\ timers' \in SUBSET CRs
BY ForgetsType DEF Errs, Retries

LEMMA InitHandlerInv == GracefulInit => HandlerInv
<1> SUFFICES ASSUME GracefulInit PROVE HandlerInv
  OBVIOUS
<1>1. WorkOK
  BY ConditionsType, OpsType DEF GracefulInit, OperatorStarts, WorkOK
<1>2. StoreOK
  BY ConditionsType, GracefulAssumption DEF GracefulInit, OperatorStarts, StoreOK, GracefulAssumption
<1>3. CountsOK /\ WaitKnown
  BY GracefulAssumption DEF GracefulInit, OperatorStarts, CountsOK, WaitKnown, GracefulAssumption
<1> QED  BY <1>1, <1>2, <1>3 DEF HandlerInv

(* What does not count a denial keeps the history as it is.                *)
LEMMA HistoryKept ==
    ASSUME CountsOK, WaitKnown, UNCHANGED <<counts, wait>>
    PROVE  CountsOK' /\ WaitKnown'
BY DEF CountsOK, WaitKnown

LEMMA UpdateType ==
    ASSUME WorkOK, StoreOK, NEW c \in CRs, NEW new \in Conditions, NEW ACTION next,
           UpdateStatus(c, new, next),
           next => /\ WorkOK' /\ unapplied' \in SUBSET CRs
                   /\ due' \in SUBSET CRs /\ timers' \in SUBSET CRs,
           UNCHANGED <<bound, boundSeen, seen, edits>>
    PROVE  WorkOK' /\ StoreOK'
<1>1. CASE /\ status[c] = copy[c]
           /\ status' = [status EXCEPT ![c] = new]
           /\ next
  BY <1>1 DEF StoreOK
<1>2. CASE Errs(c) /\ UNCHANGED <<status, unapplied>>
  BY <1>2, ErrsType DEF StoreOK
<1> QED  BY <1>1, <1>2 DEF UpdateStatus

LEMMA ReadingKeeps ==
    ASSUME HandlerInv, NEW c \in CRs, Dequeue(c) \/ Deliver(c) \/ TimerFires(c)
    PROVE  HandlerInv'
<1>. USE DEF HandlerInv
<1>1. CASE Dequeue(c)
  <2>1. WorkOK' /\ StoreOK'
    BY <1>1 DEF Dequeue, WorkOK, StoreOK
  <2> QED  BY <1>1, <2>1, HistoryKept DEF Dequeue
<1>2. CASE Deliver(c)
  <2>1. WorkOK' /\ StoreOK'
    BY <1>2 DEF Deliver, workVars, WorkOK, StoreOK
  <2> QED  BY <1>2, <2>1, HistoryKept DEF Deliver
<1>3. CASE TimerFires(c)
  <2>1. WorkOK' /\ StoreOK'
    BY <1>3 DEF TimerFires, workVars, WorkOK, StoreOK
  <2> QED  BY <1>3, <2>1, HistoryKept DEF TimerFires
<1> QED  BY <1>1, <1>2, <1>3

LEMMA ApplyKeeps == ASSUME HandlerInv, NEW c \in CRs, ApplyReport(c) PROVE HandlerInv'
<1>. USE DEF HandlerInv
<1> DEFINE next == /\ Goto(c, "call") /\ copy' = [copy EXCEPT ![c] = Reported]
                   /\ unapplied' = unapplied \ {c}
<1>1. next => /\ WorkOK' /\ unapplied' \in SUBSET CRs
              /\ due' \in SUBSET CRs /\ timers' \in SUBSET CRs
  BY ConditionsType DEF Goto, WorkOK, StoreOK
<1>2. UpdateStatus(c, Reported, next) /\ UNCHANGED <<bound, boundSeen, seen, edits>>
  BY DEF ApplyReport
<1>3. WorkOK' /\ StoreOK'
  <2> HIDE DEF next
  <2> QED  BY <1>1, <1>2, ConditionsType, UpdateType
<1> QED  BY <1>3, HistoryKept DEF ApplyReport

LEMMA SucceedsKeeps == ASSUME HandlerInv, NEW c \in CRs, CallSucceeds(c) PROVE HandlerInv'
<1>. USE DEF HandlerInv
<1>1. CASE Goto(c, "restore") /\ UNCHANGED copy
  BY <1>1, HistoryKept DEF CallSucceeds, Goto, WorkOK, StoreOK, doRest
<1>2. CASE Continue(c, copy[c])
  <2>1. WorkOK' /\ due' \in SUBSET CRs /\ timers' \in SUBSET CRs
    BY <1>2, ContinueType DEF WorkOK, StoreOK
  <2>2. StoreOK'
    BY <2>1 DEF CallSucceeds, StoreOK, doRest
  <2> QED  BY <2>1, <2>2, HistoryKept DEF CallSucceeds
<1> QED  BY <1>1, <1>2 DEF CallSucceeds

LEMMA RestoreKeeps == ASSUME HandlerInv, NEW c \in CRs, Restore(c) PROVE HandlerInv'
<1>. USE DEF HandlerInv
<1> DEFINE next == Continue(c, Available("handler")) /\ UNCHANGED unapplied
<1>1. next => /\ WorkOK' /\ unapplied' \in SUBSET CRs
              /\ due' \in SUBSET CRs /\ timers' \in SUBSET CRs
  BY ConditionsType, ContinueType DEF StoreOK
<1>2. UpdateStatus(c, Available("handler"), next) /\ UNCHANGED <<bound, boundSeen, seen, edits>>
  BY DEF Restore
<1>3. WorkOK' /\ StoreOK'
  <2> HIDE DEF next
  <2> QED  BY <1>1, <1>2, ConditionsType, UpdateType
<1> QED  BY <1>3, HistoryKept DEF Restore

LEMMA ReportKeeps == ASSUME HandlerInv, NEW c \in CRs, Report(c) PROVE HandlerInv'
<1>. USE DEF HandlerInv
<1> DEFINE next == Retries(c) /\ UNCHANGED unapplied
<1>1. next => /\ WorkOK' /\ unapplied' \in SUBSET CRs
              /\ due' \in SUBSET CRs /\ timers' \in SUBSET CRs
  BY ErrsType DEF StoreOK
<1>2. Missing(reason[c], Needs(c)) \in Conditions
  BY ConditionsType, OpsType DEF WorkOK, Needs
<1>3. UpdateStatus(c, Missing(reason[c], Needs(c)), next) /\ UNCHANGED <<bound, boundSeen, seen, edits>>
  BY DEF Report
<1>4. WorkOK' /\ StoreOK'
  <2> HIDE DEF next
  <2> QED  BY <1>1, <1>2, <1>3, UpdateType
<1> QED  BY <1>4, HistoryKept DEF Report

LEMMA LookupKeeps ==
    ASSUME HandlerInv, NEW c \in CRs, Lookup(c) \/ LookupFails(c) PROVE HandlerInv'
BY HistoryKept DEF HandlerInv, Lookup, LookupFails, doRest, WorkOK, StoreOK

LEMMA FailsKeeps == ASSUME HandlerInv, NEW c \in CRs, CallFails(c) PROVE HandlerInv'
<1>1. WorkOK' /\ due' \in SUBSET CRs /\ timers' \in SUBSET CRs
  BY ErrsType DEF HandlerInv, StoreOK, CallFails
<1>2. StoreOK'
  BY <1>1 DEF HandlerInv, StoreOK, CallFails, doRest
<1> QED  BY <1>1, <1>2, HistoryKept DEF HandlerInv, CallFails

(* The count of a denial: at least every count of that key before it.      *)
CountAfter(c) ==
    IF counts[KeyOf[Needs(c)]] < CountCap THEN counts[KeyOf[Needs(c)]] + 1 ELSE CountCap

LEMMA CountAfterType ==
    ASSUME HandlerInv, NEW c \in CRs
    PROVE  /\ Needs(c) \in Perms /\ KeyOf[Needs(c)] \in Keys
           /\ CountAfter(c) \in 1..CountCap /\ counts[KeyOf[Needs(c)]] <= CountAfter(c)
           /\ \A k \in Keys : counts[k] \in 0..CountCap
<1>1. Needs(c) \in Perms
  BY OpsType DEF HandlerInv, WorkOK, Needs
<1>2. KeyOf[Needs(c)] \in Keys /\ CountCap \in Nat \ {0}
  BY <1>1, GracefulAssumption DEF GracefulAssumption
<1>3. \A k \in Keys : counts[k] \in 0..CountCap
  BY DEF HandlerInv, CountsOK
<1> QED  BY <1>1, <1>2, <1>3 DEF CountAfter

LEMMA ForbiddenKeeps ==
    ASSUME HandlerInv, NEW c \in CRs, CallForbidden(c) PROVE HandlerInv'
<1>. USE DEF HandlerInv
<1> DEFINE k == KeyOf[Needs(c)]
           w == [what |-> Needs(c), delay |-> calculateBackoff(CountAfter(c))]
<1>1. counts' = [counts EXCEPT ![k] = CountAfter(c)] /\ wait' = [wait EXCEPT ![c] = w]
  BY DEF CallForbidden, CountAfter
<1>2. w \in Waits
  BY CountAfterType, DelaysGrow, GracefulAssumption DEF Waits, GracefulAssumption
<1>3. counts' \in [Keys -> 0..CountCap]
  BY <1>1, CountAfterType DEF CountsOK
<1>4. \A l \in Keys : counts[l] <= counts'[l] /\ counts[l] \in Nat /\ counts'[l] \in Nat
  BY <1>1, <1>3, CountAfterType DEF CountsOK
<1>5. WaitKnown'
  <2> SUFFICES ASSUME NEW d \in CRs, wait'[d] # NoWait
               PROVE  \E n \in 1..counts'[KeyOf[wait'[d].what]] : wait'[d].delay = calculateBackoff(n)
    BY DEF WaitKnown
  <2>1. CASE d = c
    <3>1. wait'[d] = w /\ counts'[k] = CountAfter(c)
      BY <1>1, <2>1, CountAfterType DEF CountsOK
    <3>2. CountAfter(c) \in 1..counts'[k]
      BY <3>1, CountAfterType
    <3> QED  BY <3>1, <3>2
  <2>2. CASE d # c
    <3>1. wait'[d] = wait[d] /\ wait[d] \in Waits
      BY <1>1, <2>2 DEF CountsOK
    <3>2. KeyOf[wait[d].what] \in Keys
      BY <3>1, GracefulAssumption DEF GracefulAssumption, Waits
    <3>3. PICK n \in 1..counts[KeyOf[wait[d].what]] : wait[d].delay = calculateBackoff(n)
      BY <3>1 DEF WaitKnown
    <3>4. n \in 1..counts'[KeyOf[wait'[d].what]]
      BY <1>4, <3>1, <3>2, <3>3
    <3> QED  BY <3>1, <3>3, <3>4
  <2> QED  BY <2>1, <2>2
<1>6. CountsOK'
  <2> HIDE DEF w
  <2> QED  BY <1>1, <1>2, <1>3 DEF CountsOK
<1>7. WorkOK' /\ StoreOK'
  BY DEF CallForbidden, doRest, WorkOK, StoreOK
<1> QED  BY <1>5, <1>6, <1>7

LEMMA RestartKeeps == ASSUME HandlerInv, Restart PROVE HandlerInv'
<1>. USE DEF HandlerInv
<1>1. WorkOK'
  BY ConditionsType, OpsType DEF Restart, WorkOK
<1>2. StoreOK'
  BY DEF Restart, StoreOK
<1>3. CountsOK' /\ WaitKnown'
  BY GracefulAssumption DEF Restart, CountsOK, WaitKnown, GracefulAssumption
<1> QED  BY <1>1, <1>2, <1>3

LEMMA EditsKeep ==
    ASSUME HandlerInv,
           \/ SyncBindings
           \/ \E r \in Rights : ChangeRight(r)
           \/ \E n \in Namespaces : ChangeBinding(n)
    PROVE  HandlerInv'
<1>. USE DEF HandlerInv
<1>1. edits' \in 0..MaxEdits
  BY GracefulAssumption DEF SyncBindings, ChangeRight, ChangeBinding, Edit, StoreOK, GracefulAssumption
<1>2. WorkOK' /\ StoreOK'
  BY <1>1 DEF SyncBindings, ChangeRight, ChangeBinding, workVars, WorkOK, StoreOK
<1>3. CountsOK' /\ WaitKnown'
  BY HistoryKept DEF SyncBindings, ChangeRight, ChangeBinding
<1> QED  BY <1>2, <1>3

LEMMA ResetKeeps == ASSUME HandlerInv, NEW k \in Keys, ResetBackoff(k) PROVE HandlerInv'
<1>. USE DEF HandlerInv
<1>1. edits' \in 0..MaxEdits
  BY GracefulAssumption DEF ResetBackoff, Edit, StoreOK, GracefulAssumption
<1>2. WorkOK' /\ StoreOK'
  BY <1>1 DEF ResetBackoff, workVars, WorkOK, StoreOK
<1>3. CountsOK'
  BY GracefulAssumption DEF ResetBackoff, CountsOK, GracefulAssumption
<1>4. WaitKnown'
  <2> SUFFICES ASSUME NEW d \in CRs, wait'[d] # NoWait
               PROVE  \E n \in 1..counts'[KeyOf[wait'[d].what]] : wait'[d].delay = calculateBackoff(n)
    BY DEF WaitKnown
  <2>1. wait'[d] = wait[d] /\ wait[d] # NoWait /\ KeyOf[wait[d].what] # k
    BY DEF ResetBackoff
  <2>2. counts'[KeyOf[wait[d].what]] = counts[KeyOf[wait[d].what]]
    <3>1. KeyOf[wait[d].what] \in Keys
      BY <2>1, GracefulAssumption DEF GracefulAssumption, CountsOK, Waits
    <3> QED  BY <2>1, <3>1 DEF ResetBackoff, CountsOK
  <2> QED  BY <2>1, <2>2 DEF WaitKnown
<1> QED  BY <1>2, <1>3, <1>4

LEMMA AsideKeeps == ASSUME HandlerInv, UNCHANGED handlerVars PROVE HandlerInv'
BY DEF HandlerInv, handlerVars, workVars, WorkOK, StoreOK, CountsOK, WaitKnown

LEMMA NextHandlerInv == HandlerInv /\ [GracefulNext]_gracefulVars => HandlerInv'
<1> SUFFICES ASSUME HandlerInv, [GracefulNext]_gracefulVars PROVE HandlerInv'
  OBVIOUS
<1>1. ASSUME NEW c \in CRs, WorkerStep(c) PROVE HandlerInv'
  BY <1>1, ReadingKeeps, ApplyKeeps, SucceedsKeeps, ForbiddenKeeps, RestoreKeeps, LookupKeeps,
     ReportKeeps DEF WorkerStep
<1>2. ASSUME NEW c \in CRs, \/ CallFails(c) \/ LookupFails(c)
                            \/ Deliver(c) \/ TimerFires(c)
      PROVE  HandlerInv'
  BY <1>2, FailsKeeps, LookupKeeps, ReadingKeeps
<1>3. CASE UNCHANGED gracefulVars
  BY <1>3, AsideKeeps DEF gracefulVars, handlerVars
<1> QED  BY <1>1, <1>2, <1>3, AsideKeeps, RestartKeeps, EditsKeep, ResetKeeps DEF GracefulNext

LEMMA HandlerInvariance == GracefulSpec => []HandlerInv
BY InitHandlerInv, NextHandlerInv, PTL DEF GracefulSpec

(* Every variable of the operator keeps its type: no call is beyond the    *)
(* last of the Reconcile, no delay beyond MaxRequeue.                      *)
THEOREM GracefulTypeCorrect == GracefulSpec => []GracefulTypeOK
<1>1. DiscoveryInv /\ HandlerInv => GracefulTypeOK
  BY DEF DiscoveryInv, HandlerInv, WorkOK, StoreOK, CountsOK, GracefulTypeOK
<1> QED  BY <1>1, DiscoveryInvariance, HandlerInvariance, PTL

(* The delays of a CR denied the same thing again and again never shrink,  *)
(* however many CRs and permissions share a count and whatever succeeds.   *)
THEOREM PatienceOnlyGrows == GracefulSpec => PatienceGrows
<1> DEFINE Patient == \A c \in CRs :
          wait[c] # NoWait /\ wait'[c] # NoWait /\ wait'[c].what = wait[c].what =>
              wait'[c].delay >= wait[c].delay
<1>1. ASSUME HandlerInv, [GracefulNext]_gracefulVars PROVE [Patient]_gracefulVars
  <2> SUFFICES ASSUME NEW d \in CRs, wait[d] # NoWait, wait'[d] # NoWait,
                      wait'[d].what = wait[d].what, GracefulNext
               PROVE  wait'[d].delay >= wait[d].delay
    BY <1>1
  <2>1. wait[d] \in Waits /\ wait[d].delay \in Nat
    BY <1>1, GracefulAssumption DEF HandlerInv, CountsOK, Waits, GracefulAssumption
  <2>2. CASE wait'[d] = wait[d]
    BY <2>1, <2>2
  <2>3. ASSUME NEW c \in CRs, CallForbidden(c) PROVE wait'[d].delay >= wait[d].delay
    <3>1. CASE d # c
      BY <2>2, <2>3, <3>1, <1>1 DEF CallForbidden, HandlerInv, CountsOK
    <3>2. CASE d = c
      <4>1. wait'[d] = [what |-> Needs(c), delay |-> calculateBackoff(CountAfter(c))]
        BY <1>1, <2>3, <3>2 DEF CallForbidden, CountAfter, HandlerInv, CountsOK
      <4>2. PICK n \in 1..counts[KeyOf[Needs(c)]] : wait[d].delay = calculateBackoff(n)
        BY <1>1, <4>1 DEF HandlerInv, WaitKnown
      <4>3. n \in 1..CountAfter(c) /\ CountAfter(c) \in 1..CountCap
        BY <1>1, <4>2, CountAfterType
      <4>4. calculateBackoff(n) <= calculateBackoff(CountAfter(c))
        BY <4>3, DelaysGrow
      <4>5. calculateBackoff(CountAfter(c)) \in Nat
        BY <4>3, DelaysGrow, GracefulAssumption DEF GracefulAssumption
      <4> QED  BY <2>1, <4>1, <4>2, <4>4, <4>5
    <3> QED  BY <3>1, <3>2
  <2>4. ASSUME NEW c \in CRs,
               \/ Dequeue(c) \/ ApplyReport(c) \/ CallSucceeds(c) \/ Restore(c) \/ Lookup(c)
               \/ Report(c) \/ CallFails(c) \/ LookupFails(c) \/ Deliver(c) \/ TimerFires(c)
        PROVE  wait' = wait
    BY <2>4 DEF Dequeue, ApplyReport, CallSucceeds, Restore, Lookup, Report, CallFails, LookupFails,
       Deliver, TimerFires
  <2>5. ASSUME UNCHANGED handlerVars \/ SyncBindings
               \/ (\E r \in Rights : ChangeRight(r)) \/ (\E n \in Namespaces : ChangeBinding(n))
        PROVE  wait' = wait
    BY <2>5 DEF handlerVars, SyncBindings, ChangeRight, ChangeBinding
  <2>6. ASSUME Restart \/ \E k \in Keys : ResetBackoff(k)
        PROVE  wait'[d] = wait[d]
    BY <2>6 DEF Restart, ResetBackoff
  <2> QED  BY <2>2, <2>3, <2>4, <2>5, <2>6 DEF GracefulNext, WorkerStep
<1> QED
  BY <1>1, HandlerInvariance, PTL DEF GracefulSpec, PatienceGrows

(* Every CR waits as long as the documented schedule says for one of the   *)
(* denials counted so far, for any delays, factor and cap: cutting off at  *)
(* each step is cutting off once.                                          *)
THEOREM ScheduleIsFollowed == GracefulSpec => []WaitsFollowSchedule
<1>1. HandlerInv => WaitsFollowSchedule
  <2> SUFFICES ASSUME HandlerInv, NEW c \in CRs, wait[c] # NoWait
               PROVE  \E n \in 1..counts[KeyOf[wait[c].what]] : wait[c].delay = Schedule(n)
    BY DEF WaitsFollowSchedule
  <2>1. PICK n \in 1..counts[KeyOf[wait[c].what]] : wait[c].delay = calculateBackoff(n)
    BY DEF HandlerInv, WaitKnown
  <2>2. counts[KeyOf[wait[c].what]] \in Nat
    BY GracefulAssumption DEF HandlerInv, CountsOK, Waits, GracefulAssumption
  <2> QED  BY <2>1, <2>2, DelaysFollowSchedule
<1> QED  BY <1>1, HandlerInvariance, PTL

----------------------------------------------------------------------------
(* No report is left alone.                                                *)

(* A worker whose copy is old has an event to come, or one that has come   *)
(* while it worked.                                                        *)
Followed(c) ==
    /\ status[c].granted = "False" => AtWork(c) \/ seen[c] # status[c]
    /\ phase[c] # "idle" => copy[c] = status[c] \/ seen[c] # status[c] \/ c \in due

LEMMA OthersFollow ==
    ASSUME NEW c \in CRs, Followed(c),
           UNCHANGED <<status[c], seen[c], phase[c], copy[c]>>,
           c \in due => c \in due', c \in timers => c \in timers' \/ c \in due'
    PROVE  Followed(c)'
BY DEF Followed, AtWork

(* The ways a Reconcile ends, or goes on.                                  *)
LEMMA EndsFollowed ==
    ASSUME HandlerInv, NEW c \in CRs, Errs(c) \/ Retries(c)
    PROVE  Followed(c)'
BY DEF Errs, Retries, Forgets, Followed, AtWork, HandlerInv, WorkOK

LEMMA ContinueFollowed ==
    ASSUME HandlerInv, NEW c \in CRs, NEW now, Continue(c, now),
           status'[c].granted = "False" => now # status'[c],
           now = status'[c] \/ seen'[c] # status'[c] \/ c \in due'
    PROVE  Followed(c)'
<1>1. CASE Done(c)
  BY <1>1 DEF Done, Forgets, Followed, AtWork, HandlerInv, WorkOK
<1>2. CASE phase' = [phase EXCEPT ![c] = "call"] /\ copy' = [copy EXCEPT ![c] = now]
  BY <1>2 DEF Followed, AtWork, HandlerInv, WorkOK
<1> QED  BY <1>1, <1>2 DEF Continue

(* One step of the worker of a CR.                                         *)
LEMMA WorkerFollows ==
    ASSUME HandlerInv, NEW c \in CRs, Followed(c), WorkerStep(c)
    PROVE  Followed(c)'
<1>0. /\ phase \in [CRs -> {"idle", "apply", "call", "restore", "lookup", "report"}]
      /\ copy \in [CRs -> Conditions] /\ status \in [CRs -> Conditions]
  BY DEF HandlerInv, WorkOK, StoreOK
<1>1. CASE Dequeue(c)
  BY <1>0, <1>1 DEF Dequeue, Followed, AtWork
<1>2. CASE ApplyReport(c)
  <2>1. CASE Errs(c)
    BY <2>1, EndsFollowed
  <2>2. CASE /\ status' = [status EXCEPT ![c] = Reported]
             /\ Goto(c, "call") /\ copy' = [copy EXCEPT ![c] = Reported]
    BY <1>0, <2>2 DEF Goto, Followed, AtWork
  <2> QED  BY <1>2, <2>1, <2>2 DEF ApplyReport, UpdateStatus
<1>3. CASE CallSucceeds(c)
  <2>1. phase[c] = "call" /\ UNCHANGED <<status, seen>>
    BY <1>3 DEF CallSucceeds, doRest
  <2>2. CASE Goto(c, "restore") /\ UNCHANGED copy
    BY <1>0, <2>1, <2>2 DEF Goto, Followed, AtWork
  <2>3. CASE copy[c].granted # "False" /\ Continue(c, copy[c])
    <3>1. c \in due => c \in due'
      BY <2>3 DEF Continue, Done
    <3>2. copy[c] = status[c] \/ seen[c] # status[c] \/ c \in due
      BY <2>1 DEF Followed
    <3> QED  BY <2>1, <2>3, <3>1, <3>2, ContinueFollowed
  <2> QED  BY <1>3, <2>2, <2>3 DEF CallSucceeds
<1>4. CASE Restore(c)
  <2>1. CASE Errs(c)
    BY <2>1, EndsFollowed
  <2>2. CASE /\ status' = [status EXCEPT ![c] = Available("handler")]
             /\ Continue(c, Available("handler"))
    <3>1. status'[c] = Available("handler") /\ status'[c].granted # "False"
      BY <1>0, <2>2 DEF Available
    <3> QED  BY <2>2, <3>1, ContinueFollowed
  <2> QED  BY <1>4, <2>1, <2>2 DEF Restore, UpdateStatus
<1>5. CASE CallForbidden(c) \/ Lookup(c)
  BY <1>0, <1>5 DEF CallForbidden, Lookup, doRest, Followed, AtWork
<1>6. CASE Report(c)
  BY <1>6, EndsFollowed DEF Report, UpdateStatus
<1> QED  BY <1>1, <1>2, <1>3, <1>4, <1>5, <1>6 DEF WorkerStep

(* What moves in a step of the worker of another CR.                       *)
LEMMA OthersApart ==
    ASSUME HandlerInv, NEW c \in CRs, NEW d \in CRs, d # c,
           WorkerStep(d) \/ CallFails(d) \/ LookupFails(d)
    PROVE  /\ UNCHANGED <<status[c], seen[c], phase[c], copy[c]>>
           /\ c \in due => c \in due'
           /\ timers \subseteq timers'
<1> DEFINE Apart == /\ UNCHANGED <<phase[c], copy[c]>>
                    /\ c \in due => c \in due'
                    /\ timers \subseteq timers'
<1>0. /\ phase \in [CRs -> {"idle", "apply", "call", "restore", "lookup", "report"}]
      /\ copy \in [CRs -> Conditions] /\ status \in [CRs -> Conditions]
      /\ seen \in [CRs -> Conditions]
  BY DEF HandlerInv, WorkOK, StoreOK
<1>1. Done(d) \/ Errs(d) \/ Retries(d) => Apart
  BY <1>0 DEF Done, Errs, Retries, Forgets
<1>2. \A now : Continue(d, now) => Apart
  BY <1>0, <1>1 DEF Continue
<1>3. CASE Dequeue(d) \/ CallForbidden(d) \/ Lookup(d) \/ LookupFails(d)
  BY <1>0, <1>3 DEF Dequeue, CallForbidden, Lookup, LookupFails, doRest
<1>4. CASE ApplyReport(d)
  BY <1>0, <1>1, <1>4 DEF ApplyReport, UpdateStatus, Goto
<1>5. CASE CallSucceeds(d)
  BY <1>0, <1>2, <1>5 DEF CallSucceeds, Goto, doRest
<1>6. CASE Restore(d)
  BY <1>0, <1>1, <1>2, <1>6 DEF Restore, UpdateStatus
<1>7. CASE Report(d)
  BY <1>0, <1>1, <1>7 DEF Report, UpdateStatus
<1>8. CASE CallFails(d)
  BY <1>0, <1>1, <1>8 DEF CallFails, doRest
<1> QED  BY <1>3, <1>4, <1>5, <1>6, <1>7, <1>8 DEF WorkerStep

LEMMA NextFollows ==
    ASSUME HandlerInv, \A c \in CRs : Followed(c), [GracefulNext]_gracefulVars
    PROVE  (\A c \in CRs : Followed(c))'
<1> SUFFICES ASSUME NEW c \in CRs PROVE Followed(c)'
  OBVIOUS
<1>1. ASSUME NEW d \in CRs, WorkerStep(d) \/ CallFails(d) \/ LookupFails(d)
      PROVE  Followed(c)'
  <2>1. CASE d # c
    BY <1>1, <2>1, OthersApart, OthersFollow
  <2>2. CASE d = c /\ CallFails(d)
    BY <2>2, EndsFollowed DEF CallFails
  <2>3. CASE d = c /\ LookupFails(d)
    BY <2>3 DEF LookupFails, doRest, Followed, AtWork, HandlerInv, WorkOK
  <2> QED  BY <1>1, <2>1, <2>2, <2>3, WorkerFollows
<1>2. ASSUME NEW d \in CRs, Deliver(d) PROVE Followed(c)'
  BY <1>2 DEF Deliver, workVars, Followed, AtWork, HandlerInv, StoreOK
<1>3. ASSUME NEW d \in CRs, TimerFires(d) PROVE Followed(c)'
  BY <1>3, OthersFollow DEF TimerFires, workVars
<1>4. CASE Restart
  BY <1>4 DEF Restart, Followed, AtWork
<1>5. CASE \/ UNCHANGED handlerVars \/ UNCHANGED gracefulVars \/ SyncBindings
           \/ (\E r \in Rights : ChangeRight(r)) \/ (\E n \in Namespaces : ChangeBinding(n))
           \/ (\E k \in Keys : ResetBackoff(k))
  BY <1>5, OthersFollow DEF gracefulVars, handlerVars, workVars, SyncBindings, ChangeRight,
     ChangeBinding, ResetBackoff
<1> QED  BY <1>1, <1>2, <1>3, <1>4, <1>5 DEF GracefulNext

(* Whatever is denied, granted, written by others' workers and lost with   *)
(* the process, and however old the copies are, a CR that is reported to   *)
(* lack a permission is looked at again.                                   *)
THEOREM ReportsAreRevisited == GracefulSpec => []ReportedIsRevisited
<1>1. GracefulInit => \A c \in CRs : Followed(c)
  BY DEF GracefulInit, OperatorStarts, Followed, AtWork
<1>2. (\A c \in CRs : Followed(c)) => ReportedIsRevisited
  BY DEF Followed, ReportedIsRevisited
<1> QED  BY <1>1, <1>2, NextFollows, HandlerInvariance, PTL DEF GracefulSpec

(* A call of DiscoverPermissions that has not ended has a goroutine that   *)
(* waits for an answer, or one that a slot is free for: whatever failed or *)
(* was cancelled, no goroutine waits for a slot nobody will give back.     *)
NobodyStuck ==
    report = NoReport /\ ~Ended =>
        \E i \in Checks : review[i] = "asking" \/ (review[i] = "waiting" /\ free > 0)

THEOREM DiscoveryGoesOn == GracefulSpec => []NobodyStuck
<1>1. DiscoveryInv => NobodyStuck
  <2> SUFFICES ASSUME DiscoveryInv, ~Ended, Asking = {}
               PROVE  \E i \in Checks : review[i] = "waiting" /\ free > 0
    BY DEF NobodyStuck, Asking
  <2>1. Cardinality(Asking) + free = Slots /\ free \in Nat
    BY SlotsType DEF DiscoveryInv, DiscoveryTypeOK, SlotsAccounted, Asking
  <2>2. Cardinality(Asking) = 0
    BY FS_EmptySet
  <2>3. free > 0
    BY <2>1, <2>2, SlotsType
  <2>4. PICK i \in Checks : review[i] \notin {"allowed", "denied", "failed"}
    BY DEF Ended
  <2>5. review[i] = "waiting"
    BY <2>4 DEF DiscoveryInv, DiscoveryTypeOK, Asking
  <2> QED  BY <2>3, <2>5
<1> QED  BY <1>1, DiscoveryInvariance, PTL
============================================================================
