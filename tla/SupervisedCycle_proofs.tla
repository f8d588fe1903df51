----------------------- MODULE SupervisedCycle_proofs -----------------------
(***************************************************************************)
(* The account under supervised cycles, for any set of pids, any bound on  *)
(* the acquire loop and any number of brackets. CInv says which books of   *)
(* orders there can be and what a run in its cycle knows about them; the   *)
(* lock's invariant IInv says that no other run is in its cycle.           *)
(***************************************************************************)
EXTENDS SupervisedCycle, TLAPS

(***************************************************************************)
(* The lock, for any set of pids and any bound on retries.                 *)
(***************************************************************************)

\* Where a run is from winning the create until its release is over.
Owning == {"write", "cycle", "unlink"}

\* As long as no living run has lost its file, the file belongs to whoever
\* has won the create and not released yet.
FileIsOwners ==
    ~stolen => \A p \in Pids : pc[p] \in Owning => file.pid = p /\ file.live

\* A run about to try the create has a round left.
RoundLeft == \A p \in Pids : pc[p] = "create" => tries[p] < Retries

IInv == TypeOK /\ RoundLeft /\ FileIsOwners

\* The files the steps make are files.
LEMMA FileTypes ==
  /\ \A p \in Pids : [pid |-> p, written |-> FALSE, live |-> TRUE] \in Files
  /\ \A f \in Files : /\ [f EXCEPT !.written = TRUE] \in Files
                      /\ [f EXCEPT !.live = FALSE] \in Files
  /\ ~NoFile.live
BY DEF Files, NoFile

\* The initial state satisfies the inductive invariant.
LEMMA InitIInv == Init => IInv
<1> SUFFICES ASSUME Init
             PROVE  IInv
  OBVIOUS
<1>1. 0 \in 0 .. Retries
  BY CycleLockAssumption
<1>2. TypeOK
  BY <1>1 DEF Init, TypeOK, Locations, Absent
<1>3. RoundLeft /\ FileIsOwners
  BY DEF Init, RoundLeft, FileIsOwners, Owning
<1> QED
  BY <1>2, <1>3 DEF IInv

\* Every step keeps types and counts rounds.
LEMMA NextTypeOK == IInv /\ [Next]_vars => TypeOK' /\ RoundLeft'
<1> SUFFICES ASSUME IInv, [Next]_vars
             PROVE  TypeOK' /\ RoundLeft'
  OBVIOUS
<1> USE CycleLockAssumption DEF IInv, TypeOK, RoundLeft, Locations, Absent,
        Acquiring, Holding
<1>1. CASE UNCHANGED vars
  BY <1>1 DEF vars
<1>2. ASSUME NEW p \in Pids, Start(p)
      PROVE  TypeOK' /\ RoundLeft'
  BY <1>2 DEF Start, Goto
<1>3. ASSUME NEW p \in Pids, Create(p)
      PROVE  TypeOK' /\ RoundLeft'
  <2>1. tries[p] < Retries /\ tries' = [tries EXCEPT ![p] = @ + 1]
    BY <1>3 DEF Create
  <2>2. tries' \in [Pids -> 0 .. Retries]
    BY <2>1
  <2>3. file' \in Files \cup {NoFile} /\ UNCHANGED <<seen, stolen>>
    BY <1>3, FileTypes DEF Create
  <2>4. \/ pc' = [pc EXCEPT ![p] = "write"]
        \/ pc' = [pc EXCEPT ![p] = "read"]
    BY <1>3 DEF Create, Goto
  <2>5. TypeOK'
    BY <2>2, <2>3, <2>4
  <2>6. RoundLeft'
    BY <2>1, <2>4
  <2> QED
    BY <2>5, <2>6
<1>4. ASSUME NEW p \in Pids, Write(p)
      PROVE  TypeOK' /\ RoundLeft'
  <2>1. file' \in Files \cup {NoFile}
    BY <1>4, FileTypes DEF Write
  <2>2. 0 \in 0 .. Retries
    OBVIOUS
  <2> QED
    BY <1>4, <2>1, <2>2 DEF Write, Goto
<1>5. ASSUME NEW p \in Pids, ReadOwner(p)
      PROVE  TypeOK' /\ RoundLeft'
  <2>1. seen' \in [Pids -> Pids \cup {Corrupt}]
    <3>1. file \in Files => OwningPid(file) \in Pids \cup {Corrupt}
      BY DEF OwningPid, Files
    <3> QED
      BY <1>5, <3>1 DEF ReadOwner
  <2> QED
    BY <1>5, <2>1 DEF ReadOwner, Goto, Again
<1>6. ASSUME NEW p \in Pids, Probe(p)
      PROVE  TypeOK' /\ RoundLeft'
  BY <1>6 DEF Probe, Goto
<1>7. ASSUME NEW p \in Pids, Reclaim(p)
      PROVE  TypeOK' /\ RoundLeft'
  <2>1. stolen' \in BOOLEAN
    BY <1>7 DEF Reclaim
  <2> QED
    BY <1>7, <2>1 DEF Reclaim, Goto, Again
<1>8. ASSUME NEW p \in Pids, ReleaseRead(p)
      PROVE  TypeOK' /\ RoundLeft'
  BY <1>8 DEF ReleaseRead, Goto
<1>9. ASSUME NEW p \in Pids, ReleaseRemove(p)
      PROVE  TypeOK' /\ RoundLeft'
  BY <1>9 DEF ReleaseRemove, Goto
<1>10. ASSUME NEW p \in Pids, Kill(p)
       PROVE  TypeOK' /\ RoundLeft'
  <2>1. file' \in Files \cup {NoFile}
    BY <1>10, FileTypes DEF Kill
  <2>2. 0 \in 0 .. Retries
    OBVIOUS
  <2> QED
    BY <1>10, <2>1, <2>2 DEF Kill, Goto
<1> QED
  BY <1>1, <1>2, <1>3, <1>4, <1>5, <1>6, <1>7, <1>8, <1>9, <1>10
  DEF Next, Run

\* Every step keeps the file with its owner. The create finds no file and
\* so no owner; a reclaim that is no theft finds a dead one; a release or a
\* kill takes away the only owner there was.
LEMMA NextFileIsOwners == IInv /\ [Next]_vars => FileIsOwners'
<1> SUFFICES ASSUME IInv, [Next]_vars, ~stolen',
                    NEW q \in Pids, pc'[q] \in Owning
             PROVE  file'.pid = q /\ file'.live
  BY DEF FileIsOwners
<1> USE DEF IInv, TypeOK, FileIsOwners, Owning
<1>1. CASE UNCHANGED vars
  BY <1>1 DEF vars
<1>2. ASSUME NEW p \in Pids, Start(p)
      PROVE  file'.pid = q /\ file'.live
  BY <1>2 DEF Start, Goto
<1>3. ASSUME NEW p \in Pids, Create(p)
      PROVE  file'.pid = q /\ file'.live
  <2>1. CASE file = NoFile
    <3>1. pc[q] \notin Owning
      BY <1>3, <2>1, FileTypes DEF Create
    <3>2. q = p
      BY <1>3, <3>1 DEF Create, Goto
    <3>3. file' = [pid |-> p, written |-> FALSE, live |-> TRUE]
      BY <1>3, <2>1 DEF Create
    <3> QED
      BY <3>2, <3>3
  <2>2. CASE file # NoFile
    BY <1>3, <2>2 DEF Create, Goto
  <2> QED
    BY <2>1, <2>2
<1>4. ASSUME NEW p \in Pids, Write(p)
      PROVE  file'.pid = q /\ file'.live
  <2>1. file.pid = q /\ file.live
    BY <1>4 DEF Write, Goto
  <2>2. file \in Files
    BY <2>1, FileTypes
  <2>3. /\ [file EXCEPT !.written = TRUE].pid = file.pid
        /\ [file EXCEPT !.written = TRUE].live = file.live
    BY <2>2 DEF Files
  <2> QED
    BY <1>4, <2>1, <2>3 DEF Write
<1>5. ASSUME NEW p \in Pids, ReadOwner(p)
      PROVE  file'.pid = q /\ file'.live
  BY <1>5 DEF ReadOwner, Goto, Again
<1>6. ASSUME NEW p \in Pids, Probe(p)
      PROVE  file'.pid = q /\ file'.live
  BY <1>6 DEF Probe, Goto
<1>7. ASSUME NEW p \in Pids, Reclaim(p)
      PROVE  file'.pid = q /\ file'.live
  <2>1. ~stolen /\ ~file.live
    BY <1>7 DEF Reclaim
  <2>2. pc[q] \in Owning
    BY <1>7 DEF Reclaim, Goto, Again
  <2> QED
    BY <2>1, <2>2
<1>8. ASSUME NEW p \in Pids, ReleaseRead(p)
      PROVE  file'.pid = q /\ file'.live
  BY <1>8 DEF ReleaseRead, Goto
<1>9. ASSUME NEW p \in Pids, ReleaseRemove(p)
      PROVE  file'.pid = q /\ file'.live
  <2>1. ~stolen /\ file.pid = p
    BY <1>9 DEF ReleaseRemove
  <2>2. q # p /\ pc[q] \in Owning
    BY <1>9 DEF ReleaseRemove, Goto
  <2> QED
    BY <2>1, <2>2
<1>10. ASSUME NEW p \in Pids, Kill(p)
       PROVE  file'.pid = q /\ file'.live
  <2>1. q # p /\ pc[q] \in Owning /\ ~stolen
    BY <1>10 DEF Kill, Goto
  <2>2. file.pid = q /\ file.live
    BY <2>1
  <2> QED
    BY <1>10, <2>1, <2>2 DEF Kill
<1> QED
  BY <1>1, <1>2, <1>3, <1>4, <1>5, <1>6, <1>7, <1>8, <1>9, <1>10
  DEF Next, Run

\* The inductive invariant holds throughout.
LEMMA Invariance == Spec => []IInv
<1>1. IInv /\ [Next]_vars => IInv'
  BY NextTypeOK, NextFileIsOwners DEF IInv
<1> QED
  BY <1>1, InitIInv, PTL DEF Spec

\* Every variable keeps to the values the code can give it; in particular
\* the acquire loop never goes beyond its bound (lock.py: acquire).
THEOREM TypeCorrect == Spec => []TypeOK
<1>1. IInv => TypeOK
  BY DEF IInv
<1> QED
  BY <1>1, Invariance, PTL

\* Two runs are in their cycles together only after a reclaim has removed
\* the file of a living run (lock.py: acquire and release).
THEOREM Exclusion == Spec => []ExclusionUnlessStolen
<1>1. IInv => ExclusionUnlessStolen
  BY DEF IInv, FileIsOwners, Owning, ExclusionUnlessStolen,
         MutualExclusion, Holding
<1> QED
  BY <1>1, Invariance, PTL

\* Until then release() removes the releasing run's own file, although its
\* check and its remove are two steps (lock.py: release).
THEOREM ReleaseOwn == Spec => ReleaseRemovesOwn
<1> DEFINE Own == \A p \in Pids :
                     /\ ~stolen
                     /\ pc[p] = "unlink"
                     /\ pc'[p] = "done"
                     => file.pid = p /\ file.live
<1>1. IInv => Own
  BY DEF IInv, FileIsOwners, Owning
<1>2. IInv /\ [Next]_vars => [Own]_vars
  BY <1>1
<1> QED
  BY <1>2, Invariance, PTL DEF Spec, ReleaseRemovesOwn

(***************************************************************************)
(* The account.                                                            *)
(***************************************************************************)

Quiet == orders = {} /\ position = 0

\* One share at most, with its exits or with the order that closes it; or
\* no share, and the exits wait for the one entry.
Book ==
    /\ position \in {0, 1}
    /\ \A o \in orders :
           /\ o.number = entries
           /\ o.leg = "entry" => o.size = 1 /\ position = 0
           /\ o.leg # "entry" => o.size = -1
           /\ o.leg = "close" => orders = {o} /\ position = 1
           /\ position = 0 => \E e \in orders : e.leg = "entry"
    /\ \A e, f \in orders : e.leg = "entry" /\ f.leg = "entry" => e = f

Known(s, r) ==
    /\ s = "submit" => Quiet
    /\ s = "close" => orders = {} /\ position = 1 /\ r.residual = 1
    /\ r.flat => Quiet

Know(p) ==
    /\ stage[p] # "off" => pc[p] = "cycle"
    /\ result[p].entry <= entries
    /\ result[p].flat => stage[p] = "persist"
    /\ ~Excused => Known(stage[p], result[p])

CInv ==
    /\ CycleTypeOK
    /\ \A p \in Pids : Know(p)
    /\ persisted <= entries
    /\ ~Excused => Book /\ (persisted = entries => Quiet)

LEMMA NoResultType == NoResult \in Results
BY SupervisedCycleAssumption DEF NoResult, Results, Outcomes

\* What the composition does to the lock, the lock does.
LEMMA LockStepOf == [CycleNext]_all => [Next]_vars
<1>1. ASSUME NEW p \in Pids, Cycle(p) \/ Interrupt(p) PROVE UNCHANGED vars
  BY <1>1 DEF Cycle, Interrupt, Gates, Assess, Survey, Submit, Observe,
     Flatten, Recheck, Close, Final, Persist, Proceed, End, UnchangedAccount
<1>2. ASSUME NEW p \in Pids, Begin(p) \/ LockStep(p) \/ Die(p) PROVE Next
  BY <1>2 DEF Begin, LockStep, Die, Acquire, Acquired, Release, Released,
     Next, Run
<1>3. BrokerStep => UNCHANGED vars
  BY DEF BrokerStep, Report, Fill, Drop, UnchangedByBroker
<1> QED  BY <1>1, <1>2, <1>3 DEF CycleNext, all

\* A lock that a whole cycle is run under, by processes that are interrupted
\* and die at any of its stages, is the lock: what is proved of CycleLock holds
\* of the composition (m21_1extra_d2_lifecycle_proof.py:83-135).
THEOREM CycleImplementsLock == CycleSpec => Spec
<1>1. CycleInit => Init  BY DEF CycleInit
<1> QED  BY <1>1, LockStepOf, PTL DEF CycleSpec, Spec

LEMMA LockInvariance == CycleSpec => []IInv
  BY CycleImplementsLock, Invariance, PTL

\* Of the runs that go through whole cycles no two are inside unless one took
\* a living one's file, and none removes a file that is not its own
\* (lock.py:88-149).
THEOREM CyclesExclude ==
    CycleSpec => []ExclusionUnlessStolen /\ ReleaseRemovesOwn
  BY CycleImplementsLock, Exclusion, ReleaseOwn, PTL

LEMMA CycleInitially == CycleInit => CInv
<1> SUFFICES ASSUME CycleInit PROVE CInv  OBVIOUS
<1>1. TypeOK  BY InitIInv DEF CycleInit, IInv
<1>2. CycleTypeOK
  <2>1. stage \in [Pids -> Stages]  BY DEF CycleInit, Stages
  <2>2. result \in [Pids -> Results]  BY NoResultType DEF CycleInit
  <2>3. 0 \in 0..MaxEntries  BY SupervisedCycleAssumption
  <2>4. /\ orders = {} /\ position = 0 /\ reported = 0 /\ entries = 0
        /\ persisted = 0 /\ late = FALSE
    BY DEF CycleInit
  <2>5. orders \subseteq Orders  BY <2>4
  <2>6. position \in Int /\ reported \in Int  BY <2>4
  <2>7. entries \in 0..MaxEntries /\ persisted \in 0..MaxEntries  BY <2>3, <2>4
  <2>8. late \in BOOLEAN  BY <2>4
  <2> QED  BY <1>1, <2>1, <2>2, <2>5, <2>6, <2>7, <2>8 DEF CycleTypeOK
<1>3. ASSUME NEW p \in Pids PROVE Know(p)
  BY DEF CycleInit, Know, Known, NoResult
<1>4. Book /\ Quiet  BY DEF CycleInit, Book, Quiet
<1> QED  BY <1>2, <1>3, <1>4 DEF CInv, CycleInit

\* A step of p that leaves the account alone, and what p must then know.
LEMMA AccountKept ==
    ASSUME CInv, TypeOK', NEW p \in Pids, NEW s \in Stages, NEW r \in Results,
           stage' = [stage EXCEPT ![p] = s],
           result' = [result EXCEPT ![p] = r],
           UNCHANGED <<orders, position, reported, entries>>,
           late' \in BOOLEAN, late => late', stolen => stolen',
           persisted' \in 0..entries,
           ~Excused' /\ persisted' = entries => Quiet,
           \A q \in Pids : q # p => pc'[q] = pc[q],
           s # "off" => pc'[p] = "cycle",
           r.entry <= entries,
           r.flat => s = "persist",
           ~Excused' => Known(s, r)
    PROVE  CInv'
<1>1. entries \in 0..MaxEntries /\ MaxEntries \in Nat
  BY SupervisedCycleAssumption DEF CInv, CycleTypeOK
<1>2. CycleTypeOK'
  BY <1>1 DEF CInv, CycleTypeOK
<1>3. ~Excused' => ~Excused  BY DEF Excused
<1>4. ASSUME NEW q \in Pids PROVE Know(q)'
  <2>1. CASE q = p
    <3>1. stage'[q] = s /\ result'[q] = r  BY <2>1 DEF CInv, CycleTypeOK
    <3> QED  BY <2>1, <3>1 DEF Know, Known, Quiet
  <2>2. CASE q # p
    <3>1. stage'[q] = stage[q] /\ result'[q] = result[q] /\ pc'[q] = pc[q]
      BY <2>2 DEF CInv, CycleTypeOK
    <3>2. Know(q)  BY DEF CInv
    <3> QED  BY <1>3, <3>1, <3>2 DEF Know, Known, Quiet
  <2> QED  BY <2>1, <2>2
<1>5. ~Excused' => Book'  BY <1>3 DEF CInv, Book
<1> QED  BY <1>1, <1>2, <1>4, <1>5 DEF CInv, Quiet

LEMMA StateTypes ==
    ASSUME CInv, NEW p \in Pids
    PROVE  /\ result[p] \in Results /\ stage[p] \in Stages
           /\ result[p].entry \in 0..entries /\ persisted \in 0..entries
           /\ entries \in 0..MaxEntries /\ MaxEntries \in Nat
           /\ late \in BOOLEAN
           /\ stage = [stage EXCEPT ![p] = stage[p]]
           /\ result = [result EXCEPT ![p] = result[p]]
<1>1. result[p] \in Results /\ stage[p] \in Stages  BY DEF CInv, CycleTypeOK
<1>2. entries \in 0..MaxEntries /\ MaxEntries \in Nat /\ late \in BOOLEAN
  BY SupervisedCycleAssumption DEF CInv, CycleTypeOK
<1>3. result[p].entry \in Nat /\ persisted \in Nat
  BY <1>1, SupervisedCycleAssumption DEF Results, CInv, CycleTypeOK
<1>4. result[p].entry \in 0..entries /\ persisted \in 0..entries
  BY <1>2, <1>3 DEF CInv, Know
<1>5. stage \in [Pids -> Stages] /\ result \in [Pids -> Results]
  BY DEF CInv, CycleTypeOK
<1> QED  BY <1>1, <1>2, <1>4, <1>5

LEMMA ProceedStep ==
    ASSUME CInv, TypeOK', NEW p \in Pids, pc[p] = "cycle",
           stage[p] # "persist",
           NEW s \in Stages \ {"submit", "close"}, Proceed(p, s)
    PROVE  CInv'
<1>1. /\ stage' = [stage EXCEPT ![p] = s] /\ result' = result
      /\ pc' = pc /\ stolen' = stolen /\ late' = late
      /\ persisted' = persisted
      /\ UNCHANGED <<orders, position, reported, entries>>
  BY DEF Proceed, MoveTo, UnchangedAccount, vars
<1>2. ~result[p].flat  BY DEF CInv, Know
<1>3. ~Excused' /\ persisted' = entries => Quiet
  BY <1>1 DEF CInv, Excused
<1>4. Known(s, result[p])  BY <1>2 DEF Known
<1>5. /\ result' = [result EXCEPT ![p] = result[p]]
      /\ result[p] \in Results /\ result[p].entry <= entries
      /\ late' \in BOOLEAN /\ persisted' \in 0..entries
  BY <1>1, StateTypes
<1> QED  BY <1>1, <1>2, <1>3, <1>4, <1>5, AccountKept

LEMMA EndStep ==
    ASSUME CInv, TypeOK', NEW p \in Pids, pc[p] = "cycle",
           NEW outcome \in Outcomes, End(p, outcome),
           outcome = "PERSISTED" => result[p].flat
    PROVE  CInv'
<1> DEFINE r == [NoResult EXCEPT !.outcome = outcome]
<1>1. /\ stage' = [stage EXCEPT ![p] = "over"]
      /\ result' = [result EXCEPT ![p] = r]
      /\ pc' = pc /\ stolen' = stolen /\ late' = late
      /\ persisted' = IF outcome = "PERSISTED" THEN result[p].entry
                      ELSE persisted
      /\ UNCHANGED <<orders, position, reported, entries>>
  BY DEF End, MoveTo, UnchangedAccount, vars
<1>2. /\ r \in Results /\ r.entry = 0 /\ r.flat = FALSE
  BY NoResultType DEF NoResult, Results
<1>3. ~Excused' /\ persisted' = entries => Quiet
  BY <1>1 DEF CInv, Excused, Know, Known
<1>4. persisted' \in 0..entries  BY <1>1, StateTypes
<1>5. Known("over", r)  BY <1>2 DEF Known
<1>6. r.entry <= entries  BY <1>2, StateTypes
<1> HIDE DEF r
<1> QED
  BY <1>1, <1>2, <1>3, <1>4, <1>5, <1>6, StateTypes, AccountKept DEF Stages

LEMMA GatesStep == ASSUME CInv, TypeOK', NEW p \in Pids, Gates(p) PROVE CInv'
<1>1. CASE \E outcome \in {"D0_BLOCKED", "D1_BLOCKED", "FAILED_CLOSED"} :
               End(p, outcome)
  BY <1>1, EndStep DEF Gates, At, Outcomes
<1>2. CASE Proceed(p, "assess")
  BY <1>2, ProceedStep DEF Gates, At, Stages
<1> QED  BY <1>1, <1>2 DEF Gates

LEMMA AssessStep == ASSUME CInv, TypeOK', NEW p \in Pids, Assess(p) PROVE CInv'
<1>1. CASE End(p, "PRECHECK_FAILED")
  BY <1>1, EndStep DEF Assess, At, Outcomes
<1>2. CASE Proceed(p, "survey")
  BY <1>2, ProceedStep DEF Assess, At, Stages
<1> QED  BY <1>1, <1>2 DEF Assess

LEMMA SurveyStep == ASSUME CInv, TypeOK', NEW p \in Pids, Survey(p) PROVE CInv'
<1>1. pc[p] = "cycle" /\ stage[p] = "survey"  BY DEF Survey, At
<1>2. CASE End(p, "PRECHECK_FAILED")
  BY <1>1, <1>2, EndStep DEF Outcomes
<1>3. CASE ~End(p, "PRECHECK_FAILED")
  <2>1. /\ stage' = [stage EXCEPT ![p] = "submit"] /\ result' = result
        /\ pc' = pc /\ stolen' = stolen /\ persisted' = persisted
        /\ UNCHANGED <<orders, position, reported, entries>>
        /\ late' = (late \/ reported # position)
        /\ reported = 0 /\ orders = {}
    BY <1>3 DEF Survey, MoveTo, UnchangedAccount, vars, ReadPosition, Clean
  <2>2. ~Excused' => Quiet /\ ~Excused  BY <2>1 DEF Excused, Quiet
  <2>3. ~result[p].flat  BY <1>1 DEF CInv, Know
  <2>4. ~Excused' => Known("submit", result[p])  BY <2>2, <2>3 DEF Known
  <2>5. "submit" \in Stages  BY DEF Stages
  <2>6. late' \in BOOLEAN /\ (late => late')  BY <2>1, StateTypes, Zenon
  <2>7. /\ result' = [result EXCEPT ![p] = result[p]]
        /\ result[p] \in Results /\ result[p].entry <= entries
        /\ persisted' \in 0..entries
    BY <2>1, StateTypes
  <2> QED
    BY <1>1, <2>1, <2>2, <2>3, <2>4, <2>5, <2>6, <2>7, AccountKept
<1> QED  BY <1>2, <1>3

LEMMA ObserveStep == ASSUME CInv, TypeOK', NEW p \in Pids, Observe(p) PROVE CInv'
<1>1. pc[p] = "cycle" /\ stage[p] = "observe"  BY DEF Observe, At
<1>2. CASE Proceed(p, "flatten")
  BY <1>1, <1>2, ProceedStep DEF Stages
<1>3. CASE ~Proceed(p, "flatten")
  <2> DEFINE r == [result[p] EXCEPT !.observed = TRUE]
  <2>1. /\ stage' = [stage EXCEPT ![p] = "flatten"]
        /\ result' = [result EXCEPT ![p] = r]
        /\ pc' = pc /\ stolen' = stolen /\ persisted' = persisted
        /\ late' = late
        /\ UNCHANGED <<orders, position, reported, entries>>
    BY <1>3, StateTypes DEF Observe, MoveTo, UnchangedAccount, vars
  <2>2. ~result[p].flat  BY <1>1 DEF CInv, Know
  <2>3. /\ r \in Results /\ ~r.flat /\ r.entry = result[p].entry
    BY <2>2, StateTypes DEF Results
  <2>4. Known("flatten", r)  BY <2>3 DEF Known
  <2>5. ~Excused' /\ persisted' = entries => Quiet
    BY <2>1 DEF CInv, Excused
  <2>6. r.entry <= entries  BY <2>3, StateTypes
  <2>7. "flatten" \in Stages  BY DEF Stages
  <2> HIDE DEF r
  <2> QED
    BY <1>1, <2>1, <2>3, <2>4, <2>5, <2>6, <2>7, StateTypes, AccountKept
<1> QED  BY <1>2, <1>3

LEMMA PersistStep == ASSUME CInv, TypeOK', NEW p \in Pids, Persist(p) PROVE CInv'
<1>1. pc[p] = "cycle"  BY DEF Persist, At
<1>2. CASE End(p, "FAILED_CLOSED")
  BY <1>1, <1>2, EndStep DEF Outcomes
<1>3. CASE result[p].flat /\ End(p, "PERSISTED")
  BY <1>1, <1>3, EndStep DEF Outcomes
<1> QED  BY <1>2, <1>3 DEF Persist

LEMMA InterruptStep == ASSUME CInv, TypeOK', NEW p \in Pids, Interrupt(p)
                       PROVE  CInv'
BY EndStep DEF Interrupt, Outcomes

LEMMA RecheckStep == ASSUME CInv, TypeOK', NEW p \in Pids, Recheck(p) PROVE CInv'
<1>1. pc[p] = "cycle" /\ stage[p] = "recheck"  BY DEF Recheck, At
<1>2. CASE Proceed(p, "persist")
  BY <1>1, <1>2, ProceedStep DEF Stages
<1>3. CASE ~Proceed(p, "persist")
  <2> DEFINE r == [result[p] EXCEPT !.residual = reported,
                                    !.flat = reported = 0 /\ Flat]
             s == IF reported = 0 THEN "persist" ELSE "close"
  <2>1. /\ stage' = [stage EXCEPT ![p] = s]
        /\ result' = [result EXCEPT ![p] = r]
        /\ pc' = pc /\ stolen' = stolen /\ persisted' = persisted
        /\ UNCHANGED <<orders, position, reported, entries>>
        /\ late' = (late \/ reported # position)
        /\ orders = {}
    BY <1>3, StateTypes
    DEF Recheck, MoveTo, UnchangedAccount, vars, ReadPosition, Cleared
  <2>2. reported \in Int /\ Flat \in BOOLEAN
    BY DEF CInv, CycleTypeOK, Flat, Cleared
  <2>3. /\ r \in Results /\ r.entry = result[p].entry
        /\ r.residual = reported /\ r.flat = (reported = 0 /\ Flat)
    BY <2>2, StateTypes DEF Results
  <2>4. r.flat => s = "persist" /\ reported = 0  BY <2>3
  <2>5. ~Excused' => ~Excused /\ position = reported
    BY <2>1 DEF Excused
  <2>6. ~Excused' /\ s = "close" => position = 1 /\ r.residual = 1
    BY <2>3, <2>5 DEF CInv, Book
  <2>7. ~Excused' => Known(s, r)
    <3> HIDE DEF r
    <3>1. s # "submit"  OBVIOUS
    <3> HIDE DEF s
    <3> QED  BY <2>1, <2>4, <2>5, <2>6, <3>1 DEF Known, Quiet
  <2>8. ~Excused' /\ persisted' = entries => Quiet
    BY <2>1, <2>5 DEF CInv
  <2>9. s \in Stages  BY DEF Stages
  <2>10. late' \in BOOLEAN /\ (late => late')  BY <2>1, StateTypes, Zenon
  <2>11. r.entry <= entries /\ persisted' \in 0..entries
    BY <2>1, <2>3, StateTypes
  <2> HIDE DEF r, s
  <2> QED
    BY <1>1, <2>1, <2>3, <2>4, <2>7, <2>8, <2>9, <2>10, <2>11, AccountKept
<1> QED  BY <1>2, <1>3

LEMMA FinalStep == ASSUME CInv, TypeOK', NEW p \in Pids, Final(p) PROVE CInv'
<1>1. pc[p] = "cycle" /\ stage[p] = "final"  BY DEF Final, At
<1>2. CASE Proceed(p, "persist")
  BY <1>1, <1>2, ProceedStep DEF Stages
<1>3. CASE ~Proceed(p, "persist")
  <2> DEFINE r == [result[p] EXCEPT !.flat = Flat]
  <2>1. /\ stage' = [stage EXCEPT ![p] = "persist"]
        /\ result' = [result EXCEPT ![p] = r]
        /\ pc' = pc /\ stolen' = stolen /\ persisted' = persisted
        /\ UNCHANGED <<orders, position, reported, entries>>
        /\ late' = (late \/ reported # position)
    BY <1>3, StateTypes DEF Final, MoveTo, UnchangedAccount, vars, ReadPosition
  <2>2. Flat \in BOOLEAN  BY DEF Flat, Cleared
  <2>3. r \in Results /\ r.entry = result[p].entry /\ r.flat = Flat
    BY <2>2, StateTypes DEF Results
  <2>4. ~Excused' => ~Excused /\ position = reported
    BY <2>1 DEF Excused
  <2>5. ~Excused' => Known("persist", r)
    <3>1. r.flat => orders = {} /\ reported = 0
      BY <2>3 DEF Flat, Cleared
    <3> HIDE DEF r
    <3> QED  BY <2>4, <3>1 DEF Known, Quiet
  <2>6. ~Excused' /\ persisted' = entries => Quiet
    BY <2>1, <2>4 DEF CInv
  <2>7. late' \in BOOLEAN /\ (late => late')  BY <2>1, StateTypes, Zenon
  <2>8. r.entry <= entries /\ persisted' \in 0..entries
    BY <2>1, <2>3, StateTypes
  <2>9. "persist" \in Stages  BY DEF Stages
  <2> HIDE DEF r
  <2> QED
    BY <1>1, <2>1, <2>3, <2>5, <2>6, <2>7, <2>8, <2>9, AccountKept
<1> QED  BY <1>2, <1>3

\* While the lock holds, a run in its cycle is the only one.
LEMMA Alone ==
    ASSUME CInv, IInv, ~stolen, NEW p \in Pids, NEW q \in Pids, q # p,
           pc[p] = "cycle"
    PROVE  stage[q] = "off" /\ ~result[q].flat
<1>1. pc[q] # "cycle"  BY DEF IInv, FileIsOwners, Owning
<1> QED  BY <1>1 DEF CInv, Know

\* A step of p on the account.
LEMMA AccountMoved ==
    ASSUME CInv, IInv, TypeOK', NEW p \in Pids, pc[p] = "cycle",
           NEW s \in Stages \ {"off", "submit", "close"}, NEW r \in Results,
           stage' = [stage EXCEPT ![p] = s],
           result' = [result EXCEPT ![p] = r],
           UNCHANGED <<pc, stolen, late, persisted>>,
           entries' \in 0..MaxEntries, entries <= entries',
           orders' \subseteq Orders, position' \in Int, reported' \in Int,
           r.entry <= entries', ~r.flat,
           ~Excused => Book' /\ (persisted = entries' => Quiet')
    PROVE  CInv'
<1>1. CycleTypeOK'  BY DEF CInv, CycleTypeOK
<1>2. Excused' = Excused  BY DEF Excused
<1>3. ASSUME NEW q \in Pids PROVE Know(q)'
  <2>1. CASE q = p
    <3>1. stage'[q] = s /\ result'[q] = r  BY <2>1 DEF CInv, CycleTypeOK
    <3> QED  BY <2>1, <3>1 DEF Know, Known
  <2>2. CASE q # p
    <3>1. stage'[q] = stage[q] /\ result'[q] = result[q]
      BY <2>2 DEF CInv, CycleTypeOK
    <3>2. /\ result[q].entry \in 0..entries
          /\ entries \in Nat /\ entries' \in Nat
      BY StateTypes
    <3>3. result[q].entry <= entries'  BY <3>2
    <3>4. ~Excused => stage[q] = "off" /\ ~result[q].flat
      BY <2>2, Alone DEF Excused
    <3>5. Know(q)  BY DEF CInv
    <3> QED  BY <1>2, <3>1, <3>3, <3>4, <3>5 DEF Know, Known
  <2> QED  BY <2>1, <2>2
<1>4. persisted' <= entries'
  <2>1. persisted \in 0..entries /\ entries \in Nat /\ entries' \in Nat
    BY StateTypes
  <2> QED  BY <2>1
<1> QED  BY <1>1, <1>2, <1>3, <1>4 DEF CInv

LEMMA SubmitStep ==
    ASSUME CInv, IInv, TypeOK', NEW p \in Pids, Submit(p)
    PROVE  CInv'
<1>1. pc[p] = "cycle" /\ stage[p] = "submit"  BY DEF Submit, At
<1>2. CASE Proceed(p, "observe")
  BY <1>1, <1>2, ProceedStep DEF Stages
<1>3. CASE ~Proceed(p, "observe")
  <2> DEFINE r == [result[p] EXCEPT !.entry = entries + 1]
             e == Order(p, entries + 1, "entry", 1)
             t == Order(p, entries + 1, "target", -1)
             l == Order(p, entries + 1, "stop", -1)
  <2>1. /\ stage' = [stage EXCEPT ![p] = "observe"]
        /\ result' = [result EXCEPT ![p] = r]
        /\ UNCHANGED <<pc, stolen, late, persisted, position, reported>>
        /\ entries < MaxEntries /\ entries' = entries + 1
        /\ orders' = orders \cup {e, t, l}
    BY <1>3, StateTypes DEF Submit, MoveTo, vars, Bracket
  <2>2. entries' \in 0..MaxEntries /\ entries <= entries'
    BY <2>1, StateTypes
  <2>3. ~result[p].flat  BY <1>1 DEF CInv, Know
  <2>4. r \in Results /\ r.entry = entries' /\ ~r.flat
    BY <2>1, <2>2, <2>3, StateTypes DEF Results
  <2>5. {e, t, l} \subseteq Orders
    BY <2>1, <2>2 DEF Order, Orders
  <2>6. orders' \subseteq Orders /\ position' \in Int /\ reported' \in Int
    BY <2>1, <2>5 DEF CInv, CycleTypeOK
  <2>7. ASSUME ~Excused
        PROVE  Book' /\ persisted # entries'
    <3>1. orders = {} /\ position = 0
      BY <1>1, <2>7 DEF CInv, Know, Known, Quiet
    <3>2. /\ e.number = entries' /\ e.leg = "entry" /\ e.size = 1
          /\ t.number = entries' /\ t.leg = "target" /\ t.size = -1
          /\ l.number = entries' /\ l.leg = "stop" /\ l.size = -1
      BY <2>1 DEF Order
    <3>3. orders' = {e, t, l} /\ position' = 0  BY <2>1, <3>1
    <3>4. persisted # entries'
      <4>1. persisted \in 0..entries /\ entries \in Nat  BY StateTypes
      <4> QED  BY <2>1, <4>1
    <3> HIDE DEF e, t, l
    <3> QED  BY <3>2, <3>3, <3>4 DEF Book
  <2>8. "observe" \in Stages \ {"off", "submit", "close"}  BY DEF Stages
  <2>9. r.entry <= entries'  BY <2>2, <2>4
  <2> HIDE DEF r
  <2> QED
    BY <1>1, <2>1, <2>2, <2>4, <2>6, <2>7, <2>8, <2>9, AccountMoved
<1> QED  BY <1>2, <1>3

LEMMA FlattenStep ==
    ASSUME CInv, IInv, TypeOK', NEW p \in Pids, Flatten(p)
    PROVE  CInv'
<1>1. pc[p] = "cycle" /\ stage[p] = "flatten"  BY DEF Flatten, At
<1>2. CASE Proceed(p, "persist")
  BY <1>1, <1>2, ProceedStep DEF Stages
<1>3. CASE ~Proceed(p, "persist")
  <2> DEFINE Asked(o) == [o EXCEPT !.cancelled = TRUE]
  <2>1. /\ stage' = [stage EXCEPT ![p] = "recheck"] /\ result' = result
        /\ UNCHANGED <<pc, stolen, late, persisted, position, reported,
                       entries>>
        /\ \E failed \in SUBSET orders :
               orders' = failed \cup {Asked(o) : o \in orders \ failed}
    BY <1>3 DEF Flatten, MoveTo, vars
  <2>2. PICK failed \in SUBSET orders :
            orders' = failed \cup {Asked(o) : o \in orders \ failed}
    BY <2>1
  <2>3. \A o \in Orders :
            /\ Asked(o) \in Orders /\ Asked(o).number = o.number
            /\ Asked(o).leg = o.leg /\ Asked(o).size = o.size
    BY DEF Orders
  <2>4. orders \subseteq Orders  BY DEF CInv, CycleTypeOK
  <2>5. orders' \subseteq Orders  BY <2>2, <2>3, <2>4
  <2>6. \A x \in orders' : \E o \in orders :
            /\ x = IF o \in failed THEN o ELSE Asked(o)
            /\ x.number = o.number /\ x.leg = o.leg /\ x.size = o.size
    <3> SUFFICES ASSUME NEW x \in orders'
                 PROVE  \E o \in orders :
                            /\ x = IF o \in failed THEN o ELSE Asked(o)
                            /\ x.number = o.number /\ x.leg = o.leg
                            /\ x.size = o.size
      OBVIOUS
    <3>1. CASE x \in failed  BY <3>1
    <3>2. CASE x \notin failed
      <4>1. PICK o \in orders \ failed : x = Asked(o)  BY <2>2, <3>2
      <4>2. /\ x = IF o \in failed THEN o ELSE Asked(o)
            /\ x.number = o.number /\ x.leg = o.leg /\ x.size = o.size
        BY <2>3, <2>4, <4>1
      <4> QED  BY <4>2
    <3> QED  BY <3>1, <3>2
  <2>7. \A o \in orders : \E x \in orders' : x.leg = o.leg
    BY <2>2, <2>3, <2>4
  <2> HIDE DEF Asked
  <2>8. ASSUME ~Excused
        PROVE  Book' /\ (persisted = entries' => Quiet')
    <3>1. Book /\ (persisted = entries => Quiet)  BY <2>8 DEF CInv
    <3>2. ASSUME NEW x \in orders'
          PROVE  /\ x.number = entries'
                 /\ x.leg = "entry" => x.size = 1 /\ position' = 0
                 /\ x.leg # "entry" => x.size = -1
                 /\ x.leg = "close" => orders' = {x} /\ position' = 1
                 /\ position' = 0 => \E e \in orders' : e.leg = "entry"
      <4>1. PICK o \in orders :
                /\ x = IF o \in failed THEN o ELSE Asked(o)
                /\ x.number = o.number /\ x.leg = o.leg /\ x.size = o.size
        BY <2>6
      <4>2. /\ o.number = entries
            /\ o.leg = "entry" => o.size = 1 /\ position = 0
            /\ o.leg # "entry" => o.size = -1
            /\ o.leg = "close" => orders = {o} /\ position = 1
            /\ position = 0 => \E e \in orders : e.leg = "entry"
        BY <3>1 DEF Book
      <4>3. x.leg = "close" => orders' = {x}
        BY <2>2, <4>1, <4>2
      <4> QED  BY <2>1, <2>7, <4>1, <4>2, <4>3
    <3>3. ASSUME NEW x \in orders', NEW y \in orders',
                 x.leg = "entry", y.leg = "entry"
          PROVE  x = y
      <4>1. PICK o \in orders :
                x.leg = o.leg /\ x = IF o \in failed THEN o ELSE Asked(o)
        BY <2>6
      <4>2. PICK u \in orders :
                y.leg = u.leg /\ y = IF u \in failed THEN u ELSE Asked(u)
        BY <2>6
      <4>3. o = u  BY <3>1, <3>3, <4>1, <4>2 DEF Book
      <4> QED  BY <4>1, <4>2, <4>3
    <3>4. position' \in {0, 1}  BY <2>1, <3>1 DEF Book
    <3>5. persisted = entries' => Quiet'
      BY <2>1, <2>6, <3>1 DEF Quiet
    <3> QED  BY <3>2, <3>3, <3>4, <3>5 DEF Book
  <2>9. ~result[p].flat  BY <1>1 DEF CInv, Know
  <2>10. "recheck" \in Stages \ {"off", "submit", "close"}  BY DEF Stages
  <2>11. /\ entries' \in 0..MaxEntries /\ entries <= entries'
         /\ position' \in Int /\ reported' \in Int
         /\ result' = [result EXCEPT ![p] = result[p]]
         /\ result[p] \in Results /\ result[p].entry <= entries'
    BY <2>1, StateTypes DEF CInv, CycleTypeOK
  <2> QED
    BY <1>1, <2>1, <2>5, <2>8, <2>9, <2>10, <2>11, AccountMoved
<1> QED  BY <1>2, <1>3

LEMMA CloseStep ==
    ASSUME CInv, IInv, TypeOK', NEW p \in Pids, Close(p)
    PROVE  CInv'
<1>1. pc[p] = "cycle" /\ stage[p] = "close"  BY DEF Close, At
<1>2. CASE Proceed(p, "persist")
  BY <1>1, <1>2, ProceedStep DEF Stages
<1>3. CASE ~Proceed(p, "persist")
  <2> DEFINE c == Order(p, entries, "close", -result[p].residual)
  <2>1. /\ stage' = [stage EXCEPT ![p] = "final"] /\ result' = result
        /\ UNCHANGED <<pc, stolen, late, persisted, position, reported,
                       entries>>
        /\ orders' = orders \cup {c}
    BY <1>3 DEF Close, MoveTo, vars
  <2>2. -result[p].residual \in Int
    <3>1. result[p].residual \in Int  BY StateTypes DEF Results
    <3> QED  BY <3>1
  <2>3. c \in Orders  BY <2>2, StateTypes DEF Order, Orders
  <2>4. orders' \subseteq Orders  BY <2>1, <2>3 DEF CInv, CycleTypeOK
  <2>5. ASSUME ~Excused
        PROVE  Book' /\ (persisted = entries' => Quiet')
    <3>1. orders = {} /\ position = 1 /\ result[p].residual = 1
      BY <1>1, <2>5 DEF CInv, Know, Known
    <3>2. c.number = entries /\ c.leg = "close" /\ c.size = -1
      BY <3>1 DEF Order
    <3>3. orders' = {c} /\ position' = 1 /\ entries' = entries
      BY <2>1, <3>1
    <3>4. persisted # entries'  BY <2>1, <2>5, <3>1 DEF CInv, Quiet
    <3> HIDE DEF c
    <3> QED  BY <3>2, <3>3, <3>4 DEF Book
  <2>6. ~result[p].flat  BY <1>1 DEF CInv, Know
  <2>7. "final" \in Stages \ {"off", "submit", "close"}  BY DEF Stages
  <2>8. /\ entries' \in 0..MaxEntries /\ entries <= entries'
        /\ position' \in Int /\ reported' \in Int
        /\ result' = [result EXCEPT ![p] = result[p]]
        /\ result[p] \in Results /\ result[p].entry <= entries'
    BY <2>1, StateTypes DEF CInv, CycleTypeOK
  <2> HIDE DEF c
  <2> QED  BY <1>1, <2>1, <2>4, <2>5, <2>6, <2>7, <2>8, AccountMoved
<1> QED  BY <1>2, <1>3

\* While orders are live nobody is about to enter or to close, nor sure.
LEMMA OrdersLive ==
    ASSUME CInv, ~Excused, orders # {}, NEW p \in Pids
    PROVE  stage[p] \notin {"submit", "close"} /\ ~result[p].flat
BY DEF CInv, Know, Known, Quiet

\* A step of the broker on the orders.
LEMMA BrokerMoved ==
    ASSUME CInv, TypeOK', orders # {}, orders' \subseteq Orders,
           position' \in Int, reported' = reported, UnchangedByBroker,
           ~Excused => Book' /\ (persisted = entries => Quiet')
    PROVE  CInv'
<1>1. /\ UNCHANGED <<pc, stolen, late, persisted, entries>>
      /\ stage' = stage /\ result' = result
  BY DEF UnchangedByBroker, vars
<1>2. CycleTypeOK'  BY <1>1 DEF CInv, CycleTypeOK
<1>3. Excused' = Excused  BY <1>1 DEF Excused
<1>4. ASSUME NEW p \in Pids PROVE Know(p)'
  <2>1. ~Excused => stage[p] \notin {"submit", "close"} /\ ~result[p].flat
    BY OrdersLive
  <2> QED  BY <1>1, <1>3, <2>1 DEF CInv, Know, Known
<1> QED  BY <1>1, <1>2, <1>3, <1>4 DEF CInv

LEMMA FillStep == ASSUME CInv, TypeOK', NEW o \in orders, Fill(o) PROVE CInv'
<1>1. /\ o \in Orders /\ position \in Int /\ orders \subseteq Orders
  BY DEF CInv, CycleTypeOK
<1>2. /\ position' = position + o.size /\ entries' = entries
      /\ persisted' = persisted /\ reported' = reported /\ UnchangedByBroker
      /\ orders' = orders \ (IF o.leg \in {"target", "stop"} THEN Siblings(o)
                             ELSE {o})
  BY DEF Fill, UnchangedByBroker
<1>3. position' \in Int
  <2>1. o.size \in Int  BY <1>1 DEF Orders
  <2> QED  BY <1>1, <1>2, <2>1
<1>4. orders' \subseteq Orders  BY <1>1, <1>2
<1>5. ASSUME ~Excused
      PROVE  Book' /\ (persisted = entries => Quiet')
  <2>1. Book /\ persisted # entries  BY <1>5 DEF CInv, Quiet
  <2>2. \A x \in orders :
          /\ x.number = entries
          /\ x.leg \in {"entry", "target", "stop", "close"}
          /\ x.leg # "entry" => x.size = -1
          /\ x.leg = "close" => orders = {x} /\ position = 1
          /\ position = 0 => \E e \in orders : e.leg = "entry"
    BY <1>1, <2>1 DEF Book, Orders
  <2>3. CASE o.leg = "entry"
    <3>1. o.size = 1 /\ position = 0  BY <2>1, <2>3 DEF Book
    <3>2. orders' = orders \ {o} /\ position' = 1  BY <1>2, <2>3, <3>1
    <3>3. \A x \in orders' : x.leg \in {"target", "stop"}
      BY <2>1, <2>2, <2>3, <3>1, <3>2 DEF Book
    <3> QED  BY <1>2, <2>1, <2>2, <3>2, <3>3 DEF Book
  <2>4. CASE o.leg = "close"
    <3>1. orders' = {} /\ position' = 0  BY <1>2, <2>2, <2>4
    <3> QED  BY <2>1, <3>1 DEF Book
  <2>5. CASE o.leg \in {"target", "stop"}
    <3>1. \A s \in Siblings(o) : s.leg # "entry"  BY <2>5 DEF Fill
    <3>2. Siblings(o) = orders
      <4>1. \A x \in orders : x.leg # "close"
        BY <2>2, <2>5
      <4> QED  BY <2>2, <4>1 DEF Siblings
    <3>3. position = 1 /\ o.size = -1
      BY <2>1, <2>2, <2>5, <3>1, <3>2 DEF Book
    <3>4. orders' = {} /\ position' = 0  BY <1>2, <2>5, <3>2, <3>3
    <3> QED  BY <2>1, <3>4 DEF Book
  <2> QED  BY <2>2, <2>3, <2>4, <2>5
<1> QED  BY <1>2, <1>3, <1>4, <1>5, BrokerMoved

LEMMA DropStep == ASSUME CInv, TypeOK', NEW o \in orders, Drop(o) PROVE CInv'
<1>1. /\ o \in Orders /\ position \in Int /\ orders \subseteq Orders
  BY DEF CInv, CycleTypeOK
<1>2. /\ position' = position /\ entries' = entries
      /\ persisted' = persisted /\ reported' = reported /\ UnchangedByBroker
      /\ orders' = orders \ (IF o.leg = "entry" THEN Siblings(o) ELSE {o})
  BY DEF Drop, UnchangedByBroker
<1>3. orders' \subseteq Orders  BY <1>1, <1>2
<1>4. ASSUME ~Excused
      PROVE  Book' /\ (persisted = entries => Quiet')
  <2>1. Book /\ persisted # entries  BY <1>4 DEF CInv, Quiet
  <2>2. \A x \in orders :
          /\ x.number = entries
          /\ x.leg = "entry" => x.size = 1 /\ position = 0
          /\ x.leg # "entry" => x.size = -1
          /\ x.leg = "close" => orders = {x} /\ position = 1
          /\ position = 0 => \E e \in orders : e.leg = "entry"
    BY <2>1 DEF Book
  <2>3. CASE o.leg = "entry"
    <3>1. Siblings(o) = orders  BY <2>2, <2>3 DEF Siblings
    <3>2. orders' = {} /\ position' = 0  BY <1>2, <2>2, <2>3, <3>1
    <3> QED  BY <2>1, <3>2 DEF Book
  <2>4. CASE o.leg # "entry"
    <3>1. orders' = orders \ {o}  BY <1>2, <2>4
    <3>2. \A x \in orders' : x.leg = "close" => orders' = {x}
      BY <2>2, <3>1
    <3>3. position' = 0 => \A x \in orders' : \E e \in orders' : e.leg = "entry"
      BY <1>2, <2>2, <2>4, <3>1
    <3> QED  BY <1>2, <2>1, <2>2, <3>1, <3>2, <3>3 DEF Book
  <2> QED  BY <2>3, <2>4
<1>5. orders # {} /\ position' \in Int  BY <1>1, <1>2
<1> QED  BY <1>2, <1>3, <1>4, <1>5, BrokerMoved

LEMMA ReportStep == ASSUME CInv, TypeOK', Report PROVE CInv'
<1>1. /\ UNCHANGED <<pc, stolen, late, persisted, entries, orders, position>>
      /\ stage' = stage /\ result' = result /\ reported' = position
  BY DEF Report, UnchangedByBroker, vars
<1>2. CycleTypeOK'  BY <1>1 DEF CInv, CycleTypeOK
<1> QED  BY <1>1, <1>2 DEF CInv, Know, Known, Quiet, Excused, Book

\* A step of p on the lock moves p only, and does not forget a theft.
LEMMA LockMoves ==
    ASSUME CInv, NEW p \in Pids, Begin(p) \/ LockStep(p) \/ Die(p)
    PROVE  /\ \A q \in Pids : q # p => pc'[q] = pc[q]
           /\ stolen => stolen'
<1>1. pc \in [Pids -> Locations]  BY DEF CInv, CycleTypeOK, TypeOK
<1>2. \E l : Goto(p, l)
  BY DEF Begin, LockStep, Die, Acquire, Acquired, Release, Released, Start,
     Create, Write, ReadOwner, Probe, Reclaim, ReleaseRead, ReleaseRemove,
     Kill, Again
<1>3. \A q \in Pids : q # p => pc'[q] = pc[q]  BY <1>1, <1>2 DEF Goto
<1>4. stolen => stolen'
  BY DEF Begin, LockStep, Die, Acquire, Acquired, Release, Released, Start,
     Create, Write, ReadOwner, Probe, Reclaim, ReleaseRead, ReleaseRemove, Kill
<1> QED  BY <1>3, <1>4

\* ... and leaves the account and its reports alone.
LEMMA LockSteps ==
    ASSUME CInv, TypeOK', NEW p \in Pids, Begin(p) \/ LockStep(p) \/ Die(p)
    PROVE  CInv'
<1>1. /\ \A q \in Pids : q # p => pc'[q] = pc[q]
      /\ stolen => stolen'
  BY LockMoves
<1>2. ASSUME UNCHANGED <<orders, position, reported, entries, persisted, late>>
      PROVE  /\ persisted' \in 0..entries /\ late' \in BOOLEAN
             /\ ~Excused' /\ persisted' = entries => Quiet
  <2>1. ~Excused' => ~Excused  BY <1>1, <1>2 DEF Excused
  <2> QED  BY <1>2, <2>1, StateTypes DEF CInv
<1>3. CASE UNCHANGED cycleVars /\ pc[p] # "cycle"
  <2>1. stage[p] = "off"  BY <1>3 DEF CInv, Know
  <2>2. ~result[p].flat  BY <2>1 DEF CInv, Know
  <2>3. /\ stage' = [stage EXCEPT ![p] = "off"]
        /\ result' = [result EXCEPT ![p] = result[p]]
        /\ UNCHANGED <<orders, position, reported, entries, persisted, late>>
        /\ result[p] \in Results /\ result[p].entry <= entries
        /\ "off" \in Stages
    BY <1>3, <2>1, StateTypes DEF cycleVars
  <2>4. Known("off", result[p])  BY <2>2 DEF Known
  <2> QED  BY <1>1, <1>2, <2>2, <2>3, <2>4, AccountKept
<1>4. CASE Acquired(p)
  <2>1. pc[p] = "write" /\ Goto(p, "cycle")  BY <1>4 DEF Acquired, Write
  <2>2. stage[p] = "off"  BY <2>1 DEF CInv, Know
  <2>3. ~result[p].flat  BY <2>2 DEF CInv, Know
  <2>4. pc'[p] = "cycle"
    BY <2>1 DEF Goto, CInv, CycleTypeOK, TypeOK
  <2>5. /\ stage' = [stage EXCEPT ![p] = "gates"]
        /\ result' = [result EXCEPT ![p] = result[p]]
        /\ UNCHANGED <<orders, position, reported, entries, persisted, late>>
        /\ result[p] \in Results /\ result[p].entry <= entries
    BY <1>4, StateTypes DEF Acquired, MoveTo, UnchangedBroker
  <2>6. Known("gates", result[p])  BY <2>3 DEF Known
  <2>7. "gates" \in Stages  BY DEF Stages
  <2> QED  BY <1>1, <1>2, <2>3, <2>4, <2>5, <2>6, <2>7, AccountKept
<1>5. CASE Forget(p)
  <2>1. /\ stage' = [stage EXCEPT ![p] = "off"]
        /\ result' = [result EXCEPT ![p] = NoResult]
        /\ UNCHANGED <<orders, position, reported, entries, persisted, late>>
    BY <1>5 DEF Forget, MoveTo, UnchangedBroker
  <2>2. NoResult.entry = 0 /\ ~NoResult.flat  BY DEF NoResult
  <2>3. NoResult.entry <= entries  BY <2>2, StateTypes
  <2>4. Known("off", NoResult)  BY <2>2 DEF Known
  <2>5. "off" \in Stages  BY DEF Stages
  <2> QED
    BY <1>1, <1>2, <2>1, <2>2, <2>3, <2>4, <2>5, NoResultType, AccountKept
<1>6. \/ UNCHANGED cycleVars /\ pc[p] # "cycle"
      \/ Acquired(p) \/ Forget(p)
  BY DEF Begin, LockStep, Acquire, Released, Release, Die, Start, Absent,
     Create, ReadOwner, Probe, Reclaim, ReleaseRemove
<1> QED  BY <1>3, <1>4, <1>5, <1>6

LEMMA CycleKeeps == CInv /\ IInv /\ IInv' /\ [CycleNext]_all => CInv'
<1> SUFFICES ASSUME CInv, IInv, IInv', [CycleNext]_all PROVE CInv'
  OBVIOUS
<1>1. TypeOK'  BY DEF IInv
<1>2. CASE UNCHANGED all
  <2>1. UNCHANGED <<pc, stolen, stage, result, orders, position, reported,
                    entries, persisted, late>>
    BY <1>2 DEF all, vars, cycleVars
  <2>2. CycleTypeOK'  BY <1>1, <2>1 DEF CInv, CycleTypeOK
  <2> QED  BY <2>1, <2>2 DEF CInv, Know, Known, Quiet, Excused, Book
<1>3. ASSUME NEW p \in Pids, Cycle(p) PROVE CInv'
  BY <1>1, <1>3, GatesStep, AssessStep, SurveyStep, SubmitStep, ObserveStep,
     FlattenStep, RecheckStep, CloseStep, FinalStep, PersistStep DEF Cycle
<1>4. ASSUME BrokerStep PROVE CInv'
  BY <1>1, <1>4, FillStep, DropStep, ReportStep DEF BrokerStep
<1> QED
  BY <1>1, <1>2, <1>3, <1>4, LockSteps, InterruptStep DEF CycleNext

LEMMA CycleInvariance == CycleSpec => [](CInv /\ IInv)
BY CycleInitially, CycleKeeps, LockInvariance, PTL DEF CycleSpec

\* Every reachable state is one of the cycle, the lock and the broker.
THEOREM CycleTypeCorrect == CycleSpec => []CycleTypeOK
<1>1. CInv => CycleTypeOK  BY DEF CInv
<1> QED  BY <1>1, CycleInvariance, PTL

\* However runs are started, killed and interrupted, and whatever the broker
\* does with their orders, they never hold two shares nor owe one.
THEOREM OneShareAtMost == CycleSpec => []OneShare
<1>1. CInv => OneShare  BY DEF CInv, Book, OneShare
<1> QED  BY <1>1, CycleInvariance, PTL

\* A cycle reported as PERSISTED has left the account flat, and flat it stays
\* until the next entry.
THEOREM PersistedFlat == CycleSpec => []PersistedIsFlat
<1>1. CInv => PersistedIsFlat  BY DEF CInv, Quiet, PersistedIsFlat
<1> QED  BY <1>1, CycleInvariance, PTL

\* An entry meets a flat account, although the account was looked at two
\* steps earlier: the run is alone in its cycle.
THEOREM EntryClean == CycleSpec => CleanEntry
<1>1. ASSUME CInv, [CycleNext]_all, entries' # entries, ~Excused
      PROVE  orders = {} /\ position = 0
  <2>1. PICK p \in Pids : At(p, "submit")
    <3>1. PICK p \in Pids : Submit(p)
      BY <1>1
      DEF CycleNext, all, vars, cycleVars, Begin, LockStep, Acquire, Acquired,
          Release, Released, Die, Forget, UnchangedBroker, Interrupt, Cycle,
          Gates, Assess, Survey, Observe, Flatten, Recheck, Close, Final,
          Persist, Proceed, End, UnchangedAccount, BrokerStep, Report, Fill,
          Drop, UnchangedByBroker
    <3> QED  BY <3>1 DEF Submit
  <2> QED  BY <1>1, <2>1 DEF CInv, Know, Known, Quiet, At
<1>2. CInv /\ [CycleNext]_all
        => [entries' # entries /\ ~Excused => orders = {} /\ position = 0]_all
  BY <1>1
<1> QED  BY <1>2, CycleInvariance, PTL DEF CycleSpec, CleanEntry
=============================================================================
