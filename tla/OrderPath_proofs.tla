-------------------------- MODULE OrderPath_proofs --------------------------
(***************************************************************************)
(* What OrderPath guarantees on both lanes, for any set of symbols, any    *)
(* limits and any bounds on signals and faults.                            *)
(***************************************************************************)
EXTENDS OrderPath, FiniteSetTheorems, TLAPS

Judging == {"reconcile", "risk"}
Passed == {"portfolio", "ready", "submit", "policy", "place"}
InFlight == Judging \cup Passed \cup {"ack", "log"}

\* The risk check has let the current signal through, and nothing has
\* stopped it since.
Cleared == pc \in Passed \/ pc = "ack" \/ (pc = "log" /\ status = "accepted")

\* The ids after cur have left no trace yet.
Unused ==
    /\ blind \subseteq 1 .. cur
    /\ \A i \in Ids : i > cur => row[i] = "none" /\ bracket[i] = "none"

\* The signal in flight has no row, no bracket before Place, and is no
\* blind one before RiskEvaluate.
Current ==
    /\ pc \in InFlight => cur \in Ids /\ row[cur] = "none"
    /\ pc \in Judging \cup Passed => bracket[cur] = "none"
    /\ pc \in Judging => cur \notin blind
    /\ pc = "log" <=> status # "none"

\* A cleared signal leaves room for one more accepted row.
Room ==
    Cleared => Cardinality(Accepted) < MaxOpen + Cardinality(blind)

\* A cleared signal that has not been placed repeats no accepted one, unless
\* it was judged blind.
Fresh ==
    ~AllowDuplicates /\ pc \in Passed =>
        \A i \in Ids :
            i < cur /\ row[i] = "accepted" /\ signal[i] = signal[cur]
            => cur \in blind

\* A signal past the kill switch is the only one that can still go out.
KillSwitch ==
    /\ afterKill \in 0 .. 1
    /\ kill /\ pc \in {"policy", "place"} => afterKill = 0

\* From the reconcile of a live signal to its placing, every bracket that is
\* at the broker was there for a reconcile that worked to see, and the
\* signal's symbol was not among the positions.
Snapshot ==
    Mode = "ibkr_live" =>
        /\ pc \in {"risk"} \cup Passed =>
              \/ recon.failed
              \/ \A i \in Ids : bracket[i] \in {"working", "held"} =>
                     <<i, "tp">> \in recon.orders
        /\ pc \in Passed => signal[cur].sym \notin recon.positions

\* The bracket of the current signal lives and its reply was misread: the
\* fault is counted, the row that will belie the bracket is not written yet.
Live(i) == bracket[i] \in {"working", "held", "closed"}
Misread(i) == i = cur /\ pc = "log" /\ status = "failed" /\ Live(i)

\* The signals each of which a fault has paid for.
Owed == {i \in Ids : Unrecorded(i) \/ Misread(i)}

\* Every one of them has a fault of its own, and a signal about to be
\* recorded with a status other than these two never had a bracket.
Account ==
    /\ Cardinality(Owed) <= faults
    /\ pc = "log" /\ status \notin {"accepted", "failed"} =>
           bracket[cur] = "none"

Books == TypeOK /\ Unused /\ Current
Cap == AcceptedCap /\ Room
Duplicates == NoDuplicateEntry /\ Fresh
IInv ==
    Books /\ Cap /\ Duplicates /\ Account /\ KillSwitch /\ Snapshot

-----------------------------------------------------------------------------
(* Types. *)

\* The records and sets the steps build have the types of their variables.
LEMMA DataTypes ==
  /\ NoRecon \in [failed : BOOLEAN, positions : SUBSET Symbols,
                  orders : SUBSET (Ids \X Legs)]
  /\ [failed |-> FALSE, positions |-> Positions, orders |-> OpenOrders]
       \in [failed : BOOLEAN, positions : SUBSET Symbols,
            orders : SUBSET (Ids \X Legs)]
  /\ \A seen \in {{}, OpenOrders} :
        [failed |-> TRUE, positions |-> {}, orders |-> seen]
          \in [failed : BOOLEAN, positions : SUBSET Symbols,
               orders : SUBSET (Ids \X Legs)]
<1>1. Positions \in SUBSET Symbols /\ OpenOrders \in SUBSET (Ids \X Legs)
  BY DEF Positions, OpenOrders
<1> QED
  BY <1>1 DEF NoRecon

\* Init satisfies the type invariant.
LEMMA InitTypeOK == Init => TypeOK
<1> SUFFICES ASSUME Init
             PROVE  TypeOK
  OBVIOUS
<1>1. cur \in 0 .. MaxSignals
  BY OrderPathAssumption DEF Init
<1>2. recon \in [failed : BOOLEAN, positions : SUBSET Symbols,
                 orders : SUBSET (Ids \X Legs)]
  BY DataTypes DEF Init
<1>3. /\ signal \in [Ids -> Signals \cup {NoSignal}]
      /\ row \in [Ids -> Statuses \cup {"none"}]
      /\ bracket \in [Ids -> BracketStates]
  BY DEF Init, BracketStates
<1> QED
  BY <1>1, <1>2, <1>3 DEF Init, TypeOK, Stages

\* Every step keeps the type invariant.
LEMMA NextTypeOK == Books /\ [Next]_vars => TypeOK'
<1> SUFFICES ASSUME TypeOK, Current, [Next]_vars
             PROVE  TypeOK'
  BY DEF Books
<1> USE OrderPathAssumption DEF TypeOK, loopVars, brokerVars, historyVars
<1>1. CASE UNCHANGED vars
  BY <1>1 DEF vars
<1>2. CASE Restart
  BY <1>2 DEF Restart, Stages
<1>3. CASE NewSignal
  <2>1. cur' \in 0 .. MaxSignals /\ cur + 1 \in Ids
    BY <1>3 DEF NewSignal, Ids
  <2>2. signal' \in [Ids -> Signals \cup {NoSignal}]
    BY <1>3, <2>1 DEF NewSignal
  <2> QED
    BY <1>3, <2>1, <2>2 DEF NewSignal, Stages
<1>4. CASE Reconcile
  <2>1. recon' \in [failed : BOOLEAN, positions : SUBSET Symbols,
                    orders : SUBSET (Ids \X Legs)]
    <3>1. ASSUME NEW seen \in {{}, OpenOrders},
                 recon' = [failed |-> TRUE, positions |-> {},
                           orders |-> seen]
          PROVE  recon' \in [failed : BOOLEAN, positions : SUBSET Symbols,
                             orders : SUBSET (Ids \X Legs)]
      BY <3>1, DataTypes
    <3>2. CASE recon' = [failed |-> FALSE, positions |-> Positions,
                         orders |-> OpenOrders]
      BY <3>2, DataTypes
    <3> QED
      BY <1>4, <3>1, <3>2 DEF Reconcile
  <2> QED
    BY <1>4, <2>1 DEF Reconcile, Stages
<1>5. CASE RiskEvaluate
  <2>1. /\ faults' \in Nat
        /\ blind' \in SUBSET Ids
        /\ pc' \in Stages
        /\ status' \in Statuses \cup {"none"}
    <3>1. PICK ok1 \in RiskReads, ok2 \in BOOLEAN, otherOk \in BOOLEAN :
             /\ faults' = faults + Failures(ok1, ok2)
             /\ blind' = IF ok2 THEN blind ELSE blind \cup {cur}
             /\ \/ pc' = "portfolio" /\ status' = status
                \/ pc' = "log" /\ status' = "risk_rejected"
      BY <1>5 DEF RiskEvaluate
    <3>2. cur \in Ids
      BY <1>5 DEF RiskEvaluate, Current, InFlight, Judging
    <3> QED
      BY <3>1, <3>2 DEF Failures, Stages, Statuses
  <2> QED
    BY <1>5, <2>1 DEF RiskEvaluate
<1>6. CASE PortfolioEvaluate
  <2>1. /\ faults' \in Nat
        /\ pc' \in Stages
        /\ status' \in Statuses \cup {"none"}
    <3>1. PICK ok \in BOOLEAN, gatesOk \in BOOLEAN :
             /\ faults' = faults + Failures(ok, TRUE)
             /\ \/ pc' = "ready" /\ status' = status
                \/ pc' = "log" /\ status' = "risk_rejected"
      BY <1>6 DEF PortfolioEvaluate
    <3> QED
      BY <3>1 DEF Failures, Stages, Statuses
  <2> QED
    BY <1>6, <2>1 DEF PortfolioEvaluate
<1>7. CASE WatchdogGate
  BY <1>7 DEF WatchdogGate, Stages, Statuses
<1>8. CASE CheckKillSwitch
  BY <1>8 DEF CheckKillSwitch, Stages, Statuses
<1>9. CASE SubmitChecks
  BY <1>9 DEF SubmitChecks, Stages, Statuses
<1>10. CASE Place
  <2>1. bracket' \in [Ids -> BracketStates]
    BY <1>10 DEF Place, BracketStates
  <2>2. afterKill' \in Nat
    BY <1>10 DEF Place
  <2> QED
    BY <1>10, <2>1, <2>2 DEF Place, Stages
<1>11. CASE Acknowledge
  BY <1>11 DEF Acknowledge, Stages, Statuses
<1>12. CASE LogIntent
  <2>1. row' \in [Ids -> Statuses \cup {"none"}]
    BY <1>12 DEF LogIntent
  <2>2. faults' \in Nat
    BY <1>12 DEF LogIntent
  <2>3. recon' \in [failed : BOOLEAN, positions : SUBSET Symbols,
                    orders : SUBSET (Ids \X Legs)]
    BY <1>12, DataTypes DEF LogIntent
  <2> QED
    BY <1>12, <2>1, <2>2, <2>3 DEF LogIntent, Stages
<1>13. CASE Crash
  <2>1. recon' \in [failed : BOOLEAN, positions : SUBSET Symbols,
                    orders : SUBSET (Ids \X Legs)]
    BY <1>13, DataTypes DEF Crash
  <2> QED
    BY <1>13, <2>1 DEF Crash, Stages
<1>14. CASE ThrowKillSwitch
  BY <1>14 DEF ThrowKillSwitch
<1>15. CASE ReleaseKillSwitch
  BY <1>15 DEF ReleaseKillSwitch
<1>16. ASSUME NEW i \in Ids, Fill(i) \/ Exit(i) \/ Drop(i)
       PROVE  TypeOK'
  <2>1. bracket' \in [Ids -> BracketStates]
    BY <1>16 DEF Fill, Exit, Drop, BrokerMoves, BracketStates
  <2> QED
    BY <1>16, <2>1 DEF Fill, Exit, Drop, BrokerMoves
<1> QED
  BY <1>1, <1>2, <1>3, <1>4, <1>5, <1>6, <1>7, <1>8, <1>9, <1>10, <1>11,
     <1>12, <1>13, <1>14, <1>15, <1>16
  DEF Next

-----------------------------------------------------------------------------
(* The bookkeeping of ids. *)

\* Every step keeps the unused ids unused and the signal in flight clean.
LEMMA NextBooks == Books /\ [Next]_vars => Unused' /\ Current'
<1> SUFFICES ASSUME TypeOK, Unused, Current, [Next]_vars
             PROVE  Unused' /\ Current'
  BY DEF Books
<1> USE OrderPathAssumption DEF TypeOK, Unused, Current, loopVars,
        brokerVars, historyVars, InFlight, Judging, Passed, Ids
<1>1. CASE UNCHANGED vars
  BY <1>1 DEF vars
<1>2. CASE Restart
  BY <1>2 DEF Restart
<1>3. CASE NewSignal
  BY <1>3 DEF NewSignal
<1>4. CASE Reconcile
  BY <1>4 DEF Reconcile
<1>5. CASE RiskEvaluate
  <2>1. /\ blind' \subseteq blind \cup {cur}
        /\ \/ pc' = "portfolio" /\ status' = status
           \/ pc' = "log" /\ status' = "risk_rejected"
    BY <1>5 DEF RiskEvaluate
  <2> QED
    BY <1>5, <2>1 DEF RiskEvaluate
<1>6. CASE PortfolioEvaluate
  <2>1. \/ pc' = "ready" /\ status' = status
        \/ pc' = "log" /\ status' = "risk_rejected"
    BY <1>6 DEF PortfolioEvaluate
  <2> QED
    BY <1>6, <2>1 DEF PortfolioEvaluate
<1>7. CASE WatchdogGate
  BY <1>7 DEF WatchdogGate
<1>8. CASE CheckKillSwitch
  BY <1>8 DEF CheckKillSwitch
<1>9. CASE SubmitChecks
  BY <1>9 DEF SubmitChecks
<1>10. CASE Place
  BY <1>10 DEF Place
<1>11. CASE Acknowledge
  BY <1>11 DEF Acknowledge
<1>12. CASE LogIntent
  BY <1>12 DEF LogIntent
<1>13. CASE Crash
  BY <1>13 DEF Crash
<1>14. CASE ThrowKillSwitch
  BY <1>14 DEF ThrowKillSwitch
<1>15. CASE ReleaseKillSwitch
  BY <1>15 DEF ReleaseKillSwitch
<1>16. ASSUME NEW i \in Ids, Fill(i) \/ Exit(i) \/ Drop(i)
       PROVE  Unused' /\ Current'
  BY <1>16 DEF Fill, Exit, Drop, BrokerMoves
<1> QED
  BY <1>1, <1>2, <1>3, <1>4, <1>5, <1>6, <1>7, <1>8, <1>9, <1>10, <1>11,
     <1>12, <1>13, <1>14, <1>15, <1>16
  DEF Next

-----------------------------------------------------------------------------
(* The cap on accepted rows. *)

\* Rows and blind signals are finitely many.
LEMMA Finiteness ==
  ASSUME TypeOK
  PROVE  /\ IsFiniteSet(Accepted) /\ Cardinality(Accepted) \in Nat
         /\ IsFiniteSet(blind) /\ Cardinality(blind) \in Nat
<1>1. IsFiniteSet(Ids)
  BY FS_Interval, OrderPathAssumption DEF Ids
<1>2. Accepted \subseteq Ids /\ blind \subseteq Ids
  BY DEF Accepted, TypeOK
<1> QED
  BY <1>1, <1>2, FS_Subset, FS_CardinalityType

\* A step that is neither the risk check nor log_intent changes neither the
\* rows nor the blind signals, and clears no signal.
LEMMA OtherSteps ==
  ASSUME Books, [Next]_vars, ~RiskEvaluate, ~LogIntent
  PROVE  UNCHANGED <<row, blind>> /\ (Cleared' => Cleared)
<1> USE DEF Books, Current, Cleared, Passed, loopVars, brokerVars,
        historyVars
<1>1. CASE UNCHANGED vars
  BY <1>1 DEF vars
<1>2. CASE Restart \/ NewSignal \/ Reconcile
  BY <1>2 DEF Restart, NewSignal, Reconcile
<1>3. CASE PortfolioEvaluate
  BY <1>3 DEF PortfolioEvaluate
<1>4. CASE WatchdogGate \/ CheckKillSwitch \/ SubmitChecks
  BY <1>4 DEF WatchdogGate, CheckKillSwitch, SubmitChecks
<1>5. CASE Place \/ Acknowledge \/ Crash
  BY <1>5 DEF Place, Acknowledge, Crash
<1>6. CASE ThrowKillSwitch \/ ReleaseKillSwitch
  BY <1>6 DEF ThrowKillSwitch, ReleaseKillSwitch
<1>7. CASE \E i \in Ids : Fill(i) \/ Exit(i) \/ Drop(i)
  BY <1>7 DEF Fill, Exit, Drop, BrokerMoves
<1> QED
  BY <1>1, <1>2, <1>3, <1>4, <1>5, <1>6, <1>7 DEF Next

\* What the risk check may do: let the signal through on what it read, or
\* reject it; a failed read makes the signal a blind one.
LEMMA RiskOutcome ==
  ASSUME RiskEvaluate
  PROVE  \E ok \in BOOLEAN :
            /\ blind' = IF ok THEN blind ELSE blind \cup {cur}
            /\ \/ pc' = "portfolio" /\ IntentChecks(ReadIntents(ok))
               \/ pc' = "log" /\ status' = "risk_rejected"
BY DEF RiskEvaluate

\* Every step keeps the cap: the risk check counts the accepted rows unless
\* it is blind, in which case the bound grows with it; only log_intent adds
\* a row, for a signal that was cleared.
LEMMA NextCap == Books /\ Books' /\ Cap /\ [Next]_vars => Cap'
<1> SUFFICES ASSUME Books, Books', Cap, [Next]_vars
             PROVE  Cap'
  OBVIOUS
<1>0. /\ IsFiniteSet(Accepted) /\ Cardinality(Accepted) \in Nat
      /\ IsFiniteSet(blind) /\ Cardinality(blind) \in Nat
  BY Finiteness DEF Books
<1>m. MaxOpen \in Nat \ {0}
  BY OrderPathAssumption
<1>1. CASE RiskEvaluate
  <2>1. Accepted' = Accepted
    BY <1>1 DEF RiskEvaluate, Accepted
  <2>2. PICK ok \in BOOLEAN :
           /\ blind' = IF ok THEN blind ELSE blind \cup {cur}
           /\ \/ pc' = "portfolio" /\ IntentChecks(ReadIntents(ok))
              \/ pc' = "log" /\ status' = "risk_rejected"
    BY <1>1, RiskOutcome
  <2>3. cur \notin blind
    BY <1>1 DEF RiskEvaluate, Books, Current, Judging
  <2>4. ~ok => Cardinality(blind') = Cardinality(blind) + 1
    BY <2>2, <2>3, <1>0, FS_AddElement
  <2>5. Cardinality(Accepted') <= MaxOpen + Cardinality(blind')
    BY <2>1, <2>2, <2>4, <1>0, <1>m DEF Cap, AcceptedCap
  <2>6. Cleared' => Cardinality(Accepted') < MaxOpen + Cardinality(blind')
    <3>1. CASE ok
      <4>1. Cleared' => Cardinality(Accepted) < MaxOpen
        BY <2>2, <3>1 DEF Cleared, Passed, IntentChecks, ReadIntents
      <4> QED
        BY <4>1, <2>1, <2>2, <3>1, <1>0, <1>m
    <3>2. CASE ~ok
      BY <2>1, <2>4, <3>2, <1>0, <1>m DEF Cap, AcceptedCap
    <3> QED
      BY <3>1, <3>2
  <2> QED
    BY <2>5, <2>6 DEF Cap, AcceptedCap, Room
<1>2. CASE LogIntent
  <2>1. blind' = blind /\ ~Cleared'
    BY <1>2 DEF LogIntent, Cleared, Passed, historyVars
  <2>2. CASE row' = [row EXCEPT ![cur] = status]
    <3>1. cur \in Ids /\ row[cur] = "none" /\ row \in [Ids -> Statuses \cup {"none"}]
      BY <1>2 DEF LogIntent, Books, TypeOK, Current, InFlight
    <3>2. CASE status = "accepted"
      <4>1. Accepted' = Accepted \cup {cur}
        BY <2>2, <3>1, <3>2 DEF Accepted
      <4>2. cur \notin Accepted
        BY <3>1 DEF Accepted
      <4>3. Cardinality(Accepted') = Cardinality(Accepted) + 1
        BY <4>1, <4>2, <1>0, FS_AddElement
      <4>4. Cardinality(Accepted) < MaxOpen + Cardinality(blind)
        BY <1>2, <3>2 DEF LogIntent, Cleared, Cap, Room
      <4> QED
        BY <4>3, <4>4, <2>1, <1>0, <1>m DEF Cap, AcceptedCap, Room
    <3>3. CASE status # "accepted"
      <4>1. Accepted' = Accepted
        BY <2>2, <3>1, <3>3 DEF Accepted
      <4> QED
        BY <4>1, <2>1 DEF Cap, AcceptedCap, Room
    <3> QED
      BY <3>2, <3>3
  <2>3. CASE row' = row
    BY <2>1, <2>3 DEF Cap, AcceptedCap, Room, Accepted
  <2> QED
    BY <1>2, <2>2, <2>3 DEF LogIntent
<1>3. CASE ~RiskEvaluate /\ ~LogIntent
  <2>1. UNCHANGED <<row, blind>> /\ (Cleared' => Cleared)
    BY <1>3, OtherSteps
  <2>2. Accepted' = Accepted
    BY <2>1 DEF Accepted
  <2> QED
    BY <2>1, <2>2 DEF Cap, AcceptedCap, Room
<1> QED
  BY <1>1, <1>2, <1>3

-----------------------------------------------------------------------------
(* Duplicates. *)

\* Every step keeps the rule on duplicates. The risk check reads all rows
\* before the current one, and until the signal is placed no row is added;
\* after that the later ids have no bracket to be a duplicate with.
LEMMA NextDuplicates == Books /\ Duplicates /\ [Next]_vars => Duplicates'
<1> SUFFICES ASSUME Books, Duplicates, [Next]_vars, ~AllowDuplicates
             PROVE  Duplicates'
  BY DEF Duplicates, NoDuplicateEntry, Fresh
<1> USE OrderPathAssumption DEF Books, TypeOK, Unused, Current, InFlight,
        Judging, Passed, Duplicates, NoDuplicateEntry, Fresh, loopVars,
        brokerVars, historyVars
<1>1. CASE UNCHANGED vars
  BY <1>1 DEF vars
<1>2. CASE Restart \/ Reconcile \/ Crash
  BY <1>2 DEF Restart, Reconcile, Crash
<1>3. CASE NewSignal
  <2>1. cur + 1 \in Ids /\ bracket[cur + 1] = "none" /\ bracket' = bracket
    BY <1>3 DEF NewSignal, Ids
  <2>2. \A i \in Ids : i # cur + 1 => signal'[i] = signal[i]
    BY <1>3 DEF NewSignal
  <2>3. pc' \notin Passed /\ row' = row /\ blind' = blind
    BY <1>3 DEF NewSignal
  <2> QED
    BY <2>1, <2>2, <2>3
<1>4. CASE RiskEvaluate
  <2>1. PICK ok \in BOOLEAN :
           /\ blind' = IF ok THEN blind ELSE blind \cup {cur}
           /\ \/ pc' = "portfolio" /\ IntentChecks(ReadIntents(ok))
              \/ pc' = "log" /\ status' = "risk_rejected"
    BY <1>4, RiskOutcome
  <2>2. UNCHANGED <<cur, signal, row, bracket>>
    BY <1>4 DEF RiskEvaluate
  <2>3. NoDuplicateEntry'
    BY <2>1, <2>2
  <2>4. ASSUME pc' \in Passed,
               NEW i \in Ids, row[i] = "accepted", signal[i] = signal[cur]
        PROVE  cur \in blind'
    <3>1. i \in Accepted /\ IntentChecks(ReadIntents(ok))
      BY <2>1, <2>4 DEF Accepted
    <3>2. CASE ok
      BY <2>4, <3>1, <3>2 DEF IntentChecks, ReadIntents
    <3>3. CASE ~ok
      BY <2>1, <3>3
    <3> QED
      BY <3>2, <3>3
  <2> QED
    BY <2>2, <2>3, <2>4
<1>5. CASE PortfolioEvaluate
  BY <1>5 DEF PortfolioEvaluate
<1>6. CASE WatchdogGate \/ CheckKillSwitch \/ SubmitChecks
  BY <1>6 DEF WatchdogGate, CheckKillSwitch, SubmitChecks
<1>7. CASE Place
  <2>1. /\ cur \in Ids /\ bracket' = [bracket EXCEPT ![cur] = "working"]
        /\ UNCHANGED <<cur, signal, row, blind>>
        /\ pc' = "ack"
    BY <1>7 DEF Place
  <2>2. SUFFICES ASSUME NEW i \in Ids, NEW j \in Ids, i < j,
                        bracket'[i] # "none", bracket'[j] # "none",
                        signal[i] = signal[j], row[i] = "accepted"
                 PROVE  j \in blind
    BY <2>1
  <2>3. CASE j = cur
    BY <1>7, <2>2, <2>3 DEF Place
  <2>4. CASE i = cur
    BY <2>1, <2>2, <2>4 DEF Ids
  <2>5. CASE i # cur /\ j # cur
    BY <2>1, <2>2, <2>5
  <2> QED
    BY <2>3, <2>4, <2>5
<1>8. CASE Acknowledge
  BY <1>8 DEF Acknowledge
<1>9. CASE LogIntent
  <2>1. /\ cur \in Ids /\ pc' = "idle"
        /\ UNCHANGED <<cur, signal, bracket, blind>>
        /\ \A i \in Ids : i # cur => row'[i] = row[i]
    BY <1>9 DEF LogIntent
  <2>2. \A j \in Ids : cur < j => bracket[j] = "none"
    BY <2>1 DEF Ids
  <2> QED
    BY <2>1, <2>2
<1>10. CASE ThrowKillSwitch \/ ReleaseKillSwitch
  BY <1>10 DEF ThrowKillSwitch, ReleaseKillSwitch
<1>11. ASSUME NEW k \in Ids, Fill(k) \/ Exit(k) \/ Drop(k)
       PROVE  Duplicates'
  <2>1. \A i \in Ids : bracket'[i] # "none" => bracket[i] # "none"
    BY <1>11 DEF Fill, Exit, Drop, BrokerMoves
  <2>2. UNCHANGED <<pc, cur, signal, row, blind>>
    BY <1>11 DEF Fill, Exit, Drop, BrokerMoves
  <2> QED
    BY <2>1, <2>2
<1> QED
  BY <1>1, <1>2, <1>3, <1>4, <1>5, <1>6, <1>7, <1>8, <1>9, <1>10, <1>11
  DEF Next

-----------------------------------------------------------------------------
(* The kill switch. *)

\* Every step keeps the count of brackets placed under the kill switch: it
\* is zero when the switch is thrown, and a signal that finds the switch
\* thrown does not get to Place.
LEMMA NextKillSwitch == TypeOK /\ KillSwitch /\ [Next]_vars => KillSwitch'
<1> SUFFICES ASSUME TypeOK, KillSwitch, [Next]_vars
             PROVE  KillSwitch'
  OBVIOUS
<1> USE DEF TypeOK, KillSwitch, loopVars, brokerVars, historyVars
<1>1. CASE UNCHANGED vars
  BY <1>1 DEF vars
<1>2. CASE Restart \/ NewSignal \/ Reconcile
  BY <1>2 DEF Restart, NewSignal, Reconcile
<1>3. CASE RiskEvaluate \/ PortfolioEvaluate
  <2>1. pc' \in {"portfolio", "ready", "log"} /\ UNCHANGED <<kill, afterKill>>
    BY <1>3 DEF RiskEvaluate, PortfolioEvaluate
  <2> QED
    BY <2>1
<1>4. CASE WatchdogGate \/ CheckKillSwitch \/ SubmitChecks
  <2>1. CASE CheckKillSwitch
    <3>1. kill => pc' = "log"
      BY <2>1 DEF CheckKillSwitch, IsKillSwitchActive
    <3>2. pc' \in {"log", "policy"} /\ UNCHANGED <<kill, afterKill>>
      BY <2>1 DEF CheckKillSwitch
    <3> QED
      BY <3>1, <3>2
  <2> QED
    BY <1>4, <2>1 DEF WatchdogGate, SubmitChecks
<1>5. CASE Place
  BY <1>5 DEF Place
<1>6. CASE Acknowledge \/ LogIntent \/ Crash
  BY <1>6 DEF Acknowledge, LogIntent, Crash
<1>7. CASE ThrowKillSwitch \/ ReleaseKillSwitch
  BY <1>7 DEF ThrowKillSwitch, ReleaseKillSwitch
<1>8. CASE \E i \in Ids : Fill(i) \/ Exit(i) \/ Drop(i)
  BY <1>8 DEF Fill, Exit, Drop, BrokerMoves
<1> QED
  BY <1>1, <1>2, <1>3, <1>4, <1>5, <1>6, <1>7, <1>8 DEF Next

-----------------------------------------------------------------------------
(* The snapshot of the account. *)

\* A symbol the account holds is the symbol of a held bracket.
LEMMA HeldBracket ==
  ASSUME NEW s \in Positions
  PROVE  \E i \in Ids : bracket[i] = "held" /\ signal[i].sym = s
<1>1. Held(s, "long") # {} \/ Held(s, "short") # {}
  BY DEF Positions
<1> QED
  BY <1>1 DEF Held

\* Every step keeps the snapshot good: only reconcile takes one, no bracket
\* comes to the broker before the signal is placed, and a bracket that has
\* left the broker does not come back.
LEMMA NextSnapshot == Books /\ Snapshot /\ [Next]_vars => Snapshot'
<1> SUFFICES ASSUME Books, Snapshot, [Next]_vars, Mode = "ibkr_live"
             PROVE  Snapshot'
  BY DEF Snapshot
<1> USE DEF Books, TypeOK, Current, InFlight, Judging, Passed, Snapshot,
        loopVars, brokerVars, historyVars
<1>1. CASE UNCHANGED vars
  BY <1>1 DEF vars
<1>2. CASE Restart \/ NewSignal \/ Crash
  BY <1>2 DEF Restart, NewSignal, Crash
<1>3. CASE Reconcile
  <2>1. pc' = "risk" /\ bracket' = bracket
    BY <1>3 DEF Reconcile
  <2>2. CASE recon'.failed
    BY <2>1, <2>2
  <2>3. CASE recon' = [failed |-> FALSE, positions |-> Positions,
                       orders |-> OpenOrders]
    <3>1. \A i \in Ids : bracket[i] \in {"working", "held"} =>
             <<i, "tp">> \in OpenOrders
      BY DEF OpenOrders, Legs
    <3> QED
      BY <2>1, <2>3, <3>1
  <2> QED
    BY <1>3, <2>2, <2>3 DEF Reconcile
<1>4. CASE RiskEvaluate
  <2>1. UNCHANGED <<cur, signal, recon, bracket>>
    BY <1>4 DEF RiskEvaluate
  <2>2. PICK ok1 \in RiskReads :
           \/ pc' = "portfolio" /\ LiveChecks(ReadIntents(ok1))
           \/ pc' = "log"
    BY <1>4 DEF RiskEvaluate
  <2>3. pc' \in Passed => signal[cur].sym \notin recon.positions
    BY <2>2 DEF LiveChecks, PositionConflict
  <2> QED
    BY <1>4, <2>1, <2>2, <2>3 DEF RiskEvaluate
<1>5. CASE PortfolioEvaluate
  <2>1. /\ pc = "portfolio" /\ pc' \in {"ready", "log"}
        /\ UNCHANGED <<cur, signal, recon, bracket>>
    BY <1>5 DEF PortfolioEvaluate
  <2> QED
    BY <2>1
<1>6. CASE WatchdogGate \/ CheckKillSwitch \/ SubmitChecks
  BY <1>6 DEF WatchdogGate, CheckKillSwitch, SubmitChecks
<1>7. CASE Place \/ Acknowledge \/ LogIntent
  BY <1>7 DEF Place, Acknowledge, LogIntent
<1>8. CASE ThrowKillSwitch \/ ReleaseKillSwitch
  BY <1>8 DEF ThrowKillSwitch, ReleaseKillSwitch
<1>9. ASSUME NEW k \in Ids, Fill(k) \/ Exit(k) \/ Drop(k)
      PROVE  Snapshot'
  <2>1. \A i \in Ids : bracket'[i] \in {"working", "held"} =>
           bracket[i] \in {"working", "held"}
    BY <1>9 DEF Fill, Exit, Drop, BrokerMoves
  <2>2. UNCHANGED <<pc, cur, signal, recon>>
    BY <1>9 DEF Fill, Exit, Drop, BrokerMoves
  <2> QED
    BY <2>1, <2>2
<1> QED
  BY <1>1, <1>2, <1>3, <1>4, <1>5, <1>6, <1>7, <1>8, <1>9 DEF Next

-----------------------------------------------------------------------------
(* Signals without a true row. *)

\* A step that adds nothing to what is owed, or the current signal at the
\* price of a fault, keeps the account.
LEMMA OwedGrowth ==
  ASSUME TypeOK, Cardinality(Owed) <= faults, faults' \in Nat,
         \/ Owed' \subseteq Owed /\ faults' >= faults
         \/ Owed' \subseteq Owed \cup {cur} /\ faults' >= faults + 1
  PROVE  Cardinality(Owed') <= faults'
<1>1. IsFiniteSet(Owed)
  <2>1. IsFiniteSet(Ids)
    BY FS_Interval, OrderPathAssumption DEF Ids
  <2> QED
    BY <2>1, FS_Subset DEF Owed
<1>2. faults \in Nat /\ Cardinality(Owed) \in Nat
  BY <1>1, FS_CardinalityType DEF TypeOK
<1>3. CASE Owed' \subseteq Owed /\ faults' >= faults
  <2>1. Cardinality(Owed') <= Cardinality(Owed) /\ Cardinality(Owed') \in Nat
    BY <1>1, <1>3, FS_Subset, FS_CardinalityType
  <2> QED
    BY <1>2, <1>3, <2>1
<1>4. CASE Owed' \subseteq Owed \cup {cur} /\ faults' >= faults + 1
  <2>1. /\ IsFiniteSet(Owed \cup {cur})
        /\ Cardinality(Owed \cup {cur}) <= Cardinality(Owed) + 1
    BY <1>1, <1>2, FS_AddElement
  <2>2. /\ Cardinality(Owed') <= Cardinality(Owed \cup {cur})
        /\ Cardinality(Owed') \in Nat
        /\ Cardinality(Owed \cup {cur}) \in Nat
    BY <1>4, <2>1, FS_Subset, FS_CardinalityType
  <2> QED
    BY <1>2, <1>4, <2>1, <2>2
<1> QED
  BY <1>3, <1>4

\* A signal out of hand has its row and its place for good; a bracket that
\* lives has lived before.
LEMMA NextAccount == Books /\ Account /\ [Next]_vars => Account'
<1> SUFFICES ASSUME Books, Account, [Next]_vars
             PROVE  Account'
  OBVIOUS
<1> USE DEF Account, Owed, Unrecorded, InHand, Misread, Live
<1>0. TypeOK /\ TypeOK' /\ faults' \in Nat /\ faults \in Nat
  BY NextTypeOK DEF Books, TypeOK
<1>1. CASE UNCHANGED vars
  BY <1>1 DEF vars
<1>2. CASE Restart \/ ThrowKillSwitch \/ ReleaseKillSwitch \/ Reconcile
  <2>1. /\ UNCHANGED <<cur, status, row, bracket, faults>>
        /\ pc' = pc \/ (pc \in {"down", "idle"} /\ pc' = "idle")
              \/ (pc = "reconcile" /\ pc' = "risk")
    BY <1>2 DEF Restart, ThrowKillSwitch, ReleaseKillSwitch, Reconcile,
                loopVars, brokerVars, historyVars
  <2>2. Owed' \subseteq Owed
    BY <2>1
  <2> QED
    BY <1>0, <2>1, <2>2, OwedGrowth
<1>3. CASE NewSignal
  <2>1. /\ pc = "idle" /\ cur' = cur + 1 /\ pc' \in {"reconcile", "risk"}
        /\ cur \in Nat
        /\ UNCHANGED <<row, bracket, faults>>
    BY <1>0, <1>3 DEF NewSignal, brokerVars, historyVars, TypeOK
  <2>2. Owed' \subseteq Owed
    BY <2>1 DEF Ids
  <2> QED
    BY <1>0, <2>1, <2>2, OwedGrowth
<1>4. CASE \/ RiskEvaluate \/ PortfolioEvaluate \/ WatchdogGate
           \/ CheckKillSwitch \/ SubmitChecks
  <2>1. /\ pc \in Judging \cup Passed
        /\ pc' \notin {"down", "idle"}
        /\ pc' = "log" => status' \notin {"accepted", "failed"}
        /\ UNCHANGED <<cur, row, bracket>>
        /\ faults' >= faults
    BY <1>0, <1>4 DEF RiskEvaluate, PortfolioEvaluate, WatchdogGate,
       CheckKillSwitch, SubmitChecks, Judging, Passed, loopVars, brokerVars,
       historyVars, Failures
  <2>2. Owed' \subseteq Owed
    BY <2>1 DEF Judging, Passed
  <2>3. bracket'[cur'] = "none"
    BY <2>1 DEF Books, Current
  <2> QED
    BY <1>0, <2>1, <2>2, <2>3, OwedGrowth
<1>5. CASE Place
  <2>1. /\ pc = "place" /\ pc' = "ack"
        /\ UNCHANGED <<cur, row, faults>>
        /\ \A i \in Ids : i # cur => bracket'[i] = bracket[i]
    BY <1>0, <1>5 DEF Place, loopVars, TypeOK
  <2>2. Owed' \subseteq Owed
    BY <2>1
  <2> QED
    BY <1>0, <2>1, <2>2, OwedGrowth
<1>6. CASE Acknowledge
  <2>1. /\ pc = "ack" /\ pc' = "log"
        /\ status' \in {"accepted", "failed"}
        /\ UNCHANGED <<cur, row, bracket>>
        /\ \/ /\ faults' = faults
              /\ status' = "accepted" \/ bracket[cur] = "void"
           \/ faults' = faults + 1
    BY <1>6 DEF Acknowledge, loopVars, brokerVars
  <2>2. Owed' \subseteq Owed \cup {cur}
    BY <2>1
  <2>3. faults' = faults => Owed' \subseteq Owed
    BY <1>0, <2>1
  <2> QED
    BY <1>0, <2>1, <2>2, <2>3, OwedGrowth
<1>7. CASE LogIntent
  <2>1. /\ pc = "log" /\ pc' = "idle" /\ status' = "none"
        /\ UNCHANGED <<cur, bracket>>
        /\ \/ row' = [row EXCEPT ![cur] = status] /\ faults' = faults
           \/ row' = row /\ faults' = faults + 1
    BY <1>7 DEF LogIntent, loopVars, brokerVars
  <2>2. /\ \A i \in Ids : i # cur => row'[i] = row[i]
        /\ faults' = faults => row'[cur] = status
    BY <1>0, <2>1 DEF TypeOK, Books, Current, InFlight
  <2>3. Owed' \subseteq Owed \cup {cur}
    BY <2>1, <2>2
  <2>4. faults' = faults => Owed' \subseteq Owed
    BY <2>1, <2>2, <2>3 DEF Books, Current
  <2> QED
    BY <1>0, <2>1, <2>3, <2>4, OwedGrowth
<1>8. CASE Crash
  <2>1. /\ pc' = "down"
        /\ UNCHANGED <<cur, row, bracket>>
        /\ faults' = faults + 1
    BY <1>8 DEF Crash, loopVars, brokerVars
  <2>2. Owed' \subseteq Owed \cup {cur}
    BY <2>1
  <2> QED
    BY <1>0, <2>1, <2>2, OwedGrowth
<1>9. ASSUME NEW k \in Ids, Fill(k) \/ Exit(k) \/ Drop(k)
      PROVE  Account'
  <2>1. /\ UNCHANGED <<pc, cur, status, row, faults>>
        /\ \A i \in Ids :
              /\ bracket'[i] \in {"working", "held", "closed"} =>
                     bracket[i] \in {"working", "held", "closed"}
              /\ bracket[i] = "none" => bracket'[i] = "none"
    BY <1>0, <1>9 DEF Fill, Exit, Drop, BrokerMoves, loopVars, historyVars,
                      TypeOK
  <2>2. Owed' \subseteq Owed
    BY <2>1
  <2>3. pc = "log" => cur \in Ids
    BY DEF Books, Current, InFlight
  <2> QED
    BY <1>0, <2>1, <2>2, <2>3, OwedGrowth
<1> QED
  BY <1>1, <1>2, <1>3, <1>4, <1>5, <1>6, <1>7, <1>8, <1>9 DEF Next

-----------------------------------------------------------------------------
(* The theorems. *)

\* The initial states satisfy the inductive invariant.
LEMMA InitIInv == Init => IInv
<1> SUFFICES ASSUME Init
             PROVE  IInv
  OBVIOUS
<1>1. Books
  BY InitTypeOK
  DEF Init, Books, Unused, Current, InFlight, Judging, Passed
<1>2. Accepted = {} /\ blind = {}
  BY DEF Init, Accepted
<1>3. Cap
  BY <1>2, FS_EmptySet, OrderPathAssumption
  DEF Cap, AcceptedCap, Room, Init, Cleared, Passed
<1>5. Account
  <2>1. Owed = {}
    BY DEF Init, Owed, Unrecorded, Misread, Ids
  <2> QED
    BY <2>1, FS_EmptySet DEF Account, Init
<1>4. Duplicates /\ KillSwitch /\ Snapshot
  BY DEF Init, Duplicates, NoDuplicateEntry, Fresh, KillSwitch, Passed,
         Snapshot
<1> QED
  BY <1>1, <1>3, <1>4, <1>5 DEF IInv

\* The inductive invariant holds throughout.
LEMMA Invariance == Spec => []IInv
<1>1. IInv /\ [Next]_vars => Books'
  BY NextTypeOK, NextBooks DEF IInv, Books
<1>2. IInv /\ [Next]_vars => IInv'
  BY <1>1, NextCap, NextDuplicates, NextAccount, NextKillSwitch,
     NextSnapshot
  DEF IInv, Books
<1> QED
  BY <1>2, InitIInv, PTL DEF Spec

\* Every variable keeps to the values the code can give it.
THEOREM TypeCorrect == Spec => []TypeOK
<1>1. IInv => TypeOK
  BY DEF IInv, Books
<1> QED
  BY <1>1, Invariance, PTL

\* RiskManager.evaluate keeps RISK_MAX_OPEN_POSITIONS as a cap on accepted
\* rows, but for one row each time it could not read them.
THEOREM CapHolds == Spec => []AcceptedCap
<1>1. IInv => AcceptedCap
  BY DEF IInv, Cap
<1> QED
  BY <1>1, Invariance, PTL

\* Without RISK_ALLOW_DUPLICATES no second bracket of a symbol and direction
\* is placed behind an accepted one, but by a signal judged blind.
THEOREM NoDuplicates == Spec => []NoDuplicateEntry
<1>1. IInv => NoDuplicateEntry
  BY DEF IInv, Duplicates
<1> QED
  BY <1>1, Invariance, PTL

\* Each signal that leaves main.py's loop without a row, and each bracket
\* that lives behind a row that denies it, was paid for by a fault of its own.
THEOREM UnrecordedPaidFor == Spec => []UnrecordedOnlyByFaults
<1>1. ASSUME IInv
      PROVE  UnrecordedOnlyByFaults
  <2>1. IsFiniteSet(Ids)
    BY FS_Interval, OrderPathAssumption DEF Ids
  <2>2. IsFiniteSet(Owed) /\ {i \in Ids : Unrecorded(i)} \subseteq Owed
    BY <2>1, FS_Subset DEF Owed
  <2>3. /\ Cardinality({i \in Ids : Unrecorded(i)}) <= Cardinality(Owed)
        /\ Cardinality(Owed) \in Nat
        /\ Cardinality({i \in Ids : Unrecorded(i)}) \in Nat
    BY <2>2, FS_Subset, FS_CardinalityType
  <2>4. faults \in Nat /\ Cardinality(Owed) <= faults
    BY <1>1 DEF IInv, Account, Books, TypeOK
  <2> QED
    BY <2>3, <2>4 DEF UnrecordedOnlyByFaults
<1> QED
  BY <1>1, Invariance, PTL

\* After the kill switch is thrown at most the bracket in flight goes out,
\* whatever crashes, restarts and later signals follow.
THEOREM KillSwitchHolds == Spec => []AtMostOneAfterKill
<1>1. IInv => AtMostOneAfterKill
  BY DEF IInv, KillSwitch, AtMostOneAfterKill
<1> QED
  BY <1>1, Invariance, PTL

\* On the live lane a bracket goes out only in a symbol that a reconcile that
\* worked did not show as held, and if it is held by then, the reconcile has
\* seen the order that brought it.
THEOREM PositionsRespected == Spec => PositionRespected
<1> DEFINE Respected ==
      \A i \in Ids :
          /\ Mode = "ibkr_live"
          /\ bracket[i] = "none"
          /\ bracket'[i] = "working"
          => \/ recon.failed
             \/ /\ signal[i].sym \notin recon.positions
                /\ signal[i].sym \in Positions =>
                     \E o \in recon.orders :
                         signal[o[1]].sym = signal[i].sym
<1>1. ASSUME IInv, [Next]_vars
      PROVE  Respected
  <2>1. SUFFICES ASSUME NEW i \in Ids, Mode = "ibkr_live",
                        bracket[i] = "none", bracket'[i] = "working",
                        ~recon.failed
                 PROVE  /\ signal[i].sym \notin recon.positions
                        /\ signal[i].sym \in Positions =>
                             \E o \in recon.orders :
                                 signal[o[1]].sym = signal[i].sym
    OBVIOUS
  <2>2. Place /\ i = cur
    <3>1. Place \/ bracket' = bracket
                \/ \E k \in Ids : Fill(k) \/ Exit(k) \/ Drop(k)
      BY <1>1 DEF Next, vars, brokerVars, Restart, NewSignal, Reconcile,
         RiskEvaluate, PortfolioEvaluate, WatchdogGate, CheckKillSwitch,
         SubmitChecks, Acknowledge, LogIntent, Crash, ThrowKillSwitch,
         ReleaseKillSwitch
    <3>2. ~ \E k \in Ids : Fill(k) \/ Exit(k) \/ Drop(k)
      BY <1>1, <2>1 DEF IInv, Books, TypeOK, Fill, Exit, Drop, BrokerMoves
    <3>3. bracket \in [Ids -> BracketStates]
      BY <1>1 DEF IInv, Books, TypeOK
    <3> QED
      BY <2>1, <3>1, <3>2, <3>3 DEF Place
  <2>3. pc \in Passed
    BY <2>2 DEF Place, Passed
  <2>4. signal[i].sym \notin recon.positions
    BY <1>1, <2>1, <2>2, <2>3 DEF IInv, Snapshot
  <2>5. ASSUME signal[i].sym \in Positions
        PROVE  \E o \in recon.orders : signal[o[1]].sym = signal[i].sym
    <3>1. PICK k \in Ids : bracket[k] = "held" /\ signal[k].sym = signal[i].sym
      BY <2>5, HeldBracket
    <3>2. <<k, "tp">> \in recon.orders
      BY <1>1, <2>1, <2>3, <3>1 DEF IInv, Snapshot
    <3> QED
      BY <3>1, <3>2
  <2> QED
    BY <2>4, <2>5
<1>2. IInv /\ [Next]_vars => [Respected]_vars
  BY <1>1
<1> QED
  BY <1>2, Invariance, PTL DEF Spec, PositionRespected
-----------------------------------------------------------------------------
(* The order path implements its contract. *)

\* Only a signal that came in asks for something, and the one bracket that is
\* about to be booked has been placed.
Asked ==
    /\ \A i \in Ids : i > cur => signal[i] = NoSignal
    /\ pc \in InFlight => signal[cur] \in Signals
    /\ Flight # {} => bracket[cur] # "none"

\* Where the steps leave the loop, the rows and the brackets.
LEMMA LoopSteps ==
  ASSUME \/ Restart \/ Reconcile \/ RiskEvaluate \/ PortfolioEvaluate
         \/ WatchdogGate \/ CheckKillSwitch \/ SubmitChecks
         \/ ThrowKillSwitch \/ ReleaseKillSwitch
  PROVE  /\ UNCHANGED <<cur, signal, row, bracket>>
         /\ Flight' = Flight
         /\ pc' \in InFlight => pc \in InFlight
<1> USE DEF loopVars, brokerVars, historyVars, Flight, InFlight, Judging,
        Passed
<1>1. CASE Restart \/ Reconcile
  BY <1>1 DEF Restart, Reconcile
<1>2. CASE RiskEvaluate
  BY <1>2 DEF RiskEvaluate
<1>3. CASE PortfolioEvaluate
  BY <1>3 DEF PortfolioEvaluate
<1>4. CASE WatchdogGate \/ CheckKillSwitch \/ SubmitChecks
  BY <1>4 DEF WatchdogGate, CheckKillSwitch, SubmitChecks
<1>5. CASE ThrowKillSwitch \/ ReleaseKillSwitch
  BY <1>5 DEF ThrowKillSwitch, ReleaseKillSwitch
<1> QED
  BY <1>1, <1>2, <1>3, <1>4, <1>5

LEMMA AskedSteps == Books /\ Asked /\ [Next]_vars => Asked'
<1> SUFFICES ASSUME Books, Asked, [Next]_vars
             PROVE  Asked'
  OBVIOUS
<1> USE OrderPathAssumption
    DEF Books, TypeOK, Current, Asked, InFlight, Judging, Passed, Flight,
        loopVars, brokerVars, historyVars
<1>1. CASE \/ Restart \/ Reconcile \/ RiskEvaluate \/ PortfolioEvaluate
           \/ WatchdogGate \/ CheckKillSwitch \/ SubmitChecks
           \/ ThrowKillSwitch \/ ReleaseKillSwitch
  BY <1>1, LoopSteps
<1>2. CASE NewSignal
  <2>1. PICK s \in Signals : signal' = [signal EXCEPT ![cur + 1] = s]
    BY <1>2 DEF NewSignal
  <2>2. /\ cur' = cur + 1 /\ cur + 1 \in Ids
        /\ pc' \in {"reconcile", "risk"}
    BY <1>2 DEF NewSignal, Ids
  <2> QED
    BY <2>1, <2>2 DEF Ids
<1>3. CASE Place
  BY <1>3 DEF Place
<1>4. CASE Acknowledge
  BY <1>4 DEF Acknowledge
<1>5. CASE LogIntent \/ Crash
  BY <1>5 DEF LogIntent, Crash
<1>6. ASSUME NEW i \in Ids, Fill(i) \/ Exit(i) \/ Drop(i)
      PROVE  Asked'
  BY <1>6 DEF Fill, Exit, Drop, BrokerMoves
<1>7. CASE UNCHANGED vars
  BY <1>7 DEF vars
<1> QED
  BY <1>1, <1>2, <1>3, <1>4, <1>5, <1>6, <1>7 DEF Next

\* What the contract sees of a step follows from rows, brackets and flight.
LEMMA Seen ==
  /\ UNCHANGED row => Accepted' = Accepted
  /\ UNCHANGED bracket => Dropped' = Dropped
  /\ UNCHANGED <<row, bracket>> /\ Flight' = Flight => Lost' = Lost
BY DEF Accepted, Dropped, Lost

\* The signal in hand is not among the brackets placed, until it is placed.
LEMMA NotPlaced ==
  ASSUME Books, pc \in Judging \cup Passed
  PROVE  cur \in Ids /\ Flight = {} /\ cur \notin Ledger!Placed
<1>1. /\ cur \in Ids /\ row[cur] = "none" /\ bracket[cur] = "none"
      /\ Flight = {}
  BY DEF Books, Current, InFlight, Judging, Passed, Flight
<1> QED
  BY <1>1 DEF Ledger!Placed, Accepted, Lost

\* A failure that is no more than one.
LEMMA Failing ==
  ASSUME faults' \in {faults + 1, faults + 2},
         UNCHANGED <<signal, row, bracket>>, Flight' = Flight,
         \/ blind' = blind
         \/ \E i \in Ids \ Ledger!Placed : blind' = blind \cup {i}
  PROVE  Ledger!Next
BY Seen DEF Ledger!Next, Ledger!Fail

LEMMA LedgerRisk ==
  ASSUME Books, RiskEvaluate
  PROVE  [Ledger!Next]_(Ledger!vars)
<1>1. PICK ok1 \in RiskReads, ok2 \in BOOLEAN :
         /\ faults' = faults + Failures(ok1, ok2)
         /\ blind' = IF ok2 THEN blind ELSE blind \cup {cur}
  BY DEF RiskEvaluate
<1>2. cur \in Ids \ Ledger!Placed
  BY NotPlaced DEF RiskEvaluate, Judging
<1>3. UNCHANGED <<signal, row, bracket>> /\ Flight' = Flight
  BY LoopSteps
<1>4. ok1 \in BOOLEAN /\ faults \in Nat
  BY DEF RiskReads, Books, TypeOK
<1>5. CASE ok1 /\ ok2
  BY <1>1, <1>3, <1>4, <1>5, Seen DEF Failures, Ledger!vars
<1>6. CASE ~(ok1 /\ ok2)
  <2>1. faults' \in {faults + 1, faults + 2}
    BY <1>1, <1>4, <1>6 DEF Failures
  <2> QED
    BY <1>1, <1>2, <1>3, <2>1, Failing
<1> QED
  BY <1>5, <1>6

\* The contract counts as FiniteSets does.
LEMMA SameCardinality == \A S : Ledger!Cardinality(S) = Cardinality(S)
  BY DEF Ledger!Cardinality, Cardinality

\* The risk check's verdict still holds when the bracket is placed.
LEMMA LedgerPlace ==
  ASSUME IInv, Asked, Place
  PROVE  Ledger!Place(cur)
<1>1. cur \in Ids /\ Flight = {} /\ cur \notin Ledger!Placed
  BY NotPlaced DEF IInv, Place, Passed
<1>2. /\ Flight' = {cur} /\ UNCHANGED <<signal, row, blind, faults>>
      /\ bracket' = [bracket EXCEPT ![cur] = "working"]
      /\ bracket[cur] = "none"
  BY DEF Place, Flight, loopVars, IInv, Books, Current, Passed
<1>3. signal[cur] \in Signals
  BY DEF Place, Asked, InFlight, Passed
<1>4. Ledger!Admits(cur)
  <2>1. Cardinality(Accepted) < MaxOpen + Cardinality(blind)
    BY DEF IInv, Cap, Room, Cleared, Place, Passed
  <2>2. ASSUME ~AllowDuplicates, cur \notin blind,
               NEW j \in Accepted
        PROVE  signal[j] # signal[cur]
    <3>1. j \in Ids /\ row[j] = "accepted"
      BY DEF Accepted
    <3>2. ~(j > cur) /\ j # cur
      BY <3>1, <1>1 DEF IInv, Books, Unused, Current, Place, InFlight, Passed
    <3>3. j < cur
      BY <3>1, <3>2, <1>1 DEF Ids
    <3> QED
      BY <2>2, <3>1, <3>3 DEF IInv, Duplicates, Fresh, Place, Passed
  <2>3. \/ AllowDuplicates \/ cur \in blind
        \/ \A j \in Accepted : signal[j] # signal[cur]
    BY <2>2, Zenon
  <2> QED
    BY <2>1, <2>3, SameCardinality, Zenon DEF Ledger!Admits
<1>5. Accepted' = Accepted
  BY <1>2, Seen
<1>6. Lost' = Lost
  <2>1. bracket \in [Ids -> BracketStates]
    BY DEF IInv, Books, TypeOK
  <2> QED
    BY <1>1, <1>2, <1>5, <2>1 DEF Lost
<1>7. Dropped' = Dropped
  BY <1>1, <1>2 DEF Dropped, IInv, Books, TypeOK
<1> QED
  BY <1>1, <1>2, <1>3, <1>4, <1>5, <1>6, <1>7 DEF Ledger!Place

\* A bracket that leaves the flight without an accepted row is lost.
LEMMA LedgerGiveUp ==
  ASSUME Books, Asked, Flight = {cur}, Flight' = {},
         UNCHANGED <<signal, row, bracket, blind>>,
         faults' = faults + 1 \/ (bracket[cur] = "void" /\ faults' = faults)
  PROVE  Ledger!GiveUp
<1>1. cur \in Ids /\ bracket[cur] # "none" /\ cur \notin Accepted
  BY DEF Asked, Books, Current, InFlight, Flight, Accepted
<1>2. Accepted' = Accepted /\ Dropped' = Dropped
  BY Seen
<1>3. Lost' = Lost \cup Flight
  BY <1>1, <1>2 DEF Lost
<1>4. bracket[cur] = "void" => Flight \subseteq Dropped
  BY <1>1 DEF Dropped
<1> QED
  BY <1>2, <1>3, <1>4 DEF Ledger!GiveUp

LEMMA LedgerAcknowledge ==
  ASSUME Books, Asked, Acknowledge
  PROVE  [Ledger!Next]_(Ledger!vars)
<1>1. /\ Flight = {cur} /\ cur' = cur
      /\ UNCHANGED <<signal, row, bracket, blind>>
  BY DEF Acknowledge, Flight, loopVars, brokerVars
<1>2. CASE status' = "accepted" /\ faults' = faults
  <2>1. Flight' = Flight
    BY <1>1, <1>2 DEF Acknowledge, Flight
  <2> QED
    BY <1>1, <1>2, <2>1, Seen DEF Ledger!vars
<1>3. CASE /\ status' = "failed"
           /\ faults' = IF bracket[cur] = "void" THEN faults ELSE faults + 1
  <2>1. Flight' = {}
    BY <1>3 DEF Acknowledge, Flight
  <2> QED
    BY <1>1, <1>3, <2>1, LedgerGiveUp DEF Ledger!Next
<1> QED
  BY <1>2, <1>3 DEF Acknowledge

LEMMA LedgerLog ==
  ASSUME Books, Asked, LogIntent
  PROVE  [Ledger!Next]_(Ledger!vars)
<1>1. /\ cur \in Ids /\ row[cur] = "none" /\ faults \in Nat
      /\ row \in [Ids -> Statuses \cup {"none"}]
      /\ UNCHANGED <<signal, bracket, blind>>
      /\ Flight' = {}
  BY DEF LogIntent, Books, TypeOK, Current, InFlight, loopVars, brokerVars,
     Flight
<1>2. CASE row' = row
  <2>1. faults' = faults + 1
    BY <1>2, <1>1 DEF LogIntent, Books, Current, TypeOK
  <2>2. CASE status = "accepted"
    <3>1. Flight = {cur}
      BY <2>2 DEF LogIntent, Flight
    <3> QED
      BY <1>1, <1>2, <2>1, <3>1, LedgerGiveUp DEF Ledger!Next
  <2>3. CASE status # "accepted"
    <3>1. Flight = {}
      BY <2>3 DEF LogIntent, Flight
    <3> QED
      BY <1>1, <1>2, <2>1, <3>1, Failing
  <2> QED
    BY <2>2, <2>3
<1>3. CASE row' = [row EXCEPT ![cur] = status] /\ faults' = faults
  <2>1. Dropped' = Dropped
    BY <1>1, Seen
  <2>2. CASE status = "accepted"
    <3>1. Flight = {cur}
      BY <2>2 DEF LogIntent, Flight
    <3>2. Accepted' = Accepted \cup {cur}
      BY <1>1, <1>3, <2>2 DEF Accepted
    <3>3. Lost' = Lost
      BY <1>1, <3>1, <3>2 DEF Lost
    <3>4. Ledger!Record
      BY <1>1, <1>3, <2>1, <3>1, <3>2, <3>3 DEF Ledger!Record
    <3> QED
      BY <3>4 DEF Ledger!Next
  <2>3. CASE status # "accepted"
    <3>1. Flight = {}
      BY <2>3 DEF LogIntent, Flight
    <3>2. Accepted' = Accepted
      BY <1>1, <1>3, <2>3 DEF Accepted
    <3>3. Lost' = Lost
      BY <1>1, <3>1, <3>2 DEF Lost
    <3> QED
      BY <1>1, <1>3, <2>1, <3>1, <3>2, <3>3 DEF Ledger!vars
  <2> QED
    BY <2>2, <2>3
<1> QED
  BY <1>2, <1>3 DEF LogIntent

LEMMA LedgerCrash ==
  ASSUME Books, Asked, Crash
  PROVE  Ledger!Next
<1>1. /\ faults' = faults + 1 /\ Flight' = {}
      /\ UNCHANGED <<signal, row, bracket, blind>>
  BY DEF Crash, Flight, loopVars, brokerVars
<1>2. CASE Flight = {}
  BY <1>1, <1>2, Failing
<1>3. CASE Flight = {cur}
  BY <1>1, <1>3, LedgerGiveUp DEF Ledger!Next
<1> QED
  BY <1>2, <1>3 DEF Flight

\* A new signal asks; nothing of it is at the broker or in the rows.
LEMMA LedgerAsk ==
  ASSUME Books, Asked, NewSignal
  PROVE  Ledger!Next
<1>1. /\ cur \in Nat /\ cur + 1 \in Ids
      /\ UNCHANGED <<row, bracket, blind, faults>>
      /\ Flight' = {} /\ Flight = {}
  BY OrderPathAssumption
  DEF NewSignal, Books, TypeOK, Ids, Flight, brokerVars, historyVars
<1>2. Ledger!Ask(cur + 1)
  <2>1. signal[cur + 1] = NoSignal
    BY <1>1 DEF Asked
  <2>2. \E s \in Signals : signal' = [signal EXCEPT ![cur + 1] = s]
    BY DEF NewSignal
  <2>3. UNCHANGED <<Flight, Accepted, Lost, Dropped, blind, faults>>
    BY <1>1, Seen
  <2> QED
    BY <2>1, <2>2, <2>3 DEF Ledger!Ask
<1> QED
  BY <1>1, <1>2 DEF Ledger!Next

LEMMA LedgerBroker ==
  ASSUME Books, NEW i \in Ids, Fill(i) \/ Exit(i) \/ Drop(i)
  PROVE  [Ledger!Next]_(Ledger!vars)
<1>1. PICK to \in {"held", "closed", "void"} :
         /\ bracket[i] \in {"working", "held"}
         /\ bracket' = [bracket EXCEPT ![i] = to]
         /\ Drop(i) <=> to = "void"
  BY DEF Fill, Exit, Drop, BrokerMoves, Books, TypeOK
<1>2. /\ UNCHANGED <<signal, row, blind, faults>> /\ Flight' = Flight
      /\ bracket \in [Ids -> BracketStates]
  BY DEF Fill, Exit, Drop, BrokerMoves, loopVars, historyVars, Flight,
     Books, TypeOK
<1>3. Accepted' = Accepted /\ Lost' = Lost
  BY <1>1, <1>2, Seen DEF Lost
<1>4. CASE to = "void"
  <2>1. Dropped' = Dropped \cup {i}
    BY <1>1, <1>2, <1>4 DEF Dropped
  <2>2. i \in Ledger!Placed
    BY <1>1 DEF Ledger!Placed, Lost
  <2>3. Ledger!Drop(i)
    BY <1>2, <1>3, <2>1, <2>2 DEF Ledger!Drop
  <2> QED
    BY <2>3 DEF Ledger!Next
<1>5. CASE to # "void"
  <2>1. Dropped' = Dropped
    BY <1>1, <1>2, <1>5 DEF Dropped
  <2> QED
    BY <1>2, <1>3, <2>1 DEF Ledger!vars
<1> QED
  BY <1>4, <1>5

\* The steps that the contract does not see, but for a failed read.
LEMMA LedgerOthers ==
  ASSUME Books,
         \/ Restart \/ Reconcile \/ PortfolioEvaluate \/ WatchdogGate
         \/ CheckKillSwitch \/ SubmitChecks \/ ThrowKillSwitch
         \/ ReleaseKillSwitch
  PROVE  [Ledger!Next]_(Ledger!vars)
<1>1. UNCHANGED <<signal, row, bracket>> /\ Flight' = Flight
  BY LoopSteps
<1>2. blind' = blind /\ (faults' = faults \/ faults' = faults + 1)
  <2>1. CASE PortfolioEvaluate
    <3>1. PICK ok \in BOOLEAN : faults' = faults + Failures(ok, TRUE)
      BY <2>1 DEF PortfolioEvaluate
    <3> QED
      BY <2>1, <3>1 DEF PortfolioEvaluate, Failures, Books, TypeOK
  <2>2. CASE ~PortfolioEvaluate
    BY <2>2 DEF Restart, Reconcile, WatchdogGate, CheckKillSwitch,
       SubmitChecks, ThrowKillSwitch, ReleaseKillSwitch, historyVars
  <2> QED
    BY <2>1, <2>2
<1>3. CASE faults' = faults
  BY <1>1, <1>2, <1>3, Seen DEF Ledger!vars
<1>4. CASE faults' = faults + 1
  BY <1>1, <1>2, <1>4, Failing
<1> QED
  BY <1>2, <1>3, <1>4

\* Whatever fails or crashes between the risk check, the placing of the
\* bracket and its row, main.py places brackets and books them as the
\* contract of OrderLedger allows.
THEOREM PathImplementsOrderLedger == Spec => ImplementsOrderLedger
<1>1. Init => Ledger!Init /\ Asked
  BY DEF Init, Ledger!Init, Asked, Flight, Accepted, Lost, Dropped, InFlight,
     Judging, Passed
<1>2. IInv /\ Asked /\ [Next]_vars => [Ledger!Next]_(Ledger!vars)
  <2> SUFFICES ASSUME IInv, Asked, [Next]_vars
               PROVE  [Ledger!Next]_(Ledger!vars)
    OBVIOUS
  <2>1. Books
    BY DEF IInv
  <2>2. CASE Place
    <3>1. cur \in Ids
      BY <2>1, <2>2, NotPlaced DEF Place, Passed
    <3> QED
      BY <2>2, <3>1, LedgerPlace DEF Ledger!Next
  <2>3. CASE UNCHANGED vars
    <3>1. UNCHANGED <<signal, row, bracket, blind, faults>>
          /\ Flight' = Flight
      BY <2>3 DEF vars, Flight
    <3> QED
      BY <3>1, Seen DEF Ledger!vars
  <2> QED
    BY <2>1, <2>2, <2>3, LedgerRisk, LedgerAcknowledge, LedgerLog,
       LedgerCrash, LedgerAsk, LedgerBroker, LedgerOthers
    DEF Next
<1>3. IInv /\ Asked /\ [Next]_vars => Asked'
  BY AskedSteps DEF IInv
<1> QED
  BY <1>1, <1>2, <1>3, Invariance, PTL
  DEF Spec, ImplementsOrderLedger, Ledger!Spec
-----------------------------------------------------------------------------
(* What the contract is worth by itself. *)

Booked == Accepted \cup Flight

\* The book is within its limit, but for one for each signal judged unseen.
Bounded == Cardinality(Booked) <= MaxOpen + Cardinality(blind)

\* Of two twins in the book one was judged unseen.
TwinFree ==
    ~AllowDuplicates =>
        \A i, j \in Booked :
            i # j /\ signal[i] = signal[j] => i \in blind \/ j \in blind

\* What is booked has been asked for, and one bracket at most is in flight.
Entries ==
    /\ signal \in [Ids -> Signals \cup {NoSignal}]
    /\ Booked \subseteq Ids /\ blind \subseteq Ids
    /\ \A i \in Booked : signal[i] \in Signals

Kept == Entries /\ Bounded /\ TwinFree

LEMMA NoSignalIsNone == NoSignal \notin Signals
  BY DEF NoSignal, Signals, Directions

\* All sets of the contract are subsets of Ids.
LEMMA Counting ==
  ASSUME NEW S \in SUBSET Ids
  PROVE  /\ IsFiniteSet(S) /\ Cardinality(S) \in Nat
         /\ \A T \in SUBSET S : Cardinality(T) <= Cardinality(S)
         /\ \A x \in Ids \ S : Cardinality(S \cup {x}) = Cardinality(S) + 1
<1>1. IsFiniteSet(S)
  <2>1. IsFiniteSet(Ids)
    BY FS_Interval, OrderPathAssumption DEF Ids
  <2> QED
    BY <2>1, FS_Subset
<1> QED
  BY <1>1, FS_Subset, FS_CardinalityType, FS_AddElement

LEMMA KeptPlace ==
  ASSUME Kept, NEW i \in Ids, Ledger!Place(i)
  PROVE  Kept'
<1>1. /\ Flight = {} /\ Flight' = {i} /\ i \notin Accepted
      /\ UNCHANGED <<Accepted, signal, blind>>
      /\ signal[i] \in Signals
  BY DEF Ledger!Place, Ledger!Placed
<1>2. Booked = Accepted /\ Booked' = Accepted \cup {i}
  BY <1>1 DEF Booked
<1>3. /\ Cardinality(Accepted) < MaxOpen + Cardinality(blind)
      /\ \/ AllowDuplicates
         \/ i \in blind
         \/ \A j \in Accepted : signal[j] # signal[i]
  BY SameCardinality, Zenon DEF Ledger!Place, Ledger!Admits
<1>4. Entries'
  BY <1>1, <1>2 DEF Kept, Entries
<1>5. Bounded'
  <2>1. /\ Cardinality(Accepted \cup {i}) = Cardinality(Accepted) + 1
        /\ Cardinality(Accepted) \in Nat /\ Cardinality(blind) \in Nat
        /\ MaxOpen \in Nat
    BY <1>1, <1>2, Counting, OrderPathAssumption DEF Kept, Entries
  <2>2. Cardinality(Booked)' = Cardinality(Accepted \cup {i})
        /\ Cardinality(blind)' = Cardinality(blind)
    BY <1>1, <1>2
  <2> QED
    BY <1>3, <2>1, <2>2 DEF Bounded
<1>6. TwinFree'
  BY <1>1, <1>2, <1>3 DEF Kept, TwinFree
<1> QED
  BY <1>4, <1>5, <1>6 DEF Kept

LEMMA KeptOthers ==
  ASSUME Kept, Booked' \subseteq Booked, blind \subseteq blind',
         blind' \subseteq Ids, signal' = signal
  PROVE  Kept'
<1>1. Entries'
  BY DEF Kept, Entries
<1>2. TwinFree'
  BY DEF Kept, TwinFree
<1>3. Bounded'
  <2>1. /\ Cardinality(Booked') <= Cardinality(Booked)
        /\ Cardinality(blind) <= Cardinality(blind')
        /\ Cardinality(Booked) \in Nat /\ Cardinality(Booked') \in Nat
        /\ Cardinality(blind) \in Nat /\ Cardinality(blind') \in Nat
        /\ MaxOpen \in Nat
    BY <1>1, Counting, OrderPathAssumption DEF Kept, Entries
  <2>2. Cardinality(Booked) <= MaxOpen + Cardinality(blind)
    BY DEF Kept, Bounded
  <2>3. Cardinality(Booked') <= MaxOpen + Cardinality(blind')
    BY <2>1, <2>2
  <2> QED
    BY <2>3 DEF Bounded
<1> QED
  BY <1>1, <1>2, <1>3 DEF Kept

LEMMA KeptSteps == Kept /\ [Ledger!Next]_(Ledger!vars) => Kept'
<1> SUFFICES ASSUME Kept, [Ledger!Next]_(Ledger!vars)
             PROVE  Kept'
  OBVIOUS
<1>1. ASSUME NEW i \in Ids, Ledger!Ask(i)
      PROVE  Kept'
  <2>1. /\ signal[i] = NoSignal
        /\ \E s \in Signals : signal' = [signal EXCEPT ![i] = s]
        /\ Flight' = Flight /\ Accepted' = Accepted /\ blind' = blind
    BY <1>1 DEF Ledger!Ask
  <2>2. i \notin Booked /\ Booked' = Booked
    BY <2>1, NoSignalIsNone DEF Kept, Entries, Booked
  <2>3. /\ signal' \in [Ids -> Signals \cup {NoSignal}]
        /\ \A j \in Booked : signal'[j] = signal[j]
    BY <2>1, <2>2 DEF Kept, Entries
  <2>4. Entries' /\ TwinFree'
    BY <2>1, <2>2, <2>3 DEF Kept, Entries, TwinFree
  <2>5. Bounded'
    BY <2>1, <2>2 DEF Kept, Bounded
  <2> QED
    BY <2>4, <2>5 DEF Kept
<1>2. CASE Ledger!Record
  BY <1>2, KeptOthers DEF Ledger!Record, Booked, Kept, Entries
<1>3. CASE Ledger!GiveUp
  BY <1>3, KeptOthers DEF Ledger!GiveUp, Booked, Kept, Entries
<1>4. CASE Ledger!Fail
  BY <1>4, KeptOthers DEF Ledger!Fail, Booked, Kept, Entries
<1>5. CASE \/ \E i \in Ids : Ledger!Drop(i)
           \/ UNCHANGED Ledger!vars
  BY <1>5, KeptOthers DEF Ledger!Drop, Ledger!vars, Booked, Kept, Entries
<1> QED
  BY <1>1, <1>2, <1>3, <1>4, <1>5, KeptPlace DEF Ledger!Next

\* Whatever implements OrderLedger keeps the brackets in flight and on the
\* book together within RISK_MAX_OPEN_POSITIONS, and no two twins among them,
\* but for the signals the risk check judged on a failed read
\* (risk.py:208-227).
THEOREM ContractKeepsBook ==
    ImplementsOrderLedger => [](Bounded /\ TwinFree)
<1>1. Ledger!Init => Kept
  <2> SUFFICES ASSUME Ledger!Init
               PROVE  Kept
    OBVIOUS
  <2>1. /\ Booked = {} /\ blind = {}
        /\ signal \in [Ids -> Signals \cup {NoSignal}]
    BY DEF Ledger!Init, Booked
  <2> QED
    BY <2>1, FS_EmptySet, OrderPathAssumption
    DEF Kept, Entries, Bounded, TwinFree
<1>2. Kept => Bounded /\ TwinFree
  BY DEF Kept
<1> QED
  BY <1>1, <1>2, KeptSteps, PTL DEF ImplementsOrderLedger, Ledger!Spec

\* Hence the order path does: not only the accepted rows, but the bracket
\* whose row is still to be written counts within the limit, and a twin of it.
THEOREM PathKeepsBook == Spec => [](Bounded /\ TwinFree)
  BY PathImplementsOrderLedger, ContractKeepsBook, PTL
=============================================================================
