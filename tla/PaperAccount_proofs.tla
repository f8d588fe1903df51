------------------------ MODULE PaperAccount_proofs ------------------------
(***************************************************************************)
(* The paper account keeps its contract for every starting equity, fee,    *)
(* slippage, risk limit and set of positions, its money is conserved, and  *)
(* its file of events replays to a balance after any crash; and the        *)
(* historical store, checked beside it, keeps its own for any number of    *)
(* refresh processes, any lease, cap, lookback and overlap.                *)
(***************************************************************************)
EXTENDS PaperAccount, HistoricalStore, FiniteSetTheorems,
        WellFoundedInduction, TLAPS

LEMMA LeastOf == ASSUME NEW a \in Int, NEW b \in Int, NEW c \in Int
                 PROVE  Least({a, b, c}) \in Int
<1>1. \E x \in {a, b, c} : \A y \in {a, b, c} : x <= y
  <2>1. CASE a <= b /\ a <= c  BY <2>1
  <2>2. CASE b <= a /\ b <= c  BY <2>2
  <2>3. CASE c <= a /\ c <= b  BY <2>3
  <2> QED  BY <2>1, <2>2, <2>3
<1> QED  BY <1>1 DEF Least

LEMMA ProductNat == ASSUME NEW a \in Nat, NEW b \in Nat
                    PROVE  a * b \in Nat
  OBVIOUS

LEMMA Share == ASSUME NEW a \in Nat, NEW p \in 0..100
               PROVE  (a * p) \div 100 \in Nat
<1>1. a * p \in Nat  BY ProductNat
<1> QED  BY <1>1

\* What a fill that can be opened is made of.
LEMMA FillType == ASSUME TypeOK, NEW price \in Prices, NEW stop \in Stops,
                         Fill(price, stop).quantity > 0
                  PROVE  /\ Fill(price, stop)
                              \in [entry : Nat, quantity : Nat, fee : Nat]
                         /\ Fill(price, stop).entry > 0
<1> DEFINE q == Quantity(price, stop)
           n == q * (price + Slippage)
<1>1. price \in Nat \ {0} /\ stop \in Nat \ {0} /\ Slippage \in Nat
  BY PaperAccountAssumption
<1>2. q \in Int
  <2>1. 100 * stop \in Nat \ {0} /\ 100 * price \in Nat \ {0}  BY <1>1
  <2>2. cash * RiskPct \in Int /\ cash * CapPct \in Int
    BY PaperAccountAssumption DEF TypeOK
  <2>3. (cash * RiskPct) \div (100 * stop) \in Int  BY <2>1, <2>2
  <2>4. (cash * CapPct) \div (100 * price) \in Int  BY <2>1, <2>2
  <2>5. cash \div price \in Int  BY <1>1 DEF TypeOK
  <2> QED  BY <2>3, <2>4, <2>5, LeastOf DEF Quantity
<1>3. q > 0  BY DEF Fill
<1>4. price + Slippage \in Nat /\ price + Slippage > 0  BY <1>1
<1>5. n \in Nat /\ n > 0  BY <1>2, <1>3, <1>4
<1>6. (n * FeePct) \div 100 \in Nat  BY <1>5, Share, PaperAccountAssumption
<1>7. Fill(price, stop)
        = [entry |-> n, quantity |-> q, fee |-> (n * FeePct) \div 100]
  BY DEF Fill
<1> QED  BY <1>2, <1>3, <1>5, <1>6, <1>7

LEMMA ProceedsType == ASSUME TypeOK, NEW i \in Ids, NEW price \in Prices
                      PROVE  Proceeds(i, price) \in Int
<1>1. position[i].quantity \in Nat  BY DEF TypeOK
<1>2. position[i].quantity * price \in Nat
  BY <1>1, ProductNat, PaperAccountAssumption
<1>3. ((position[i].quantity * price) * FeePct) \div 100 \in Nat
  BY <1>2, Share, PaperAccountAssumption
<1> QED  BY <1>2, <1>3 DEF Proceeds

\* An open position has been paid for and is not among the settled ones.
Apart ==
    /\ open \cap closed = {}
    /\ \A i \in open : Paid(position[i]) > 0

IInv == TypeOK /\ Apart

LEMMA FileTail ==
    ASSUME NEW file, file.tail \in BOOLEAN, NEW records, NEW line
    PROVE  /\ PutLines(file, records).tail \in BOOLEAN
           /\ PutTail(file, line).tail \in BOOLEAN
  BY DEF PutLines, PutTail

LEMMA Initially == Init => IInv
  BY PaperAccountAssumption
  DEF Init, IInv, TypeOK, Apart, NoPosition, EmptyFile

\* A step of the paper loop that opens a position pays for it.
LEMMA Opens ==
    ASSUME IInv, NEW i \in Ids, NEW price \in Prices, NEW stop \in Stops,
           OpenPosition(i, price, stop), silent' \subseteq Ids
    PROVE  IInv' /\ Ledger!Pay(i)
<1> DEFINE p == Fill(price, stop)
<1>1. /\ p \in [entry : Nat, quantity : Nat, fee : Nat] /\ p.entry > 0
      /\ cash >= Paid(p) /\ i \notin open /\ i \notin closed
  BY FillType DEF OpenPosition, CanOpen, IInv
<1>2. Paid(p) \in Nat /\ Paid(p) > 0  BY <1>1 DEF Paid
<1> HIDE DEF p
<1>3. /\ cash' = cash - Paid(p) /\ open' = open \cup {i}
      /\ position' = [position EXCEPT ![i] = p] /\ asOf' = clock
      /\ UNCHANGED <<clock, up, realized, closed, eventFile, spent>>
  BY DEF OpenPosition, p
<1>4. cash' \in 0..(cash - 1)
  BY <1>1, <1>2, <1>3 DEF IInv, TypeOK
<1>5. TypeOK'
  BY <1>1, <1>3, <1>4 DEF IInv, TypeOK
<1>6. \A j \in Ids : position'[j] = IF j = i THEN p ELSE position[j]
  BY <1>3 DEF IInv, TypeOK
<1>7. Apart'
  <2>1. open' \cap closed' = {}  BY <1>1, <1>3 DEF IInv, Apart
  <2>2. ASSUME NEW j \in open' PROVE Paid(position[j])' > 0
    <3>1. CASE j = i  BY <3>1, <1>2, <1>6
    <3>2. CASE j # i
      <4>1. j \in open /\ j \in Ids  BY <3>2, <1>3 DEF IInv, TypeOK
      <4> QED  BY <4>1, <3>2, <1>6 DEF IInv, Apart, Paid
    <3> QED  BY <3>1, <3>2
  <2> QED  BY <2>1, <2>2 DEF Apart
<1>8. Ledger!Pay(i)
  <2> DEFINE stage == [j \in Ids |-> IF j \in closed THEN "settled"
                               ELSE IF j \in open THEN "open" ELSE "new"]
             stake == [j \in Ids |-> IF j \in open THEN Paid(position[j])
                                     ELSE 0]
  <2>1. stage[i] = "new"  BY <1>1
  <2>2. stage' = [stage EXCEPT ![i] = "open"]
    BY <1>1, <1>3
  <2>3. cash - cash' = Paid(p)  BY <1>2, <1>3 DEF IInv, TypeOK
  <2>4. stake' = [stake EXCEPT ![i] = cash - cash']
    <3>1. \A j \in Ids : stake'[j] = IF j = i THEN Paid(p) ELSE stake[j]
      BY <1>3, <1>6
    <3> QED  BY <3>1, <2>3
  <2> QED  BY <2>1, <2>2, <2>4, <1>3, <1>4 DEF Ledger!Pay
<1> QED  BY <1>5, <1>7, <1>8 DEF IInv

\* A close settles the position.
LEMMA Closes ==
    ASSUME IInv, NEW i \in Ids, NEW price \in Prices, ClosePosition(i, price)
    PROVE  IInv' /\ Ledger!Settle(i)
<1> DEFINE back == Proceeds(i, price)
<1>1. back \in Int  BY ProceedsType DEF IInv
<1>2. /\ i \in open /\ i \notin closed
      /\ Paid(position[i]) \in Nat
  BY DEF ClosePosition, IInv, TypeOK, Paid
<1>3. NetRealized(i, price) = back - Paid(position[i])  BY DEF NetRealized
<1> HIDE DEF back
<1>4. /\ cash + back >= 0 /\ cash' = cash + back
      /\ realized' = realized + (back - Paid(position[i]))
      /\ open' = open \ {i} /\ closed' = closed \cup {i} /\ asOf' = clock
      /\ UNCHANGED <<clock, up, position, eventFile, silent, spent>>
  BY <1>3 DEF ClosePosition, back, files
<1>5. cash' \in Nat /\ realized' \in Int
  BY <1>1, <1>2, <1>4 DEF IInv, TypeOK
<1>6. TypeOK'  BY <1>4, <1>5 DEF IInv, TypeOK
<1>7. Apart'  BY <1>4 DEF IInv, Apart
<1>8. Ledger!Settle(i)
  <2> DEFINE stage == [j \in Ids |-> IF j \in closed THEN "settled"
                               ELSE IF j \in open THEN "open" ELSE "new"]
             stake == [j \in Ids |-> IF j \in open THEN Paid(position[j])
                                     ELSE 0]
  <2>1. stage[i] = "open"  BY <1>2
  <2>2. stage' = [stage EXCEPT ![i] = "settled"]  BY <1>2, <1>4
  <2>3. stake' = [stake EXCEPT ![i] = 0]  BY <1>2, <1>4
  <2>4. stake[i] = Paid(position[i])  BY <1>2
  <2>5. realized' = realized + (cash' - cash) - stake[i]
    BY <1>1, <1>2, <1>4, <2>4 DEF IInv, TypeOK
  <2> QED  BY <2>1, <2>2, <2>3, <2>5, <1>5 DEF Ledger!Settle
<1> QED  BY <1>6, <1>7, <1>8 DEF IInv

\* The steps that leave the account alone.
LEMMA Others ==
    ASSUME IInv,
           \/ Tick \/ MarkAccount \/ AppendEvents \/ Crash \/ CrashInAppend
           \/ UNCHANGED vars
    PROVE  IInv' /\ UNCHANGED Ledger!vars
<1>1. /\ UNCHANGED account
      /\ clock' \in Nat /\ up' \in BOOLEAN
      /\ spent' \subseteq Ids /\ silent' \subseteq Ids
  <2>1. CASE Tick  BY <2>1 DEF Tick, IInv, TypeOK, files
  <2>2. CASE MarkAccount  BY <2>2 DEF MarkAccount, IInv, TypeOK, files
  <2>3. CASE AppendEvents  BY <2>3 DEF AppendEvents, IInv, TypeOK
  <2>4. CASE Crash  BY <2>4 DEF Crash, IInv, TypeOK, files
  <2>5. CASE CrashInAppend  BY <2>5 DEF CrashInAppend, IInv, TypeOK
  <2>6. CASE UNCHANGED vars  BY <2>6 DEF vars, account, IInv, TypeOK
  <2> QED  BY <2>1, <2>2, <2>3, <2>4, <2>5, <2>6
<1>2. eventFile'.tail \in BOOLEAN
  <2>1. CASE UNCHANGED eventFile  BY <2>1 DEF IInv, TypeOK
  <2>2. CASE AppendEvents  BY <2>2, FileTail DEF AppendEvents, IInv, TypeOK
  <2>3. CASE CrashInAppend
    <3>1. PICK n \in 0..(Len(Fresh(eventFile, emitted)) - 1) :
            LET new == Fresh(eventFile, emitted)
                full == PutLines(eventFile, SubSeq(new, 1, n))
            IN  eventFile' \in {full, PutTail(full, Corrupt),
                                PutTail(full, new[n + 1])}
      BY <2>3 DEF CrashInAppend
    <3> DEFINE full == PutLines(eventFile,
                                SubSeq(Fresh(eventFile, emitted), 1, n))
    <3>2. full.tail \in BOOLEAN  BY FileTail DEF IInv, TypeOK
    <3> HIDE DEF full
    <3>3. \A line : PutTail(full, line).tail \in BOOLEAN  BY <3>2, FileTail
    <3>4. \/ eventFile' = full
          \/ \E line : eventFile' = PutTail(full, line)
      BY <3>1 DEF full
    <3> QED  BY <3>2, <3>3, <3>4
  <2> QED  BY <2>1, <2>2, <2>3 DEF Tick, MarkAccount, Crash, vars, files
<1> QED  BY <1>1, <1>2 DEF IInv, TypeOK, Apart, Ledger!vars, account

LEMMA Restarts == ASSUME IInv, Restart PROVE IInv' /\ Ledger!Renew
<1>1. IInv'
  BY PaperAccountAssumption
  DEF Restart, IInv, TypeOK, Apart, NoPosition, files
<1>2. Ledger!Renew  BY DEF Restart, Ledger!Renew
<1> QED  BY <1>1, <1>2

LEMMA Steps == IInv /\ [Next]_vars => IInv' /\ [Ledger!Next]_(Ledger!vars)
<1> SUFFICES ASSUME IInv, [Next]_vars
             PROVE  IInv' /\ [Ledger!Next]_(Ledger!vars)
  OBVIOUS
<1>1. CASE RunPaperLoop \/ OpenDirectly
  <2>1. PICK i \in Ids, price \in Prices, stop \in Stops :
          OpenPosition(i, price, stop) /\ silent' \subseteq silent \cup {i}
    BY <1>1 DEF RunPaperLoop, OpenDirectly
  <2>2. silent' \subseteq Ids  BY <2>1 DEF IInv, TypeOK
  <2> QED  BY <2>1, <2>2, Opens DEF Ledger!Next
<1>2. CASE \E i \in Ids, price \in Prices : ClosePosition(i, price)
  BY <1>2, Closes DEF Ledger!Next
<1>3. CASE Restart  BY <1>3, Restarts DEF Ledger!Next
<1>4. CASE \/ Tick \/ MarkAccount \/ AppendEvents \/ Crash \/ CrashInAppend
           \/ UNCHANGED vars
  BY <1>4, Others
<1> QED  BY <1>1, <1>2, <1>3, <1>4 DEF Next

\* Types hold throughout; in particular cash is never negative, whatever
\* price a position is closed at and however large the fees are
\* (account.py:4-18).
THEOREM TypeInvariant == Spec => []TypeOK
<1>1. IInv => TypeOK  BY DEF IInv
<1> QED  BY <1>1, Initially, Steps, PTL DEF Spec

\* Every behaviour of the account, across crashes and restarts, is one the
\* contract of PaperLedger allows: positions are paid once and settled once,
\* and the profit is what came back less what was paid (account.py:4-18).
THEOREM AccountImplementsLedger == Spec => ImplementsLedger
<1>1. Init => Ledger!Init
  BY DEF Init, Ledger!Init
<1> QED  BY <1>1, Initially, Steps, PTL DEF Spec, ImplementsLedger, Ledger!Spec

(***************************************************************************)
(* Sums over finite sets. Induction is on the subsets of a finite set,     *)
(* with the set Good of those a statement holds of.                        *)
(***************************************************************************)

\* Strong induction on the subsets of a finite set.
LEMMA SubsetInduction ==
    ASSUME NEW S, IsFiniteSet(S), NEW Good,
           \A T \in SUBSET S :
             (\A U \in SUBSET T : U # T => U \in Good) => T \in Good
    PROVE  SUBSET S \subseteq Good
<1> DEFINE Bad == (SUBSET S) \ Good
<1>1. SUFFICES ASSUME Bad # {} PROVE FALSE
  OBVIOUS
<1>2. Bad \subseteq FiniteSubsetsOf(S)
  BY FS_FiniteSubsetsOfFinite
<1>3. IsWellFoundedOn(StrictSubsetOrdering(S), FiniteSubsetsOf(S))
  BY FS_StrictSubsetOrderingWellFounded
<1>4. \E T \in Bad : \A U \in Bad : ~(<<U, T>> \in StrictSubsetOrdering(S))
  <2> HIDE DEF Bad
  <2> QED  BY <1>1, <1>2, <1>3, WFMin
<1>5. PICK T \in Bad : \A U \in Bad : ~(<<U, T>> \in StrictSubsetOrdering(S))
  BY <1>4
<1>6. \A U \in SUBSET T : U # T => U \in Good
  BY <1>5 DEF StrictSubsetOrdering
<1> QED  BY <1>5, <1>6



\* Induction on the numbers up to N.
LEMMA UpTo ==
    ASSUME NEW N \in Nat, NEW Good, 0 \in Good,
           \A n \in 1..N : n - 1 \in Good => n \in Good
    PROVE  0..N \subseteq Good
<1> DEFINE Below == {T \in SUBSET (0..N) :
                       \A n \in 0..N : T = 0..n => n \in Good}
<1>1. ASSUME NEW T \in SUBSET (0..N),
             \A U \in SUBSET T : U # T => U \in Below
      PROVE  T \in Below
  <2> SUFFICES ASSUME NEW n \in 0..N, T = 0..n PROVE n \in Good
    OBVIOUS
  <2>1. CASE n = 0  BY <2>1
  <2>2. CASE n # 0
    <3>1. n - 1 \in 0..N /\ n \in 1..N  BY <2>2
    <3>2. 0..(n - 1) \in SUBSET T /\ n \in T /\ n \notin 0..(n - 1)
      OBVIOUS
    <3>3. 0..(n - 1) \in Below  BY <1>1, <3>2
    <3> QED  BY <3>1, <3>3
  <2> QED  BY <2>1, <2>2
<1>2. IsFiniteSet(0..N)  BY FS_Interval
<1>3. SUBSET (0..N) \subseteq Below
  <2> DEFINE S == 0..N
  <2>1. IsFiniteSet(S)  BY <1>2
  <2>2. \A T \in SUBSET S :
          (\A U \in SUBSET T : U # T => U \in Below) => T \in Below
    BY <1>1
  <2> HIDE DEF Below, S
  <2>3. SUBSET S \subseteq Below  BY <2>1, <2>2, SubsetInduction
  <2> QED  BY <2>3 DEF S
<1> QED  BY <1>3

\* The element by which the library's sum splits a set.
Taken(s) == CHOOSE x \in s : TRUE

LEMMA TakenIn == ASSUME NEW s, s # {} PROVE Taken(s) \in s
  BY DEF Taken

\* The function by which the library sums v over the subsets of S.
Summing(f, v, S) ==
    f = [s \in SUBSET S |-> IF s = {} THEN 0
                            ELSE v[Taken(s)] + f[s \ {Taken(s)}]]

\* The definition of the library, with a name for its local function.
LEMMA SumDef == ASSUME NEW v, NEW S
   PROVE SumFunctionOnSet(v,S) = (CHOOSE f : Summing(f,v,S))[S]
BY DEF SumFunctionOnSet, FoldFunctionOnSet, MapThenFoldSet, Summing, Taken

\* The recursion has one solution on every subset.
LEMMA SummingUnique ==
    ASSUME NEW v, NEW S, NEW T \in SUBSET S, IsFiniteSet(T),
           NEW f, Summing(f, v, S), NEW h, Summing(h, v, T)
    PROVE  \A s \in SUBSET T : f[s] = h[s]
<1> DEFINE Good == {s \in SUBSET T : f[s] = h[s]}
<1>2. ASSUME NEW s \in SUBSET T, \A u \in SUBSET s : u # s => u \in Good
      PROVE  s \in Good
  <2>1. CASE s = {}
    BY <2>1 DEF Summing
  <2>2. CASE s # {}
    <3>1. Taken(s) \in s  BY <2>2, TakenIn
    <3>2. s \ {Taken(s)} \in Good  BY <3>1, <1>2
    <3>3. /\ f[s] = v[Taken(s)] + f[s \ {Taken(s)}]
          /\ h[s] = v[Taken(s)] + h[s \ {Taken(s)}]
      BY <2>2 DEF Summing
    <3> QED  BY <3>2, <3>3
  <2> QED  BY <2>1, <2>2
<1>3. SUBSET T \subseteq Good
  <2> HIDE DEF Good
  <2> QED  BY <1>2, SubsetInduction
<1> QED  BY <1>3

\* The recursion has a solution, put together from those of the subsets.
LEMMA SummingExists ==
    ASSUME NEW v, NEW S, IsFiniteSet(S)
    PROVE  \E f : Summing(f, v, S)
<1> DEFINE Good == {T \in SUBSET S : \E f : Summing(f, v, T)}
           Value(T) == SumFunctionOnSet(v, T)
<1>1. ASSUME NEW T \in SUBSET S, \A U \in SUBSET T : U # T => U \in Good
      PROVE  T \in Good
  <2>1. \A U \in SUBSET T : U # T => \E f : Summing(f, v, U) /\ f[U] = Value(U)
    <3> SUFFICES ASSUME NEW U \in SUBSET T, U # T
                 PROVE \E f : Summing(f, v, U) /\ f[U] = Value(U)
      OBVIOUS
    <3>1. \E f : Summing(f, v, U)  BY <1>1
    <3>2. Summing(CHOOSE f : Summing(f, v, U), v, U)  BY <3>1
    <3> QED  BY <3>2, SumDef
  <2> DEFINE h == [s \in SUBSET T |->
                     IF s = {} THEN 0
                     ELSE v[Taken(s)] + Value(s \ {Taken(s)})]
  <2> HIDE DEF Value
  <2>2. ASSUME NEW u \in SUBSET T, u # T
        PROVE  h[u] = Value(u)
    <3>1. PICK f : Summing(f, v, u) /\ f[u] = Value(u)  BY <2>1, <2>2
    <3>2. CASE u = {}
      BY <3>1, <3>2 DEF Summing
    <3>3. CASE u # {}
      <4> DEFINE w == u \ {Taken(u)}
      <4>1. w \in SUBSET u /\ w \in SUBSET T /\ w # T
        BY <3>3, <2>2, TakenIn
      <4>2. PICK g : Summing(g, v, w) /\ g[w] = Value(w)  BY <2>1, <4>1
      <4>3. IsFiniteSet(w)  BY <4>1, FS_Subset
      <4>4. f[w] = g[w]
        <5> HIDE DEF w, h, Good
        <5>1. \A s \in SUBSET w : f[s] = g[s]
          BY <3>1, <4>1, <4>2, <4>3, SummingUnique
        <5> QED  BY <5>1
      <4>5. f[u] = v[Taken(u)] + f[w]  BY <3>1, <3>3 DEF Summing
      <4>6. h[u] = v[Taken(u)] + Value(w)  BY <3>3
      <4> QED  BY <3>1, <4>2, <4>4, <4>5, <4>6
    <3> QED  BY <3>2, <3>3
  <2>3. \A s \in SUBSET T : h[s] = IF s = {} THEN 0
                     ELSE v[Taken(s)] + h[s \ {Taken(s)}]
    <3> SUFFICES ASSUME NEW s \in SUBSET T, s # {}
                 PROVE  h[s] = v[Taken(s)] + h[s \ {Taken(s)}]
      OBVIOUS
    <3>1. s \ {Taken(s)} \in SUBSET T /\ s \ {Taken(s)} # T
      BY TakenIn
    <3>2. h[s] = v[Taken(s)] + Value(s \ {Taken(s)})  OBVIOUS
    <3> HIDE DEF h
    <3> QED  BY <3>1, <3>2, <2>2
  <2>4. h = [s \in SUBSET T |-> h[s]]  OBVIOUS
  <2> HIDE DEF h
  <2>5. Summing(h, v, T)  BY <2>3, <2>4 DEF Summing
  <2> QED  BY <2>5
<1>2. SUBSET S \subseteq Good
  <2> HIDE DEF Good
  <2> QED  BY <1>1, SubsetInduction
<1> QED  BY <1>2

\* The library's sum is what its recursion says.
LEMMA SumRecursion ==
    ASSUME NEW v, NEW S, IsFiniteSet(S)
    PROVE  /\ SumFunctionOnSet(v, {}) = 0
           /\ S # {} => SumFunctionOnSet(v, S) =
                v[Taken(S)] + SumFunctionOnSet(v, S \ {Taken(S)})
<1>1. ASSUME NEW T, IsFiniteSet(T)
      PROVE  \E f : Summing(f, v, T) /\ f[T] = SumFunctionOnSet(v, T)
  <2>1. \E f : Summing(f, v, T)  BY <1>1, SummingExists
  <2>2. Summing(CHOOSE f : Summing(f, v, T), v, T)  BY <2>1
  <2> QED  BY <2>2, SumDef
<1>2. SumFunctionOnSet(v, {}) = 0
  <2>1. IsFiniteSet({})  BY FS_EmptySet
  <2>2. PICK f : Summing(f, v, {}) /\ f[{}] = SumFunctionOnSet(v, {})
    BY <1>1, <2>1
  <2> QED  BY <2>2 DEF Summing
<1>3. ASSUME S # {}
      PROVE SumFunctionOnSet(v, S) =
                v[Taken(S)] + SumFunctionOnSet(v, S \ {Taken(S)})
  <2> DEFINE R == S \ {Taken(S)}
  <2>1. R \in SUBSET S /\ IsFiniteSet(R)  BY FS_Subset
  <2>2. PICK f : Summing(f, v, S) /\ f[S] = SumFunctionOnSet(v, S)
    BY <1>1
  <2>3. PICK g : Summing(g, v, R) /\ g[R] = SumFunctionOnSet(v, R)
    BY <1>1, <2>1
  <2>4. f[R] = g[R]  BY <2>1, <2>2, <2>3, SummingUnique
  <2>5. f[S] = v[Taken(S)] + f[R]  BY <1>3, <2>2 DEF Summing
  <2> QED  BY <2>2, <2>3, <2>4, <2>5
<1> QED  BY <1>2, <1>3

\* The order in which the library adds does not matter.
LEMMA SumOut ==
    ASSUME NEW S, IsFiniteSet(S), NEW v, \A x \in S : v[x] \in Int
    PROVE  /\ SumFunctionOnSet(v, S) \in Int
           /\ \A x \in S : SumFunctionOnSet(v, S)
                             = v[x] + SumFunctionOnSet(v, S \ {x})
<1> DEFINE Sum(T) == SumFunctionOnSet(v, T)
           Good == {T \in SUBSET S : 
                    /\ Sum(T) \in Int
                    /\ \A x \in T : Sum(T) = v[x] + Sum(T \ {x})}
<1>1. ASSUME NEW T \in SUBSET S, \A U \in SUBSET T : U # T => U \in Good
      PROVE  T \in Good
  <2>0. IsFiniteSet(T)  BY FS_Subset
  <2>1. CASE T = {}
    BY <2>0, <2>1, SumRecursion
  <2>2. CASE T # {}
    <3> DEFINE t == Taken(T)
               U == T \ {t}
    <3>1. t \in T  BY <2>2, TakenIn
    <3>2. U \in Good  BY <1>1, <3>1
    <3>3. Sum(T) = v[t] + Sum(U)  BY <2>0, <2>2, SumRecursion
    <3> HIDE DEF t
    <3>4. Sum(U) \in Int /\ v[t] \in Int  BY <3>1, <3>2
    <3>5. ASSUME NEW x \in T PROVE Sum(T) = v[x] + Sum(T \ {x})
      <4>1. CASE x = t  BY <3>3, <4>1
      <4>2. CASE x # t
        <5> DEFINE W == T \ {x}
                   V == U \ {x}
        <5>1. x \in U /\ t \in W /\ W \ {t} = V  BY <3>1, <4>2
        <5>2. W \in Good  BY <1>1
        <5>3. Sum(U) = v[x] + Sum(V)  BY <3>2, <5>1
        <5>4. Sum(W) = v[t] + Sum(V)  BY <5>2, <5>1
        <5>5. V \in Good  BY <1>1, <5>1
        <5>6. Sum(V) \in Int /\ v[x] \in Int  BY <5>5
        <5> HIDE DEF Sum, U, V, W
        <5> QED  BY <5>3, <5>4, <5>6, <3>3, <3>4 DEF W
      <4> QED  BY <4>1, <4>2
    <3>6. Sum(T) \in Int
      <4> HIDE DEF Sum
      <4> QED  BY <3>3, <3>4
    <3> QED  BY <3>5, <3>6
  <2> QED  BY <2>1, <2>2
<1>2. SUBSET S \subseteq Good
  <2> HIDE DEF Good
  <2> QED  BY <1>1, SubsetInduction
<1> QED  BY <1>2

\* A sum depends on nothing but the values summed.
LEMMA SumSame ==
    ASSUME NEW S, IsFiniteSet(S), NEW v, NEW w,
           \A x \in S : v[x] \in Int /\ w[x] = v[x]
    PROVE  SumFunctionOnSet(w, S) = SumFunctionOnSet(v, S)
<1> DEFINE Good == {T \in SUBSET S : 
                      SumFunctionOnSet(w, T) = SumFunctionOnSet(v, T)}
<1>1. ASSUME NEW T \in SUBSET S, \A U \in SUBSET T : U # T => U \in Good
      PROVE  T \in Good
  <2>0. IsFiniteSet(T)  BY FS_Subset
  <2>1. CASE T = {}
    BY <2>0, <2>1, SumRecursion
  <2>2. CASE T # {}
    <3>1. Taken(T) \in T  BY <2>2, TakenIn
    <3>2. T \ {Taken(T)} \in Good  BY <1>1, <3>1
    <3> QED  BY <2>0, <2>2, <3>1, <3>2, SumRecursion
  <2> QED  BY <2>1, <2>2
<1>2. SUBSET S \subseteq Good
  <2> HIDE DEF Good
  <2> QED  BY <1>1, SubsetInduction
<1> QED  BY <1>2

\* Entries of a book that cancel in pairs, but for those of O.
Mates(mate, S, d, g, O) ==
    \A x \in S :
        /\ d[x] \in Int /\ g[x] \in Int
        /\ mate[x] \in S /\ mate[mate[x]] = x
        /\ mate[x] = x => IF x \in O THEN g[x] = 0 ELSE d[x] = g[x]
        /\ mate[x] # x => /\ x \notin O
                          /\ d[x] + d[mate[x]] = g[x] + g[mate[x]]

\* The sums of a book whose entries cancel in pairs.
LEMMA SumBalance ==
    ASSUME NEW S, IsFiniteSet(S), NEW d, NEW g, NEW O \in SUBSET S, NEW mate,
           Mates(mate, S, d, g, O)
    PROVE  SumFunctionOnSet(d, S)
             = SumFunctionOnSet(g, S) + SumFunctionOnSet(d, O)
<1> DEFINE D(T) == SumFunctionOnSet(d, T)
           G(T) == SumFunctionOnSet(g, T)
           Paired(T) == \A x \in T : mate[x] \in T
           Good == {T \in SUBSET S :
                      Paired(T) => D(T) = G(T) + D(T \cap O)}
<1>1. ASSUME NEW T \in SUBSET S
      PROVE  /\ D(T) \in Int /\ G(T) \in Int
             /\ \A x \in T : /\ D(T) = d[x] + D(T \ {x})
                             /\ G(T) = g[x] + G(T \ {x})
  <2>1. IsFiniteSet(T)  BY FS_Subset
  <2>2. \A x \in T : d[x] \in Int /\ g[x] \in Int  BY DEF Mates
  <2> QED  BY <2>1, <2>2, SumOut
<1>2. ASSUME NEW T \in SUBSET S, \A U \in SUBSET T : U # T => U \in Good
      PROVE  T \in Good
  <2>1. CASE T = {}
    <3>1. D({}) = 0 /\ G({}) = 0  BY SumRecursion, FS_EmptySet
    <3>2. D(T) = 0 /\ G(T) = 0 /\ D(T \cap O) = 0  BY <3>1, <2>1
    <3> HIDE DEF D, G
    <3> QED  BY <3>2
  <2>2. ASSUME T # {}, Paired(T)
        PROVE  D(T) = G(T) + D(T \cap O)
    <3> HIDE DEF D, G
    <3>1. PICK x \in T : TRUE  BY <2>2
    <3>2. CASE mate[x] = x
      <4> DEFINE R == T \ {x}
      <4>1. Paired(R)  BY <2>2, <3>1, <3>2 DEF Mates
      <4>2. D(R) = G(R) + D(R \cap O)  BY <1>2, <3>1, <4>1
      <4>3. D(T) = d[x] + D(R) /\ G(T) = g[x] + G(R)  BY <1>1
      <4>4. /\ D(R) \in Int /\ G(R) \in Int /\ D(R \cap O) \in Int
            /\ d[x] \in Int /\ g[x] \in Int
        BY <1>1 DEF Mates
      <4>5. CASE x \in O
        <5>1. D(T \cap O) = d[x] + D((T \cap O) \ {x})  BY <1>1, <4>5
        <5>2. (T \cap O) \ {x} = R \cap O  OBVIOUS
        <5>3. g[x] = 0  BY <3>2, <4>5 DEF Mates
        <5>4. D(T \cap O) = d[x] + D(R \cap O)  BY <5>1, <5>2
        <5> HIDE DEF R, Good
        <5> QED  BY <4>2, <4>3, <4>4, <5>3, <5>4
      <4>6. CASE x \notin O
        <5>1. T \cap O = R \cap O  BY <4>6
        <5>2. d[x] = g[x]  BY <3>2, <4>6 DEF Mates
        <5>3. D(T \cap O) = D(R \cap O)  BY <5>1
        <5> HIDE DEF R, Good
        <5> QED  BY <4>2, <4>3, <4>4, <5>2, <5>3
      <4> QED  BY <4>5, <4>6
    <3>3. CASE mate[x] # x
      <4> DEFINE y == mate[x]
                 Q == T \ {x}
                 R == Q \ {y}
      <4>1. y \in Q /\ mate[y] = x /\ y \in S  BY <2>2, <3>3 DEF Mates
      <4>2. Paired(R)  BY <2>2, <3>1, <3>3 DEF Mates
      <4>3. D(R) = G(R) + D(R \cap O)  BY <1>2, <3>1, <4>2
      <4>4. /\ D(T) = d[x] + D(Q) /\ G(T) = g[x] + G(Q)
            /\ D(Q) = d[y] + D(R) /\ G(Q) = g[y] + G(R)
        BY <1>1, <4>1
      <4>5. /\ D(R) \in Int /\ G(R) \in Int /\ D(R \cap O) \in Int
            /\ d[x] \in Int /\ g[x] \in Int /\ d[y] \in Int /\ g[y] \in Int
        BY <1>1, <4>1 DEF Mates
      <4>6. T \cap O = R \cap O  BY <3>3, <4>1 DEF Mates
      <4>7. d[x] + d[y] = g[x] + g[y]  BY <3>3 DEF Mates
      <4>8. D(T \cap O) = D(R \cap O)  BY <4>6
      <4> HIDE DEF R, Q, y, Good
      <4> QED  BY <4>3, <4>4, <4>5, <4>8, <4>7
    <3> QED  BY <3>2, <3>3
  <2> QED  BY <2>1, <2>2
<1>3. S \in Good
  <2> HIDE DEF Good
  <2> QED  BY <1>2, SubsetInduction
<1>4. S \cap O = O  OBVIOUS
<1>5. Paired(S)  BY DEF Mates
<1> QED  BY <1>3, <1>4, <1>5

(***************************************************************************)
(* The money of the account.                                               *)
(***************************************************************************)

\* What is tied up in a position.
Tied == [i \in Ids |-> Paid(position[i])]

LEMMA MoneyIs ==
    MoneyConserved <=> cash + SumFunctionOnSet(Tied, open) = Start + realized
  BY DEF MoneyConserved, Tied

\* Positions are opened one by one, so the sum is over a finite set.
Sound == IsFiniteSet(open) /\ MoneyConserved

LEMMA TiedType == ASSUME TypeOK, IsFiniteSet(open)
                  PROVE  /\ \A i \in Ids : Tied[i] = Paid(position[i])
                         /\ \A i \in Ids : Tied[i] \in Int
                         /\ SumFunctionOnSet(Tied, open) \in Int
<1>1. \A i \in Ids : Tied[i] = Paid(position[i])  BY DEF Tied
<1>2. \A i \in Ids : Paid(position[i]) \in Int  BY DEF TypeOK, Paid
<1>3. open \subseteq Ids  BY DEF TypeOK
<1> QED  BY <1>1, <1>2, <1>3, SumOut

\* What leaves the cash at the open is tied up in the position, and what
\* was tied up is in the profit and the cash after the close.
LEMMA MoneyOpen ==
    ASSUME IInv, Sound, NEW i \in Ids, NEW price \in Prices,
           NEW stop \in Stops, OpenPosition(i, price, stop),
           silent' \subseteq Ids
    PROVE  Sound'
<1> DEFINE p == Fill(price, stop)
<1>1. IInv'  BY Opens
<1>2. /\ cash' = cash - Paid(p) /\ realized' = realized
      /\ open' = open \cup {i} /\ i \notin open
      /\ position' = [position EXCEPT ![i] = p]
  BY DEF OpenPosition, CanOpen
<1>3. IsFiniteSet(open') /\ open' \ {i} = open
  BY <1>2, FS_AddElement DEF Sound
<1>4. Tied'[i] = Paid(p) /\ \A j \in open : Tied'[j] = Tied[j]
  BY <1>2 DEF Tied, IInv, TypeOK
<1>5. \A j \in open' : Tied'[j] \in Int
  BY <1>1, <1>3, TiedType DEF IInv, TypeOK, Tied, Paid
<1>6. /\ \A j \in open : Tied[j] \in Int
      /\ SumFunctionOnSet(Tied, open) \in Int
  BY TiedType DEF IInv, Sound, TypeOK
<1>7. SumFunctionOnSet(Tied', open')
        = Tied'[i] + SumFunctionOnSet(Tied', open)
  BY <1>2, <1>3, <1>5, SumOut
<1>8. SumFunctionOnSet(Tied', open) = SumFunctionOnSet(Tied, open)
  BY <1>4, <1>6, SumSame DEF Sound
<1>9. cash + SumFunctionOnSet(Tied, open) = Start + realized
  BY MoneyIs DEF Sound
<1>10. /\ cash \in Int /\ realized \in Int /\ Start \in Int
       /\ Paid(p) \in Int
  <2>1. p \in [entry : Nat, quantity : Nat, fee : Nat]
    BY FillType DEF OpenPosition, CanOpen, IInv
  <2> HIDE DEF p
  <2> QED
    BY <2>1, PaperAccountAssumption DEF IInv, TypeOK, Paid
<1> HIDE DEF p
<1>11. SumFunctionOnSet(Tied', open') = Paid(p) + SumFunctionOnSet(Tied, open)
  BY <1>4, <1>7, <1>8
<1>12. cash' + SumFunctionOnSet(Tied', open') = Start + realized'
  <2> DEFINE s == SumFunctionOnSet(Tied, open)
             s2 == SumFunctionOnSet(Tied', open')
  <2>1. s \in Int  BY <1>6
  <2>2. s2 = Paid(p) + s  BY <1>11
  <2>3. cash + s = Start + realized  BY <1>9
  <2> HIDE DEF s, s2
  <2>4. cash' + s2 = Start + realized'  BY <2>1, <2>2, <2>3, <1>2, <1>10
  <2> QED  BY <2>4 DEF s2
<1>13. MoneyConserved'  BY <1>12 DEF MoneyConserved, Tied
<1> QED  BY <1>3, <1>13 DEF Sound

LEMMA MoneyClose ==
    ASSUME IInv, Sound, NEW i \in Ids, NEW price \in Prices,
           ClosePosition(i, price)
    PROVE  Sound'
<1> DEFINE back == Proceeds(i, price)
           s == SumFunctionOnSet(Tied, open)
           s2 == SumFunctionOnSet(Tied, open \ {i})
<1>1. /\ i \in open /\ position' = position /\ open' = open \ {i}
      /\ cash' = cash + back
      /\ realized' = realized + (back - Paid(position[i]))
  BY DEF ClosePosition, NetRealized
<1>2. /\ cash \in Int /\ realized \in Int /\ Start \in Int /\ back \in Int
      /\ Paid(position[i]) \in Int
  BY ProceedsType, PaperAccountAssumption DEF IInv, TypeOK, Paid
<1>3. /\ IsFiniteSet(open) /\ IsFiniteSet(open')
  BY <1>1, FS_RemoveElement DEF Sound
<1>4. /\ open \subseteq Ids /\ \A j \in Ids : Tied[j] \in Int
      /\ Tied[i] = Paid(position[i])
  BY <1>3, TiedType DEF IInv, TypeOK
<1>5. s = Tied[i] + s2  BY <1>1, <1>3, <1>4, SumOut
<1>6. s2 \in Int
  <2>1. open \ {i} \subseteq Ids  BY <1>4
  <2> QED  BY <2>1, <1>1, <1>3, <1>4, SumOut
<1>7. cash + s = Start + realized  BY MoneyIs DEF Sound
<1> HIDE DEF s, s2, back
<1>8. cash' + s2 = Start + realized'
  BY <1>1, <1>2, <1>4, <1>5, <1>6, <1>7
<1>9. MoneyConserved'
  BY <1>1, <1>8 DEF MoneyConserved, Tied, s2
<1> QED  BY <1>3, <1>9 DEF Sound

LEMMA MoneyRestart == ASSUME Restart PROVE Sound'
<1>1. open' = {} /\ cash' = Start /\ realized' = 0  BY DEF Restart
<1>2. IsFiniteSet(open')  BY <1>1, FS_EmptySet
<1>3. \A v : SumFunctionOnSet(v, {}) = 0  BY SumRecursion, FS_EmptySet
<1>4. MoneyConserved'
  BY <1>1, <1>3, PaperAccountAssumption DEF MoneyConserved
<1> QED  BY <1>2, <1>4 DEF Sound

LEMMA MoneyInit == Init => Sound
<1> SUFFICES ASSUME Init PROVE Sound
  OBVIOUS
<1>1. open = {} /\ cash = Start /\ realized = 0  BY DEF Init
<1>2. IsFiniteSet(open)  BY <1>1, FS_EmptySet
<1>3. \A v : SumFunctionOnSet(v, {}) = 0  BY SumRecursion, FS_EmptySet
<1>4. MoneyConserved
  BY <1>1, <1>3, PaperAccountAssumption DEF MoneyConserved
<1> QED  BY <1>2, <1>4 DEF Sound

LEMMA MoneySteps == IInv /\ Sound /\ [Next]_vars => Sound'
<1> SUFFICES ASSUME IInv, Sound, [Next]_vars PROVE Sound'
  OBVIOUS
<1>1. CASE RunPaperLoop \/ OpenDirectly
  <2>1. PICK i \in Ids, price \in Prices, stop \in Stops :
          OpenPosition(i, price, stop) /\ silent' \subseteq silent \cup {i}
    BY <1>1 DEF RunPaperLoop, OpenDirectly
  <2>2. silent' \subseteq Ids  BY <2>1 DEF IInv, TypeOK
  <2> QED  BY <2>1, <2>2, MoneyOpen
<1>2. CASE \E i \in Ids, price \in Prices : ClosePosition(i, price)
  BY <1>2, MoneyClose
<1>3. CASE Restart  BY <1>3, MoneyRestart
<1>4. CASE \/ Tick \/ MarkAccount \/ AppendEvents \/ Crash \/ CrashInAppend
           \/ UNCHANGED vars
  <2>1. UNCHANGED <<cash, realized, open, position>>
    BY <1>4 DEF Tick, MarkAccount, AppendEvents, Crash, CrashInAppend,
                vars, account
  <2> QED  BY <2>1 DEF Sound, MoneyConserved
<1> QED  BY <1>1, <1>2, <1>3, <1>4 DEF Next

\* Whatever fees, slippage and losses are met, no money is made or lost: the
\* cash and what open positions cost are the starting equity and the profit
\* booked (account.py:8-13).
THEOREM MoneyIsConserved == Spec => []MoneyConserved
<1>1. Sound => MoneyConserved  BY DEF Sound
<1> QED  BY <1>1, Initially, MoneyInit, Steps, MoneySteps, PTL DEF Spec

(***************************************************************************)
(* What append_events writes.                                              *)
(***************************************************************************)

LEMMA ToSetContains == ASSUME NEW R, NEW s \in Seq(R)
                     PROVE  \A x : x \in ToSet(s) <=> Contains(s, x)
  BY DEF ToSet, Contains

\* The loop of _append after n records.
Keeping(kept, known, records) ==
    kept = [n \in 0..Len(records) |->
              IF n = 0 THEN <<>>
              ELSE IF records[n] \in known \cup ToSet(kept[n - 1])
              THEN kept[n - 1]
              ELSE Append(kept[n - 1], records[n])]

\* The loop is well defined.
LEMMA KeepingExists ==
    ASSUME NEW known, NEW R, NEW records \in Seq(R)
    PROVE  \E kept : Keeping(kept, known, records)
<1> DEFINE N == Len(records)
           step(r, s) == IF r \in known \cup ToSet(s) THEN s ELSE Append(s, r)
           Part(k, n) ==
               k = [m \in 0..n |-> IF m = 0 THEN <<>>
                                   ELSE step(records[m], k[m - 1])]
           Good == {n \in 0..N : \E k : Part(k, n)}
<1>1. N \in Nat  OBVIOUS
<1>2. 0 \in Good
  <2> DEFINE k == [m \in 0..0 |-> <<>>]
  <2>1. k = [m \in 0..0 |-> IF m = 0 THEN <<>>
                            ELSE step(records[m], k[m - 1])]
    OBVIOUS
  <2> HIDE DEF k
  <2>2. Part(k, 0)  BY <2>1
  <2> HIDE DEF Part
  <2> QED  BY <2>2, <1>1
<1>3. ASSUME NEW n \in 1..N, n - 1 \in Good PROVE n \in Good
  <2> HIDE DEF step
  <2>1. PICK h : Part(h, n - 1)  BY <1>3
  <2> DEFINE k == [m \in 0..n |-> IF m = n THEN step(records[n], h[n - 1])
                                  ELSE h[m]]
  <2>2. \A m \in 0..n : k[m] = IF m = 0 THEN <<>>
                               ELSE step(records[m], k[m - 1])
    <3> SUFFICES ASSUME NEW m \in 0..n
                 PROVE  k[m] = IF m = 0 THEN <<>>
                               ELSE step(records[m], k[m - 1])
      OBVIOUS
    <3>1. CASE m = n
      <4>1. n # 0 /\ n - 1 \in 0..n /\ n - 1 # n  OBVIOUS
      <4>2. k[n - 1] = h[n - 1]  BY <4>1
      <4> QED  BY <3>1, <4>1, <4>2
    <3>2. CASE m # n
      <4>1. m \in 0..(n - 1) /\ k[m] = h[m]  BY <3>2
      <4>2. m # 0 => k[m - 1] = h[m - 1]  BY <4>1
      <4> HIDE DEF k
      <4> QED  BY <4>1, <4>2, <2>1
    <3> QED  BY <3>1, <3>2
  <2>3. k = [m \in 0..n |-> k[m]]  OBVIOUS
  <2> HIDE DEF k
  <2>4. Part(k, n)  BY <2>2, <2>3
  <2> QED  BY <2>4
<1>4. N \in Good
  <2> HIDE DEF Good, N
  <2>1. 0..N \subseteq Good  BY <1>1, <1>2, <1>3, UpTo
  <2> QED  BY <1>1, <2>1
<1>5. PICK k : Part(k, N)  BY <1>4
<1>6. Keeping(k, known, records)  BY <1>5 DEF Keeping
<1> QED  BY <1>6

LEMMA FreshDef ==
    ASSUME NEW file, NEW R, NEW records \in Seq(R)
    PROVE  \E kept : /\ Keeping(kept, Known(file), records)
                     /\ Fresh(file, records) = kept[Len(records)]
<1>1. Fresh(file, records)
        = (CHOOSE k : Keeping(k, Known(file), records))[Len(records)]
  BY DEF Fresh, Keeping
<1>2. Keeping(CHOOSE k : Keeping(k, Known(file), records),
              Known(file), records)
  BY KeepingExists
<1> QED  BY <1>1, <1>2

\* What the loop keeps of the first n records.
KeptOf(s, known, records, n, R) ==
    /\ s \in Seq(R)
    /\ \A j \in 1..n : records[j] \in known \/ Contains(s, records[j])
    /\ \A k \in 1..Len(s) :
          /\ s[k] \notin known
          /\ \A m \in 1..Len(s) : s[k] = s[m] => k = m
          /\ \E m \in 1..n :
                /\ records[m] = s[k]
                /\ \A j \in 1..(m - 1) :
                     \/ records[j] \in known
                     \/ \E x \in 1..(k - 1) : s[x] = records[j]

\* One record more is kept.
LEMMA KeptStep ==
    ASSUME NEW known, NEW R, NEW records \in Seq(R),
           NEW n \in 1..Len(records), NEW s,
           KeptOf(s, known, records, n - 1, R),
           records[n] \notin known, ~Contains(s, records[n])
    PROVE  KeptOf(Append(s, records[n]), known, records, n, R)
<1> DEFINE t == Append(s, records[n])
<1>1. /\ s \in Seq(R) /\ records[n] \in R
      /\ t \in Seq(R) /\ Len(t) = Len(s) + 1 /\ t[Len(s) + 1] = records[n]
      /\ \A k \in 1..Len(s) : t[k] = s[k]
  BY DEF KeptOf
<1> HIDE DEF t
<1>2. \A j \in 1..n : records[j] \in known \/ Contains(t, records[j])
  <2> SUFFICES ASSUME NEW j \in 1..n, records[j] \notin known
               PROVE  Contains(t, records[j])
    OBVIOUS
  <2>1. CASE j = n  BY <2>1, <1>1 DEF Contains
  <2>2. CASE j # n
    <3>1. Contains(s, records[j])  BY <2>2 DEF KeptOf
    <3> QED  BY <3>1, <1>1 DEF Contains
  <2> QED  BY <2>1, <2>2
<1>3. ASSUME NEW k \in 1..Len(t)
      PROVE  /\ t[k] \notin known
             /\ \A m \in 1..Len(t) : t[k] = t[m] => k = m
             /\ \E m \in 1..n :
                /\ records[m] = t[k]
                /\ \A j \in 1..(m - 1) :
                     \/ records[j] \in known
                     \/ \E x \in 1..(k - 1) : t[x] = records[j]
  <2>1. CASE k = Len(s) + 1
    <3>1. \A m \in 1..Len(s) : t[m] # records[n]  BY <1>1 DEF Contains
    <3>2. \A j \in 1..(n - 1) :
             \/ records[j] \in known
             \/ \E x \in 1..(k - 1) : t[x] = records[j]
      BY <2>1, <1>1 DEF KeptOf, Contains
    <3>3. t[k] = records[n]  BY <2>1, <1>1
    <3>4. \A m \in 1..Len(t) : t[k] = t[m] => k = m
      BY <2>1, <1>1, <3>1, <3>3
    <3>5. n \in 1..n  OBVIOUS
    <3> QED  BY <3>2, <3>3, <3>4, <3>5
  <2>2. CASE k \in 1..Len(s)
    <3>1. t[k] = s[k] /\ t[k] \notin known  BY <2>2, <1>1 DEF KeptOf
    <3>2. ASSUME NEW m \in 1..Len(t), t[k] = t[m] PROVE k = m
      <4>1. CASE m = Len(s) + 1  BY <4>1, <3>1, <3>2, <2>2, <1>1 DEF Contains
      <4>2. CASE m \in 1..Len(s)  BY <4>2, <3>2, <2>2, <1>1 DEF KeptOf
      <4> QED  BY <4>1, <4>2, <1>1
    <3>3. PICK m \in 1..(n - 1) :
             /\ records[m] = s[k]
             /\ \A j \in 1..(m - 1) :
                  \/ records[j] \in known
                  \/ \E x \in 1..(k - 1) : s[x] = records[j]
      BY <2>2 DEF KeptOf
    <3>4. \A x \in 1..(k - 1) : t[x] = s[x]  BY <2>2, <1>1
    <3>5. m \in 1..n  OBVIOUS
    <3>6. \A j \in 1..(m - 1) :
                  \/ records[j] \in known
                  \/ \E x \in 1..(k - 1) : t[x] = records[j]
      BY <3>3, <3>4
    <3> QED  BY <3>1, <3>2, <3>3, <3>5, <3>6
  <2> QED  BY <2>1, <2>2, <1>1
<1> QED  BY <1>1, <1>2, <1>3 DEF KeptOf, t

\* Fresh is what the loop keeps of the whole batch.
LEMMA FreshIsKept ==
    ASSUME NEW file, NEW R, NEW records \in Seq(R)
    PROVE  KeptOf(Fresh(file, records), Known(file), records,
                  Len(records), R)
<1> DEFINE known == Known(file)
           N == Len(records)
<1>1. PICK kept : /\ Keeping(kept, known, records)
                  /\ Fresh(file, records) = kept[N]
  BY FreshDef
<1> DEFINE Good == {n \in 0..N : KeptOf(kept[n], known, records, n, R)}
<1>2. N \in Nat  OBVIOUS
<1> HIDE DEF known
<1>3. 0 \in Good
  <2>1. kept[0] = <<>>  BY <1>1, <1>2 DEF Keeping
  <2>2. KeptOf(<<>>, known, records, 0, R)  BY DEF KeptOf
  <2> QED  BY <2>1, <2>2, <1>2
<1>4. ASSUME NEW n \in 1..N, n - 1 \in Good PROVE n \in Good
  <2>1. KeptOf(kept[n - 1], known, records, n - 1, R)  BY <1>4
  <2>2. kept[n] = IF records[n] \in known \cup ToSet(kept[n - 1])
                  THEN kept[n - 1] ELSE Append(kept[n - 1], records[n])
    <3>1. n \in 0..N /\ n # 0  BY <1>2
    <3> QED  BY <1>1, <3>1 DEF Keeping
  <2>3. \A x : x \in ToSet(kept[n - 1]) <=> Contains(kept[n - 1], x)
    BY <2>1, ToSetContains DEF KeptOf
  <2>4. CASE records[n] \in known \cup ToSet(kept[n - 1])
    <3>1. kept[n] = kept[n - 1]  BY <2>2, <2>4
    <3>2. KeptOf(kept[n - 1], known, records, n, R)
      <4> DEFINE s == kept[n - 1]
      <4>1. records[n] \in known \/ Contains(s, records[n])  BY <2>3, <2>4
      <4>2. KeptOf(s, known, records, n - 1, R)  BY <2>1
      <4> HIDE DEF s
      <4>3. \A j \in 1..n : records[j] \in known \/ Contains(s, records[j])
        BY <4>1, <4>2 DEF KeptOf
      <4>4. \A m \in 1..(n - 1) : m \in 1..n  OBVIOUS
      <4>5. KeptOf(s, known, records, n, R)  BY <4>2, <4>3, <4>4 DEF KeptOf
      <4> QED  BY <4>5 DEF s
    <3> QED  BY <3>1, <3>2
  <2>5. CASE records[n] \notin known \cup ToSet(kept[n - 1])
    <3>1. kept[n] = Append(kept[n - 1], records[n])  BY <2>2, <2>5
    <3>2. ~Contains(kept[n - 1], records[n])  BY <2>3, <2>5
    <3>3. KeptOf(Append(kept[n - 1], records[n]), known, records, n, R)
      BY <2>1, <2>5, <3>2, KeptStep
    <3>4. KeptOf(kept[n], known, records, n, R)  BY <3>1, <3>3
    <3> QED  BY <3>4, <1>2
  <2> QED  BY <2>4, <2>5
<1>5. N \in Good
  <2> HIDE DEF Good, N
  <2>1. 0..N \subseteq Good  BY <1>2, <1>3, <1>4, UpTo
  <2> QED  BY <1>2, <2>1
<1> QED  BY <1>1, <1>5 DEF known

\* lines2 is lines and the first m of new.
Grown(lines2, lines, new, m) ==
    /\ Len(lines2) = Len(lines) + m
    /\ \A k \in 1..Len(lines) : lines2[k] = lines[k]
    /\ \A k \in 1..m : lines2[Len(lines) + k] = new[k]

\* A file of lines in X; a line that lacks its newline is there.
LineFile(file, X) ==
    /\ file.lines \in Seq(X) /\ file.tail \in BOOLEAN
    /\ file.tail => Len(file.lines) > 0

\* Gluing spoils a line; a file that loads has the old lines and the new.
LEMMA PutLinesOk ==
    ASSUME NEW X, Corrupt \in X, NEW file, LineFile(file, X),
           NEW records \in Seq(X)
    PROVE  /\ LineFile(PutLines(file, records), X)
           /\ LoadOk(PutLines(file, records)) =>
                /\ LoadOk(file)
                /\ Grown(PutLines(file, records).lines, file.lines,
                         records, Len(records))
<1> DEFINE new == PutLines(file, records)
           old == file.lines
<1>1. old \in Seq(X) /\ Len(old) \in Nat  BY DEF LineFile
<1>2. CASE records = <<>>
  <2>1. new = file  BY <1>2 DEF PutLines
  <2>2. Len(records) = 0  BY <1>2
  <2> QED  BY <1>1, <2>1, <2>2 DEF Grown
<1>3. CASE records # <<>> /\ ~file.tail
  <2>1. new.lines = old \o records /\ new.tail = FALSE
    BY <1>3 DEF PutLines
  <2>2. /\ new.lines \in Seq(X) /\ Len(new.lines) = Len(old) + Len(records)
        /\ \A k \in 1..Len(old) : new.lines[k] = old[k]
        /\ \A k \in 1..Len(records) : new.lines[Len(old) + k] = records[k]
    BY <1>1, <2>1
  <2>3. LoadOk(new) => LoadOk(file)
    <3> SUFFICES ASSUME NEW i \in 1..Len(old), old[i] = Corrupt
                 PROVE  ~LoadOk(new)
      BY DEF LoadOk, Contains
    <3> HIDE DEF new
    <3>1. i \in 1..Len(new.lines) /\ new.lines[i] = Corrupt
      BY <1>1, <2>2
    <3> QED  BY <3>1 DEF LoadOk, Contains
  <2> QED  BY <2>1, <2>2, <2>3 DEF Grown, LineFile
<1>4. CASE records # <<>> /\ file.tail
  <2> DEFINE f == Front(old)
             g == f \o <<Corrupt>>
  <2>1. new.lines = g \o Tail(records) /\ new.tail = FALSE
    BY <1>4 DEF PutLines
  <2>2. Len(old) > 0  BY <1>4 DEF LineFile
  <2>3. f \in Seq(X) /\ Len(f) = Len(old) - 1
    BY <1>1, <2>2 DEF Front
  <2> HIDE DEF f
  <2>4. g \in Seq(X) /\ Len(g) = Len(f) + 1 /\ g[Len(g)] = Corrupt
    BY <2>3
  <2> HIDE DEF g
  <2>5. Tail(records) \in Seq(X)  BY <1>4
  <2>6. /\ new.lines \in Seq(X) /\ Len(new.lines) >= Len(g)
        /\ new.lines[Len(g)] = Corrupt
    BY <2>1, <2>3, <2>4, <2>5
  <2>7. ~LoadOk(new)
    <3> HIDE DEF new
    <3> QED  BY <2>3, <2>4, <2>6 DEF LoadOk, Contains
  <2> QED  BY <2>1, <2>6, <2>7 DEF LineFile
<1> QED  BY <1>2, <1>3, <1>4 DEF LineFile

\* A torn line loads only if it is whole and was not glued to another.
LEMMA PutTailOk ==
    ASSUME NEW X, Corrupt \in X, NEW file, LineFile(file, X), NEW line \in X
    PROVE  /\ LineFile(PutTail(file, line), X)
           /\ LoadOk(PutTail(file, line)) =>
                /\ LoadOk(file)
                /\ PutTail(file, line).lines = Append(file.lines, line)
                /\ line # Corrupt
<1> DEFINE new == PutTail(file, line)
           old == file.lines
<1>1. old \in Seq(X) /\ Len(old) \in Nat  BY DEF LineFile
<1>2. CASE file.tail
  <2> DEFINE f == Front(old)
             g == f \o <<Corrupt>>
  <2>1. new.lines = g /\ new.tail = TRUE  BY <1>2 DEF PutTail
  <2>2. Len(old) > 0  BY <1>2 DEF LineFile
  <2>3. f \in Seq(X) /\ Len(f) = Len(old) - 1
    BY <1>1, <2>2 DEF Front
  <2> HIDE DEF f
  <2>4. g \in Seq(X) /\ Len(g) = Len(f) + 1 /\ g[Len(g)] = Corrupt
    BY <2>3
  <2> HIDE DEF g, new
  <2>5. ~LoadOk(new)  BY <2>1, <2>3, <2>4 DEF LoadOk, Contains
  <2>6. new.lines \in Seq(X) /\ Len(new.lines) > 0
    BY <1>1, <2>1, <2>2, <2>3, <2>4
  <2>7. new.tail \in BOOLEAN  BY <2>1, Zenon
  <2>8. LineFile(new, X)  BY <2>6, <2>7 DEF LineFile
  <2> QED  BY <2>5, <2>8 DEF new
<1>3. CASE ~file.tail
  <2>1. new.lines = Append(old, line) /\ new.tail = TRUE
    BY <1>3 DEF PutTail
  <2>2. /\ new.lines \in Seq(X) /\ Len(new.lines) = Len(old) + 1
        /\ \A k \in 1..Len(old) : new.lines[k] = old[k]
        /\ new.lines[Len(old) + 1] = line
    BY <1>1, <2>1
  <2> HIDE DEF new
  <2>3. LoadOk(new) => line # Corrupt
    BY <1>1, <2>2 DEF LoadOk, Contains
  <2>4. LoadOk(new) => LoadOk(file)
    BY <1>1, <2>2 DEF LoadOk, Contains
  <2>5. new.lines \in Seq(X) /\ Len(new.lines) > 0  BY <1>1, <2>2
  <2>6. new.tail \in BOOLEAN  BY <2>1, Zenon
  <2>7. LineFile(new, X)  BY <2>5, <2>6 DEF LineFile
  <2> QED  BY <2>1, <2>3, <2>4, <2>7 DEF new
<1> QED  BY <1>2, <1>3 DEF LineFile

\* A crash leaves some of the new lines, or a file that does not load.
LEMMA TornOk ==
    ASSUME NEW X, Corrupt \in X, NEW file, LineFile(file, X),
           NEW new \in Seq(X), NEW n \in 0..(Len(new) - 1), NEW file2,
           LET full == PutLines(file, SubSeq(new, 1, n))
           IN  file2 \in {full, PutTail(full, Corrupt),
                          PutTail(full, new[n + 1])}
    PROVE  /\ LineFile(file2, X)
           /\ LoadOk(file2) =>
                /\ LoadOk(file)
                /\ \E m \in 0..Len(new) :
                     Grown(file2.lines, file.lines, new, m)
<1> DEFINE part == SubSeq(new, 1, n)
           full == PutLines(file, part)
<1>1. /\ n \in Nat /\ n + 1 \in 1..Len(new) /\ n \in 0..Len(new)
      /\ Len(new) \in Nat /\ new[n + 1] \in X
  OBVIOUS
<1>2. /\ part \in Seq(X) /\ Len(part) = n
      /\ \A k \in 1..n : part[k] = new[k]
  BY <1>1
<1> HIDE DEF part
<1>3. /\ LineFile(full, X)
      /\ LoadOk(full) => /\ LoadOk(file)
                         /\ Grown(full.lines, file.lines, part, n)
  BY <1>2, PutLinesOk
<1> HIDE DEF full
<1>4. Grown(full.lines, file.lines, part, n)
        => Grown(full.lines, file.lines, new, n)
  BY <1>2 DEF Grown
<1>5. CASE file2 = full  BY <1>1, <1>3, <1>4, <1>5
<1>6. CASE file2 = PutTail(full, Corrupt)
  BY <1>3, <1>6, PutTailOk
<1>7. CASE file2 = PutTail(full, new[n + 1])
  <2>1. /\ LineFile(file2, X)
        /\ LoadOk(file2) => /\ LoadOk(full)
                            /\ file2.lines = Append(full.lines, new[n + 1])
    BY <1>1, <1>3, <1>7, PutTailOk
  <2>2. ASSUME LoadOk(file2)
        PROVE  Grown(file2.lines, file.lines, new, n + 1)
    <3>1. Grown(full.lines, file.lines, new, n)  BY <1>3, <1>4, <2>1, <2>2
    <3> DEFINE a == full.lines
               b == file2.lines
               c == file.lines
    <3>2. a \in Seq(X) /\ b = Append(a, new[n + 1]) /\ c \in Seq(X)
      BY <1>3, <2>1, <2>2 DEF LineFile
    <3>3. Grown(a, c, new, n)  BY <3>1
    <3> HIDE DEF a, b, c
    <3>4. /\ Len(b) = Len(a) + 1 /\ b[Len(a) + 1] = new[n + 1]
          /\ \A k \in 1..Len(a) : b[k] = a[k]
      BY <3>2
    <3>5. Len(a) = Len(c) + n /\ Len(c) \in Nat  BY <3>2, <3>3 DEF Grown
    <3>6. Len(b) = Len(c) + (n + 1)  BY <3>4, <3>5, <1>1
    <3>7. \A k \in 1..Len(c) : b[k] = c[k]
      BY <3>3, <3>4, <3>5, <1>1 DEF Grown
    <3>8. ASSUME NEW k \in 1..(n + 1) PROVE b[Len(c) + k] = new[k]
      <4>1. CASE k = n + 1  BY <4>1, <3>4, <3>5, <1>1
      <4>2. CASE k # n + 1
        <5>1. k \in 1..n /\ Len(c) + k \in 1..Len(a)
          BY <4>2, <3>5, <1>1
        <5> QED  BY <5>1, <3>3, <3>4 DEF Grown
      <4> QED  BY <4>1, <4>2
    <3>9. Grown(b, c, new, n + 1)  BY <3>6, <3>7, <3>8 DEF Grown
    <3> QED  BY <3>9 DEF b, c
  <2> QED  BY <1>1, <1>3, <2>1, <2>2
<1> QED  BY <1>5, <1>6, <1>7 DEF full, part

(***************************************************************************)
(* The events of a process and the lines of the file.                      *)
(***************************************************************************)

Kinds == {"POSITION_OPENED", "POSITION_CLOSED", "POSITION_UPDATED"}
Events == [kind : Kinds, at : Nat, id : Ids \cup {"account"},
           delta : Int, gain : Int]
Lines == Events \cup {Corrupt}

IsOpen(e) == e.kind = "POSITION_OPENED"
IsClose(e) == e.kind = "POSITION_CLOSED"
IsMark(e) == e.kind = "POSITION_UPDATED"

\* Two events of one kind about one position.
Twins(e, f) == e.kind = f.kind /\ e.id = f.id /\ ~IsMark(e)

\* o is the open event that c settles.
Settles(c, o) == IsOpen(o) /\ o.id = c.id /\ c.gain = c.delta + o.delta

\* c closes a position of the paper loop, whose open event nobody has.
Unseen(c) == c.id \in silent

\* Only a close books a profit, and a mark moves no cash.
Booked(e) ==
    /\ IsOpen(e) => e.gain = 0
    /\ IsMark(e) => e.gain = 0 /\ e.delta = 0

\* Types of the events and of the lines.
Log == emitted \in Seq(Events) /\ LineFile(eventFile, Lines)

\* No event twice, at most one open and one close event of a position.
Once(s) == \A k, m \in 1..Len(s) : s[k] = s[m] \/ Twins(s[k], s[m]) => k = m

\* The events of this process and its account.
Books ==
    /\ spent \cap (open \cup closed) = {}
    /\ Once(emitted)
    /\ \A k \in 1..Len(emitted) :
         /\ Booked(emitted[k])
         /\ IsOpen(emitted[k]) => emitted[k].id \in open \cup closed
         /\ IsClose(emitted[k]) => emitted[k].id \in closed
         /\ IsClose(emitted[k]) =>
              \/ Unseen(emitted[k])
              \/ \E m \in 1..(k - 1) : Settles(emitted[k], emitted[m])
    /\ \A i \in open \ silent : \E k \in 1..Len(emitted) :
         /\ IsOpen(emitted[k]) /\ emitted[k].id = i
         /\ emitted[k].delta = -Paid(position[i])

\* Of a line that is not of this process, the position is spent.
Origin(e) == IsMark(e) \/ Contains(emitted, e) \/ e.id \in spent

\* What a file that loads holds.
FileFacts(lines) ==
    /\ Once(lines)
    /\ \A k \in 1..Len(lines) :
         /\ Booked(lines[k])
         /\ Origin(lines[k])
         /\ IsClose(lines[k]) =>
              \/ Unseen(lines[k])
              \/ \E m \in 1..Len(lines) : Settles(lines[k], lines[m])

\* A file that does not load promises nothing.
Filed == LoadOk(eventFile) => FileFacts(eventFile.lines)

LEMMA CorruptIsNoEvent == Corrupt \notin Events /\ Corrupt \in Lines
  BY DEF Corrupt, Events, Kinds, Lines

LEMMA KnownLines ==
    ASSUME LineFile(eventFile, Lines)
    PROVE  \A x : x \in Known(eventFile)
                    <=> Contains(eventFile.lines, x) /\ x # Corrupt
  BY ToSetContains DEF Known, LineFile

\* Lines that load are events.
LEMMA LinesOk ==
    ASSUME LineFile(eventFile, Lines), LoadOk(eventFile)
    PROVE  eventFile.lines \in Seq(Events)
<1>1. \A k \in 1..Len(eventFile.lines) : eventFile.lines[k] \in Events
  <2>1. ASSUME NEW k \in 1..Len(eventFile.lines)
        PROVE  eventFile.lines[k] \in Events
    <3>1. eventFile.lines[k] \in Lines  BY DEF LineFile
    <3>2. eventFile.lines[k] # Corrupt  BY DEF LoadOk, Contains
    <3> QED  BY <3>1, <3>2 DEF Lines
  <2> QED  BY <2>1
<1>2. eventFile.lines \in Seq(Lines)  BY DEF LineFile
<1> QED  BY <1>1, <1>2

\* Some of the new lines, in their order, keep the file replayable.
LEMMA FactsGrow ==
    ASSUME Log, Books, LoadOk(eventFile), FileFacts(eventFile.lines),
           NEW m \in 0..Len(Fresh(eventFile, emitted)),
           NEW lines \in Seq(Lines),
           Grown(lines, eventFile.lines, Fresh(eventFile, emitted), m)
    PROVE  FileFacts(lines)
<1> DEFINE old == eventFile.lines
           known == Known(eventFile)
           new == Fresh(eventFile, emitted)
           L == Len(old)
<1>1. /\ KeptOf(new, known, emitted, Len(emitted), Events)
      /\ emitted \in Seq(Events)
  BY FreshIsKept DEF Log
<1>2. \A x \in Events : x \in known <=> Contains(old, x)
  BY KnownLines, CorruptIsNoEvent DEF Log
<1>3. old \in Seq(Events)  BY LinesOk DEF Log
<1>4. FileFacts(old) /\ Grown(lines, old, new, m)  OBVIOUS
<1> HIDE DEF old, known, new
<1>5. /\ L \in Nat /\ Len(lines) = L + m /\ m \in Nat /\ m <= Len(new)
      /\ \A k \in 1..L : lines[k] = old[k]
      /\ \A j \in 1..m : lines[L + j] = new[j]
      /\ new \in Seq(Events)
  BY <1>1, <1>3, <1>4 DEF Grown, KeptOf, new
<1>6. ASSUME NEW k \in 1..Len(lines), k \notin 1..L
      PROVE  k - L \in 1..m /\ lines[k] = new[k - L]
  <2>1. k - L \in 1..m /\ L + (k - L) = k  BY <1>5, <1>6
  <2> QED  BY <2>1, <1>5
\* A new line is an event of this process that the file did not have.
<1>7. ASSUME NEW j \in 1..m
      PROVE  /\ new[j] \in Events /\ ~Contains(old, new[j])
             /\ \E a \in 1..Len(emitted) :
                  /\ emitted[a] = new[j]
                  /\ \A b \in 1..(a - 1) :
                       \/ Contains(old, emitted[b])
                       \/ \E x \in 1..(j - 1) : new[x] = emitted[b]
  <2>1. j \in 1..Len(new)  BY <1>5
  <2>2. new[j] \in Events /\ new[j] \notin known
    BY <2>1, <1>1, <1>5 DEF KeptOf
  <2>3. PICK a \in 1..Len(emitted) :
           /\ emitted[a] = new[j]
           /\ \A b \in 1..(a - 1) :
                \/ emitted[b] \in known
                \/ \E x \in 1..(j - 1) : new[x] = emitted[b]
    BY <2>1, <1>1 DEF KeptOf
  <2>4. \A b \in 1..(a - 1) : emitted[b] \in Events  BY <1>1
  <2> QED  BY <1>2, <2>2, <2>3, <2>4
<1>8. ASSUME NEW k \in 1..L, NEW j \in 1..m,
             old[k] = new[j] \/ Twins(old[k], new[j]) \/ Twins(new[j], old[k])
      PROVE  FALSE
  <2>1. old[k] # new[j]  BY <1>7 DEF Contains
  <2>2. Twins(old[k], new[j])  BY <1>8, <2>1 DEF Twins, IsMark
  <2>3. PICK a \in 1..Len(emitted) : emitted[a] = new[j]  BY <1>7
  <2>4. old[k] \in Events /\ new[j] \in Events  BY <1>3, <1>7
  <2>5. CASE Contains(emitted, old[k])
    <3>1. PICK b \in 1..Len(emitted) : emitted[b] = old[k]
      BY <2>5 DEF Contains
    <3>2. Twins(emitted[b], emitted[a])  BY <2>2, <2>3, <3>1
    <3>3. a = b  BY <3>2 DEF Books, Once
    <3> QED  BY <3>1, <3>3, <2>1, <2>3
  <2>6. CASE old[k].id \in spent
    <3>1. new[j].id \in open \cup closed
      BY <2>2, <2>3, <2>4
      DEF Books, Twins, IsMark, IsOpen, IsClose, Events, Kinds
    <3> QED  BY <2>2, <2>6, <3>1 DEF Books, Twins
  <2> QED  BY <1>4, <2>2, <2>5, <2>6 DEF FileFacts, Origin, Twins
<1>9. Once(lines)
  <2> SUFFICES ASSUME NEW k \in 1..Len(lines), NEW n \in 1..Len(lines),
                      lines[k] = lines[n] \/ Twins(lines[k], lines[n])
               PROVE  k = n
    BY DEF Once
  <2>1. CASE k \in 1..L /\ n \in 1..L
    BY <2>1, <1>4, <1>5 DEF FileFacts, Once
  <2>2. CASE k \in 1..L /\ n \notin 1..L
    BY <2>2, <1>5, <1>6, <1>8
  <2>3. CASE k \notin 1..L /\ n \in 1..L
    BY <2>3, <1>5, <1>6, <1>8
  <2>4. CASE k \notin 1..L /\ n \notin 1..L
    <3>1. PICK x \in 1..m, y \in 1..m :
            /\ x = k - L /\ y = n - L
            /\ lines[k] = new[x] /\ lines[n] = new[y]
      BY <2>4, <1>6
    <3>2. PICK a \in 1..Len(emitted) : emitted[a] = new[x]  BY <1>7
    <3>3. PICK b \in 1..Len(emitted) : emitted[b] = new[y]  BY <1>7
    <3>4. a = b  BY <3>1, <3>2, <3>3 DEF Books, Once
    <3>5. x = y  BY <3>2, <3>3, <3>4, <1>1, <1>5 DEF KeptOf
    <3> QED  BY <3>1, <3>5, <1>5
  <2> QED  BY <2>1, <2>2, <2>3, <2>4
<1>10. ASSUME NEW k \in 1..Len(lines)
       PROVE  /\ Booked(lines[k]) /\ Origin(lines[k])
              /\ IsClose(lines[k]) =>
                   \/ Unseen(lines[k])
                   \/ \E n \in 1..Len(lines) : Settles(lines[k], lines[n])
  <2>1. CASE k \in 1..L
    <3>1. lines[k] = old[k]  BY <2>1, <1>5
    <3>2. /\ Booked(old[k]) /\ Origin(old[k])
          /\ IsClose(old[k]) =>
               Unseen(old[k]) \/ \E n \in 1..L : Settles(old[k], old[n])
      BY <2>1, <1>4 DEF FileFacts
    <3>3. \A n \in 1..L : n \in 1..Len(lines) /\ lines[n] = old[n]
      BY <1>5
    <3> QED  BY <3>1, <3>2, <3>3
  <2>2. CASE k \notin 1..L
    <3>1. PICK j \in 1..m : j = k - L /\ lines[k] = new[j]  BY <2>2, <1>6
    <3>2. PICK a \in 1..Len(emitted) :
                  /\ emitted[a] = new[j]
                  /\ \A b \in 1..(a - 1) :
                       \/ Contains(old, emitted[b])
                       \/ \E x \in 1..(j - 1) : new[x] = emitted[b]
      BY <1>7
    <3>3. Booked(lines[k])  BY <3>1, <3>2 DEF Books
    <3>4. Origin(lines[k])  BY <3>1, <3>2 DEF Origin, Contains
    <3>5. ASSUME IsClose(lines[k]), ~Unseen(lines[k])
          PROVE  \E n \in 1..Len(lines) : Settles(lines[k], lines[n])
      <4>1. PICK b \in 1..(a - 1) : Settles(emitted[a], emitted[b])
        BY <3>1, <3>2, <3>5 DEF Books
      <4>2. CASE Contains(old, emitted[b])
        <5>1. PICK n \in 1..L : old[n] = emitted[b]
          BY <4>2 DEF Contains
        <5>2. n \in 1..Len(lines) /\ lines[n] = emitted[b]
          BY <5>1, <1>5
        <5> QED  BY <5>2, <4>1, <3>1, <3>2
      <4>3. CASE \E x \in 1..(j - 1) : new[x] = emitted[b]
        <5>1. PICK x \in 1..(j - 1) : new[x] = emitted[b]  BY <4>3
        <5>2. x \in 1..m /\ L + x \in 1..Len(lines)  BY <1>5
        <5>3. lines[L + x] = emitted[b]  BY <5>1, <5>2, <1>5
        <5> QED  BY <5>2, <5>3, <4>1, <3>1, <3>2
      <4> QED  BY <3>2, <4>2, <4>3
    <3> QED  BY <3>3, <3>4, <3>5
  <2> QED  BY <2>1, <2>2
<1> QED  BY <1>9, <1>10 DEF FileFacts

\* The inductive invariant of the file, together with IInv.
Kept ==
    Log /\ Books /\ Filed /\ AcknowledgedOrRefused

LEMMA BooksInit == Init => Kept
<1> SUFFICES ASSUME Init PROVE Kept
  OBVIOUS
<1>1. /\ emitted = <<>> /\ eventFile.lines = <<>> /\ eventFile.tail = FALSE
      /\ open = {} /\ closed = {} /\ spent = {} /\ acked = {}
  BY DEF Init, EmptyFile
<1>2. Log
  <2>1. eventFile.tail \in BOOLEAN /\ ~eventFile.tail  BY <1>1, Zenon
  <2> QED  BY <1>1, <2>1 DEF Log, LineFile
<1>3. Books  BY <1>1 DEF Books, Once
<1>4. Filed  BY <1>1 DEF Filed, FileFacts, Once
<1>5. AcknowledgedOrRefused  BY <1>1 DEF AcknowledgedOrRefused
<1> QED  BY <1>2, <1>3, <1>4, <1>5 DEF Kept

\* An event more in the caller's hands.
LEMMA Emits ==
    ASSUME Kept, NEW e \in Events, emitted' = Append(emitted, e),
           UNCHANGED <<eventFile, acked, silent, spent>>,
           \A k \in 1..Len(emitted) : emitted[k] # e /\ ~Twins(emitted[k], e)
    PROVE  /\ Log' /\ Filed' /\ AcknowledgedOrRefused' /\ Once(emitted')
           /\ Len(emitted') = Len(emitted) + 1 /\ Len(emitted) \in Nat
           /\ emitted'[Len(emitted) + 1] = e
           /\ \A k \in 1..Len(emitted) : emitted'[k] = emitted[k]
<1>1. emitted \in Seq(Events)  BY DEF Kept, Log
<1>2. /\ emitted' \in Seq(Events)
      /\ Len(emitted') = Len(emitted) + 1 /\ Len(emitted) \in Nat
      /\ emitted'[Len(emitted) + 1] = e
      /\ \A k \in 1..Len(emitted) : emitted'[k] = emitted[k]
  BY <1>1
<1>3. Log'  BY <1>2 DEF Kept, Log
<1>4. Once(emitted')
  <2> SUFFICES ASSUME NEW k \in 1..Len(emitted'), NEW m \in 1..Len(emitted'),
                      \/ emitted'[k] = emitted'[m]
                      \/ Twins(emitted'[k], emitted'[m])
               PROVE  k = m
    BY DEF Once
  <2>1. \A j \in 1..Len(emitted) :
           emitted[j] # e /\ ~Twins(emitted[j], e) /\ ~Twins(e, emitted[j])
    BY DEF Twins, IsMark
  <2>2. CASE k \in 1..Len(emitted) /\ m \in 1..Len(emitted)
    BY <2>2, <1>2 DEF Kept, Books, Once
  <2>3. CASE k = Len(emitted) + 1 /\ m \in 1..Len(emitted)
    BY <2>3, <2>1, <1>2
  <2>4. CASE k \in 1..Len(emitted) /\ m = Len(emitted) + 1
    BY <2>4, <2>1, <1>2
  <2> QED  BY <2>2, <2>3, <2>4, <1>2
<1>5. Filed'
  <2> SUFFICES ASSUME LoadOk(eventFile)
               PROVE  FileFacts(eventFile.lines)'
    BY DEF Filed
  <2>1. \A x : Origin(x) => Origin(x)'
    BY <1>2 DEF Origin, Contains
  <2>2. FileFacts(eventFile.lines)  BY DEF Kept, Filed
  <2> QED  BY <2>1, <2>2 DEF FileFacts, Unseen
<1>6. AcknowledgedOrRefused'  BY DEF Kept, AcknowledgedOrRefused
<1> QED  BY <1>2, <1>3, <1>4, <1>5, <1>6

LEMMA BooksOpen ==
    ASSUME IInv, Kept, NEW i \in Ids \ spent, NEW price \in Prices,
           NEW stop \in Stops, OpenPosition(i, price, stop),
           emitted' = Append(emitted, Event("POSITION_OPENED", i,
                             -Paid(Fill(price, stop)), 0)),
           silent' = silent
    PROVE  Kept'
<1> DEFINE p == Fill(price, stop)
           e == Event("POSITION_OPENED", i, -Paid(p), 0)
<1>1. /\ p \in [entry : Nat, quantity : Nat, fee : Nat]
      /\ i \notin open /\ i \notin closed /\ clock \in Nat
  BY FillType DEF OpenPosition, CanOpen, IInv, TypeOK
<1>2. Paid(p) \in Nat  BY <1>1 DEF Paid
<1>3. /\ open' = open \cup {i} /\ closed' = closed
      /\ position' = [position EXCEPT ![i] = p]
      /\ emitted' = Append(emitted, e)
      /\ UNCHANGED <<eventFile, acked, silent, spent>>
  BY DEF OpenPosition
<1>4. /\ e \in Events /\ IsOpen(e) /\ ~IsClose(e) /\ ~IsMark(e)
      /\ e.id = i /\ e.delta = -Paid(p) /\ e.gain = 0
  BY <1>1, <1>2 DEF Event, Events, Kinds, IsOpen, IsClose, IsMark
<1> HIDE DEF p, e
<1>5. \A k \in 1..Len(emitted) : emitted[k] # e /\ ~Twins(emitted[k], e)
  BY <1>1, <1>4 DEF Kept, Books, Twins, IsOpen, IsMark
<1>6. /\ Log' /\ Filed' /\ AcknowledgedOrRefused' /\ Once(emitted')
      /\ Len(emitted') = Len(emitted) + 1 /\ Len(emitted) \in Nat
      /\ emitted'[Len(emitted) + 1] = e
      /\ \A k \in 1..Len(emitted) : emitted'[k] = emitted[k]
  BY <1>3, <1>4, <1>5, Emits
<1>7. \A j \in Ids : position'[j] = IF j = i THEN p ELSE position[j]
  BY <1>3 DEF IInv, TypeOK
<1>8. ASSUME NEW k \in 1..Len(emitted')
      PROVE  /\ Booked(emitted'[k])
             /\ IsOpen(emitted'[k]) => emitted'[k].id \in open' \cup closed'
             /\ IsClose(emitted'[k]) => emitted'[k].id \in closed'
             /\ IsClose(emitted'[k]) =>
                  \/ Unseen(emitted'[k])
                  \/ \E m \in 1..(k - 1) : Settles(emitted'[k], emitted'[m])
  <2>1. CASE k = Len(emitted) + 1
    BY <2>1, <1>3, <1>4, <1>6 DEF Booked
  <2>2. CASE k \in 1..Len(emitted)
    <3>1. \A m \in 1..(k - 1) : emitted'[m] = emitted[m]  BY <2>2, <1>6
    <3> QED  BY <2>2, <3>1, <1>3, <1>6 DEF Kept, Books, Unseen
  <2> QED  BY <2>1, <2>2, <1>6
<1>9. ASSUME NEW j \in open' \ silent
      PROVE  \E k \in 1..Len(emitted') :
                /\ IsOpen(emitted'[k]) /\ emitted'[k].id = j
                /\ emitted'[k].delta = -Paid(position'[j])
  <2>1. CASE j = i
    <3>1. Len(emitted) + 1 \in 1..Len(emitted')  BY <1>6
    <3> QED  BY <2>1, <3>1, <1>4, <1>6, <1>7
  <2>2. CASE j # i
    <3>1. j \in open \ silent /\ j \in Ids
      BY <2>2, <1>3 DEF IInv, TypeOK
    <3>2. position'[j] = position[j]  BY <3>1, <2>2, <1>7
    <3>3. PICK k \in 1..Len(emitted) :
             /\ IsOpen(emitted[k]) /\ emitted[k].id = j
             /\ emitted[k].delta = -Paid(position[j])
      BY <3>1 DEF Kept, Books
    <3>4. k \in 1..Len(emitted') /\ emitted'[k] = emitted[k]  BY <1>6
    <3> QED  BY <3>2, <3>3, <3>4
  <2> QED  BY <2>1, <2>2
<1>10. spent' \cap (open' \cup closed') = {}
  BY <1>3 DEF Kept, Books
<1>11. Books'  BY <1>3, <1>6, <1>8, <1>9, <1>10 DEF Books, Unseen
<1> QED  BY <1>6, <1>11 DEF Kept

\* The loop hands out no event of its open.
LEMMA BooksLoop == ASSUME IInv, Kept, RunPaperLoop PROVE Kept'
<1>1. PICK i \in Ids \ spent, price \in Prices, stop \in Stops :
         OpenPosition(i, price, stop) /\ silent' = silent \cup {i}
  BY DEF RunPaperLoop
<1>2. /\ open' = open \cup {i} /\ closed' = closed
      /\ position' = [position EXCEPT ![i] = Fill(price, stop)]
      /\ UNCHANGED <<emitted, eventFile, acked, spent>>
  BY <1>1 DEF OpenPosition, RunPaperLoop
<1>3. /\ \A x : Origin(x)' <=> Origin(x)
      /\ \A x : Unseen(x) => Unseen(x)'
  BY <1>1, <1>2 DEF Origin, Unseen
<1>4. Log' /\ AcknowledgedOrRefused'
  BY <1>2 DEF Kept, Log, AcknowledgedOrRefused
<1>5. Filed'
  BY <1>2, <1>3 DEF Kept, Filed, FileFacts
<1>6. ASSUME NEW j \in open' \ silent'
      PROVE  j \in open \ silent /\ position'[j] = position[j]
  BY <1>1, <1>2 DEF IInv, TypeOK
<1>7. \A j \in open' \ silent' : \E k \in 1..Len(emitted) :
         /\ IsOpen(emitted[k]) /\ emitted[k].id = j
         /\ emitted[k].delta = -Paid(position'[j])
  BY <1>6 DEF Kept, Books
<1>8. spent' \cap (open' \cup closed') = {}
  BY <1>1, <1>2 DEF Kept, Books
<1>9. Books'  BY <1>2, <1>3, <1>7, <1>8 DEF Kept, Books
<1> QED  BY <1>4, <1>5, <1>9 DEF Kept

LEMMA BooksClose ==
    ASSUME IInv, Kept, NEW i \in Ids, NEW price \in Prices,
           ClosePosition(i, price)
    PROVE  Kept'
<1> DEFINE back == Proceeds(i, price)
           e == Event("POSITION_CLOSED", i, back, NetRealized(i, price))
<1>1. /\ i \in open /\ i \notin closed /\ clock \in Nat
      /\ Paid(position[i]) \in Nat /\ back \in Int
      /\ NetRealized(i, price) = back - Paid(position[i])
  BY ProceedsType DEF ClosePosition, IInv, TypeOK, Paid, NetRealized
<1>2. /\ open' = open \ {i} /\ closed' = closed \cup {i}
      /\ position' = position
      /\ emitted' = Append(emitted, e)
      /\ UNCHANGED <<eventFile, acked, silent, spent>>
  BY DEF ClosePosition, files
<1>3. /\ e \in Events /\ IsClose(e) /\ ~IsOpen(e) /\ ~IsMark(e)
      /\ e.id = i /\ e.delta = back /\ e.gain = back - Paid(position[i])
  <2> HIDE DEF back
  <2>1. back - Paid(position[i]) \in Int  BY <1>1
  <2> QED  BY <1>1, <2>1 DEF Event, Events, Kinds, IsOpen, IsClose, IsMark
<1> HIDE DEF back, e
<1>4. \A k \in 1..Len(emitted) : emitted[k] # e /\ ~Twins(emitted[k], e)
  BY <1>1, <1>3 DEF Kept, Books, Twins, IsClose, IsMark
<1>5. /\ Log' /\ Filed' /\ AcknowledgedOrRefused' /\ Once(emitted')
      /\ Len(emitted') = Len(emitted) + 1 /\ Len(emitted) \in Nat
      /\ emitted'[Len(emitted) + 1] = e
      /\ \A k \in 1..Len(emitted) : emitted'[k] = emitted[k]
  BY <1>2, <1>3, <1>4, Emits
<1>6. ASSUME NEW k \in 1..Len(emitted')
      PROVE  /\ Booked(emitted'[k])
             /\ IsOpen(emitted'[k]) => emitted'[k].id \in open' \cup closed'
             /\ IsClose(emitted'[k]) => emitted'[k].id \in closed'
             /\ IsClose(emitted'[k]) =>
                  \/ Unseen(emitted'[k])
                  \/ \E m \in 1..(k - 1) : Settles(emitted'[k], emitted'[m])
  <2>0. CASE k = Len(emitted) + 1 /\ i \in silent
    BY <2>0, <1>2, <1>3, <1>5 DEF Booked, Unseen
  <2>1. CASE k = Len(emitted) + 1 /\ i \notin silent
    <3>1. PICK m \in 1..Len(emitted) :
             /\ IsOpen(emitted[m]) /\ emitted[m].id = i
             /\ emitted[m].delta = -Paid(position[i])
      BY <1>1, <2>1 DEF Kept, Books
    <3>2. e.gain = e.delta + emitted[m].delta  BY <3>1, <1>1, <1>3
    <3>3. m \in 1..(k - 1) /\ emitted'[m] = emitted[m]  BY <2>1, <1>5
    <3>4. Settles(e, emitted'[m])  BY <3>1, <3>2, <3>3, <1>3 DEF Settles
    <3>5. emitted'[k] = e  BY <2>1, <1>5
    <3> QED  BY <3>3, <3>4, <3>5, <1>2, <1>3 DEF Booked
  <2>2. CASE k \in 1..Len(emitted)
    <3>1. \A m \in 1..(k - 1) : emitted'[m] = emitted[m]  BY <2>2, <1>5
    <3>2. open' \cup closed' = open \cup closed  BY <1>1, <1>2
    <3> QED  BY <2>2, <3>1, <3>2, <1>2, <1>5 DEF Kept, Books, Unseen
  <2> QED  BY <2>0, <2>1, <2>2, <1>5
<1>7. ASSUME NEW j \in open' \ silent
      PROVE  \E k \in 1..Len(emitted') :
                /\ IsOpen(emitted'[k]) /\ emitted'[k].id = j
                /\ emitted'[k].delta = -Paid(position'[j])
  <2>1. PICK k \in 1..Len(emitted) :
           /\ IsOpen(emitted[k]) /\ emitted[k].id = j
           /\ emitted[k].delta = -Paid(position[j])
    BY <1>2 DEF Kept, Books
  <2>2. k \in 1..Len(emitted') /\ emitted'[k] = emitted[k]  BY <1>5
  <2> QED  BY <2>1, <2>2, <1>2
<1>8. spent' \cap (open' \cup closed') = {}
  BY <1>1, <1>2 DEF Kept, Books
<1>9. Books'  BY <1>2, <1>5, <1>6, <1>7, <1>8 DEF Books, Unseen
<1> QED  BY <1>5, <1>9 DEF Kept

LEMMA BooksMark == ASSUME IInv, Kept, MarkAccount PROVE Kept'
<1> DEFINE e == Event("POSITION_UPDATED", "account", 0, 0)
<1>1. /\ ~Contains(emitted, e) /\ emitted' = Append(emitted, e)
      /\ UNCHANGED <<open, closed, position, eventFile, acked, silent, spent>>
  BY DEF MarkAccount, account, files
<1>2. /\ e \in Events /\ IsMark(e) /\ ~IsOpen(e) /\ ~IsClose(e)
      /\ e.gain = 0 /\ e.delta = 0
  BY DEF Event, Events, Kinds, IsOpen, IsClose, IsMark, IInv, TypeOK
<1> HIDE DEF e
<1>3. \A k \in 1..Len(emitted) : emitted[k] # e /\ ~Twins(emitted[k], e)
  BY <1>1, <1>2 DEF Contains, Twins, IsMark
<1>4. /\ Log' /\ Filed' /\ AcknowledgedOrRefused' /\ Once(emitted')
      /\ Len(emitted') = Len(emitted) + 1 /\ Len(emitted) \in Nat
      /\ emitted'[Len(emitted) + 1] = e
      /\ \A k \in 1..Len(emitted) : emitted'[k] = emitted[k]
  BY <1>1, <1>2, <1>3, Emits
<1>5. ASSUME NEW k \in 1..Len(emitted')
      PROVE  /\ Booked(emitted'[k])
             /\ IsOpen(emitted'[k]) => emitted'[k].id \in open' \cup closed'
             /\ IsClose(emitted'[k]) => emitted'[k].id \in closed'
             /\ IsClose(emitted'[k]) =>
                  \/ Unseen(emitted'[k])
                  \/ \E m \in 1..(k - 1) : Settles(emitted'[k], emitted'[m])
  <2>1. CASE k = Len(emitted) + 1
    BY <2>1, <1>2, <1>4 DEF Booked
  <2>2. CASE k \in 1..Len(emitted)
    <3>1. \A m \in 1..(k - 1) : emitted'[m] = emitted[m]  BY <2>2, <1>4
    <3> QED  BY <2>2, <3>1, <1>1, <1>4 DEF Kept, Books, Unseen
  <2> QED  BY <2>1, <2>2, <1>4
<1>6. ASSUME NEW j \in open' \ silent
      PROVE  \E k \in 1..Len(emitted') :
                /\ IsOpen(emitted'[k]) /\ emitted'[k].id = j
                /\ emitted'[k].delta = -Paid(position'[j])
  <2>1. PICK k \in 1..Len(emitted) :
           /\ IsOpen(emitted[k]) /\ emitted[k].id = j
           /\ emitted[k].delta = -Paid(position[j])
    BY <1>1 DEF Kept, Books
  <2>2. k \in 1..Len(emitted') /\ emitted'[k] = emitted[k]  BY <1>4
  <2> QED  BY <2>1, <2>2, <1>1
<1>7. spent' \cap (open' \cup closed') = {}
  BY <1>1 DEF Kept, Books
<1>8. Books'  BY <1>1, <1>4, <1>5, <1>6, <1>7 DEF Books, Unseen
<1> QED  BY <1>4, <1>8 DEF Kept

\* The steps that change neither the account nor what was emitted.
LEMMA BooksSame ==
    ASSUME Books,
           UNCHANGED <<emitted, silent, spent, open, closed, position>>
    PROVE  /\ Books'
           /\ \A x : (Origin(x)' <=> Origin(x)) /\ (Unseen(x)' <=> Unseen(x))
  BY DEF Books, Origin, Unseen

LEMMA BooksAppend == ASSUME IInv, Kept, AppendEvents PROVE Kept'
<1> DEFINE new == Fresh(eventFile, emitted)
           file2 == PutLines(eventFile, new)
<1>1. /\ eventFile' = file2 /\ acked' = acked \cup ToSet(emitted)
      /\ UNCHANGED <<emitted, silent, spent, open, closed, position>>
  BY DEF AppendEvents, account
<1>2. KeptOf(new, Known(eventFile), emitted, Len(emitted), Events)
  BY FreshIsKept DEF Kept, Log
<1>3. LineFile(eventFile, Lines) /\ emitted \in Seq(Events)
  BY DEF Kept, Log
<1>4. new \in Seq(Lines)  BY <1>2 DEF KeptOf, Lines
<1>5. /\ LineFile(file2, Lines)
      /\ LoadOk(file2) =>
           /\ LoadOk(eventFile)
           /\ Grown(file2.lines, eventFile.lines, new, Len(new))
  BY <1>3, <1>4, PutLinesOk, CorruptIsNoEvent
<1> HIDE DEF file2
<1>6. Log'  BY <1>1, <1>3, <1>5 DEF Log
<1>7. /\ Books'
      /\ \A x : (Origin(x)' <=> Origin(x)) /\ (Unseen(x)' <=> Unseen(x))
  BY <1>1, BooksSame DEF Kept
<1>8. ASSUME LoadOk(file2) PROVE FileFacts(file2.lines)
  <2>1. /\ FileFacts(eventFile.lines) /\ LoadOk(eventFile)
        /\ file2.lines \in Seq(Lines)
        /\ Grown(file2.lines, eventFile.lines, new, Len(new))
    BY <1>5, <1>8 DEF Kept, Filed, LineFile
  <2>2. Len(new) \in 0..Len(new)  BY <1>4
  <2> QED  BY <2>1, <2>2, FactsGrow DEF Kept
<1>9. Filed'
  BY <1>1, <1>7, <1>8 DEF Filed, FileFacts
<1>10. ASSUME LoadOk(file2) PROVE acked' \subseteq ToSet(file2.lines)
  <2> DEFINE old == eventFile.lines
             lines == file2.lines
  <2>1. /\ Grown(lines, old, new, Len(new)) /\ LoadOk(eventFile)
        /\ old \in Seq(Lines) /\ lines \in Seq(Lines)
    BY <1>3, <1>5, <1>10 DEF LineFile
  <2>2. \A x : Contains(old, x) \/ Contains(new, x) => Contains(lines, x)
    <3> HIDE DEF new, old, lines
    <3>1. \A k \in 1..Len(old) : k \in 1..Len(lines) /\ lines[k] = old[k]
      BY <2>1, <1>4 DEF Grown
    <3>2. \A k \in 1..Len(new) :
             Len(old) + k \in 1..Len(lines) /\ lines[Len(old) + k] = new[k]
      BY <2>1, <1>4 DEF Grown
    <3> QED  BY <3>1, <3>2 DEF Contains
  <2>3. ASSUME NEW x \in ToSet(emitted) PROVE Contains(lines, x)
    <3>1. PICK j \in 1..Len(emitted) : emitted[j] = x
      BY <1>3, ToSetContains DEF Contains
    <3>2. x \in Known(eventFile) \/ Contains(new, x)
      BY <1>2, <3>1 DEF KeptOf
    <3> QED  BY <2>2, <3>2, <1>3, KnownLines
  <2>4. ASSUME NEW x \in acked PROVE Contains(lines, x)
    <3>1. x \in ToSet(old)  BY <2>1 DEF Kept, AcknowledgedOrRefused
    <3> QED  BY <3>1, <2>1, <2>2, ToSetContains
  <2> QED  BY <2>1, <2>3, <2>4, <1>1, ToSetContains
<1>11. AcknowledgedOrRefused'
  BY <1>1, <1>10 DEF AcknowledgedOrRefused
<1> QED  BY <1>6, <1>7, <1>9, <1>11 DEF Kept

LEMMA BooksTorn == ASSUME IInv, Kept, CrashInAppend PROVE Kept'
<1> DEFINE new == Fresh(eventFile, emitted)
<1>1. UNCHANGED <<acked, emitted, silent, spent, open, closed, position>>
  BY DEF CrashInAppend, account
<1>2. PICK n \in 0..(Len(new) - 1) :
         LET full == PutLines(eventFile, SubSeq(new, 1, n))
         IN  eventFile' \in {full, PutTail(full, Corrupt),
                             PutTail(full, new[n + 1])}
  BY DEF CrashInAppend
<1>3. KeptOf(new, Known(eventFile), emitted, Len(emitted), Events)
  BY FreshIsKept DEF Kept, Log
<1>4. LineFile(eventFile, Lines) /\ emitted \in Seq(Events)
  BY DEF Kept, Log
<1>5. new \in Seq(Lines)  BY <1>3 DEF KeptOf, Lines
<1>6. /\ LineFile(eventFile', Lines)
      /\ LoadOk(eventFile') =>
           /\ LoadOk(eventFile)
           /\ \E m \in 0..Len(new) :
                Grown(eventFile'.lines, eventFile.lines, new, m)
  BY <1>2, <1>4, <1>5, TornOk, CorruptIsNoEvent
<1>7. Log'  BY <1>1, <1>4, <1>6 DEF Log
<1>8. /\ Books'
      /\ \A x : (Origin(x)' <=> Origin(x)) /\ (Unseen(x)' <=> Unseen(x))
  BY <1>1, BooksSame DEF Kept
<1>9. ASSUME LoadOk(eventFile')
      PROVE  /\ FileFacts(eventFile'.lines)
             /\ acked \subseteq ToSet(eventFile'.lines)
  <2>1. PICK m \in 0..Len(new) :
           Grown(eventFile'.lines, eventFile.lines, new, m)
    BY <1>6, <1>9
  <2>2. /\ FileFacts(eventFile.lines) /\ LoadOk(eventFile)
        /\ eventFile'.lines \in Seq(Lines) /\ eventFile.lines \in Seq(Lines)
        /\ acked \subseteq ToSet(eventFile.lines)
    BY <1>4, <1>6, <1>9 DEF Kept, Filed, LineFile, AcknowledgedOrRefused
  <2>3. FileFacts(eventFile'.lines)  BY <2>1, <2>2, FactsGrow DEF Kept
  <2>4. \A x : Contains(eventFile.lines, x) => Contains(eventFile'.lines, x)
    <3> DEFINE a == eventFile.lines
               b == eventFile'.lines
    <3>1. Grown(b, a, new, m) /\ Len(a) \in Nat  BY <2>1, <2>2
    <3> HIDE DEF a, b, new
    <3>2. \A k \in 1..Len(a) : k \in 1..Len(b) /\ b[k] = a[k]
      BY <3>1 DEF Grown
    <3>3. \A x : Contains(a, x) => Contains(b, x)  BY <3>2 DEF Contains
    <3> QED  BY <3>3 DEF a, b
  <2> QED  BY <2>2, <2>3, <2>4, ToSetContains
<1>10. Filed'
  BY <1>8, <1>9 DEF Filed, FileFacts
<1>11. AcknowledgedOrRefused'
  BY <1>1, <1>9 DEF AcknowledgedOrRefused
<1> QED  BY <1>7, <1>8, <1>10, <1>11 DEF Kept

LEMMA BooksRestart == ASSUME IInv, Kept, Restart PROVE Kept'
<1>1. /\ emitted' = <<>> /\ open' = {} /\ closed' = {}
      /\ spent' = spent \cup open \cup closed
      /\ UNCHANGED <<eventFile, acked, silent>>
  BY DEF Restart, files
<1>2. Log'  BY <1>1 DEF Kept, Log
<1>3. Books'  BY <1>1 DEF Books, Once
<1>4. Filed'
  <2> SUFFICES ASSUME LoadOk(eventFile)
               PROVE  FileFacts(eventFile.lines)'
    BY <1>1 DEF Filed
  <2>1. FileFacts(eventFile.lines)  BY DEF Kept, Filed
  <2>2. ASSUME NEW x \in Events, Origin(x) PROVE Origin(x)'
    <3>1. CASE Contains(emitted, x) /\ ~IsMark(x)
      <4>1. x.id \in open \cup closed
        BY <3>1
        DEF Kept, Books, Contains, IsMark, IsOpen, IsClose, Events, Kinds
      <4> QED  BY <4>1, <1>1 DEF Origin
    <3>2. CASE IsMark(x) \/ x.id \in spent  BY <3>2, <1>1 DEF Origin
    <3> QED  BY <2>2, <3>1, <3>2 DEF Origin
  <2>3. \A k \in 1..Len(eventFile.lines) : eventFile.lines[k] \in Events
    BY LinesOk DEF Kept, Log
  <2> QED  BY <1>1, <2>1, <2>2, <2>3 DEF FileFacts, Unseen
<1>5. AcknowledgedOrRefused'
  BY <1>1 DEF Kept, AcknowledgedOrRefused
<1> QED  BY <1>2, <1>3, <1>4, <1>5 DEF Kept

LEMMA BooksSteps == IInv /\ Kept /\ [Next]_vars => Kept'
<1> SUFFICES ASSUME IInv, Kept, [Next]_vars PROVE Kept'
  OBVIOUS
<1>0. CASE RunPaperLoop  BY <1>0, BooksLoop
<1>1. CASE OpenDirectly  BY <1>1, BooksOpen DEF OpenDirectly
<1>2. CASE \E i \in Ids, price \in Prices : ClosePosition(i, price)
  BY <1>2, BooksClose
<1>3. CASE MarkAccount  BY <1>3, BooksMark
<1>4. CASE AppendEvents  BY <1>4, BooksAppend
<1>5. CASE CrashInAppend  BY <1>5, BooksTorn
<1>6. CASE Restart  BY <1>6, BooksRestart
<1>7. CASE Tick \/ Crash \/ UNCHANGED vars
  <2>1. UNCHANGED <<open, closed, position, emitted, eventFile, acked, silent,
                    spent>>
    BY <1>7 DEF Tick, Crash, vars, account, files
  <2>2. /\ Books'
        /\ \A x : (Origin(x)' <=> Origin(x)) /\ (Unseen(x)' <=> Unseen(x))
    BY <2>1, BooksSame DEF Kept
  <2> QED
    BY <2>1, <2>2 DEF Kept, Log, Filed, FileFacts, AcknowledgedOrRefused
<1> QED  BY <1>0, <1>1, <1>2, <1>3, <1>4, <1>5, <1>6, <1>7 DEF Next

\* Of a replayable file each close event of a position that was not the
\* loop's has an open event for a mate.
LEMMA Replayed ==
    ASSUME NEW lines \in Seq(Events), FileFacts(lines)
    PROVE  LET events == {e \in ToSet(lines) : e.id \notin silent}
               delta == [e \in events |-> e.delta]
               gain == [e \in events |-> e.gain]
           IN  /\ \A c \in events : IsClose(c) =>
                      \E o \in events : IsOpen(o) /\ o.id = c.id
               /\ SumFunctionOnSet(delta, events)
                    = SumFunctionOnSet(gain, events)
                        + SumFunctionOnSet(delta, StillOpen(events))
<1> DEFINE E == {e \in ToSet(lines) : e.id \notin silent}
           delta == [e \in E |-> e.delta]
           gain == [e \in E |-> e.gain]
           Pairs(x, y) == \/ IsClose(x) /\ Settles(x, y)
                          \/ IsClose(y) /\ Settles(y, x)
           mate == [x \in E |-> IF \E y \in E : Pairs(x, y)
                                THEN CHOOSE y \in E : Pairs(x, y) ELSE x]
<1>1. IsFiniteSet(E)
  <2> DEFINE at == [k \in 1..Len(lines) |-> lines[k]]
             all == ToSet(lines)
  <2>1. all = {lines[k] : k \in 1..Len(lines)}  BY DEF ToSet
  <2>2. at \in Surjection(1..Len(lines), all)  BY <2>1 DEF Surjection
  <2>3. IsFiniteSet(1..Len(lines))  BY FS_Interval
  <2>4. E \in SUBSET all  OBVIOUS
  <2> HIDE DEF at, E, all
  <2>5. IsFiniteSet(all)  BY <2>2, <2>3, FS_Surjection
  <2> QED  BY <2>4, <2>5, FS_Subset
<1>2. \A x \in E : /\ x \in Events /\ ~Unseen(x)
                   /\ \E k \in 1..Len(lines) : lines[k] = x
  BY ToSetContains DEF Contains, Unseen
<1>3. \A k \in 1..Len(lines) : lines[k] \in E \/ Unseen(lines[k])
  BY ToSetContains DEF Contains, Unseen
<1> HIDE DEF E
<1>4. \A x, y \in E : Twins(x, y) => x = y
  BY <1>2 DEF FileFacts, Once
<1>5. \A x \in E : /\ Booked(x)
                   /\ IsClose(x) => \E y \in E : Settles(x, y)
  <2> SUFFICES ASSUME NEW x \in E
               PROVE  /\ Booked(x)
                      /\ IsClose(x) => \E y \in E : Settles(x, y)
    OBVIOUS
  <2>1. PICK k \in 1..Len(lines) : lines[k] = x  BY <1>2
  <2>2. Booked(x)  BY <2>1 DEF FileFacts
  <2>3. ASSUME IsClose(x) PROVE \E y \in E : Settles(x, y)
    <3>1. PICK m \in 1..Len(lines) : Settles(x, lines[m])
      BY <1>2, <2>1, <2>3 DEF FileFacts
    <3>2. ~Unseen(lines[m])  BY <1>2, <3>1 DEF Settles, Unseen
    <3> QED  BY <1>3, <3>1, <3>2
  <2> QED  BY <2>2, <2>3
<1>6. ASSUME NEW x \in E, NEW y \in E, NEW z \in E, Pairs(x, y), Pairs(x, z)
      PROVE  y = z
  <2>1. Twins(y, z)
    BY <1>6 DEF Twins, Settles, IsOpen, IsClose, IsMark
  <2> QED  BY <2>1, <1>4
<1>7. ASSUME NEW x \in E, NEW y \in E, Pairs(x, y)
      PROVE  /\ mate[x] = y /\ mate[y] = x /\ x # y
             /\ x \notin StillOpen(E)
             /\ x.delta + y.delta = x.gain + y.gain
  <2>1. Pairs(y, x)  BY <1>7
  <2>2. \A u, v \in E : Pairs(u, v) => mate[u] = v
    <3> SUFFICES ASSUME NEW u \in E, NEW v \in E, Pairs(u, v)
                 PROVE  mate[u] = v
      OBVIOUS
    <3> DEFINE w == CHOOSE z \in E : Pairs(u, z)
    <3>1. w \in E /\ Pairs(u, w)  OBVIOUS
    <3>2. mate[u] = w  OBVIOUS
    <3> HIDE DEF w, mate, Pairs
    <3> QED  BY <3>1, <3>2, <1>6
  <2>3. x # y  BY <1>7 DEF Settles, IsOpen, IsClose
  <2>4. x \notin StillOpen(E)
    BY <1>7 DEF StillOpen, Settles, IsOpen, IsClose
  <2>5. x.delta + y.delta = x.gain + y.gain
    <3>1. /\ x.delta \in Int /\ y.delta \in Int
          /\ x.gain \in Int /\ y.gain \in Int
      BY <1>2 DEF Events
    <3>2. CASE IsClose(x) /\ Settles(x, y)
      <4>1. y.gain = 0  BY <3>2, <1>5 DEF Booked, Settles
      <4> QED  BY <3>1, <3>2, <4>1 DEF Settles
    <3>3. CASE IsClose(y) /\ Settles(y, x)
      <4>1. x.gain = 0  BY <3>3, <1>5 DEF Booked, Settles
      <4> QED  BY <3>1, <3>3, <4>1 DEF Settles
    <3> QED  BY <1>7, <3>2, <3>3
  <2> HIDE DEF mate, Pairs
  <2> QED  BY <1>7, <2>1, <2>2, <2>3, <2>4, <2>5
<1>8. ASSUME NEW x \in E, ~\E y \in E : Pairs(x, y)
      PROVE  /\ mate[x] = x
             /\ IF x \in StillOpen(E) THEN x.gain = 0 ELSE x.delta = x.gain
  <2>1. mate[x] = x  BY <1>8
  <2> HIDE DEF mate
  <2>2. ~IsClose(x)  BY <1>5, <1>8
  <2>3. CASE IsOpen(x)
    <3>1. x.gain = 0  BY <2>3, <1>5 DEF Booked
    <3>2. ASSUME NEW f \in E, IsClose(f), f.id = x.id PROVE FALSE
      <4>1. PICK o \in E : Settles(f, o)  BY <1>5, <3>2
      <4>2. Twins(o, x)
        BY <4>1, <2>3, <3>2 DEF Settles, Twins, IsOpen, IsMark
      <4>3. o = x  BY <4>2, <1>4
      <4> QED  BY <4>1, <4>3, <3>2, <1>8
    <3>3. x \in StillOpen(E)
      BY <2>3, <3>2 DEF StillOpen, IsOpen, IsClose
    <3> QED  BY <2>1, <3>1, <3>3
  <2>4. CASE IsMark(x)
    <3>1. x.gain = 0 /\ x.delta = 0  BY <2>4, <1>5 DEF Booked
    <3> QED  BY <2>1, <3>1
  <2> QED
    BY <2>2, <2>3, <2>4, <1>2 DEF IsOpen, IsClose, IsMark, Events, Kinds
<1>9. StillOpen(E) \in SUBSET E  BY DEF StillOpen
<1>10. Mates(mate, E, delta, gain, StillOpen(E))
  <2> SUFFICES ASSUME NEW x \in E
      PROVE /\ delta[x] \in Int /\ gain[x] \in Int
            /\ mate[x] \in E /\ mate[mate[x]] = x
            /\ mate[x] = x => IF x \in StillOpen(E) THEN gain[x] = 0
                              ELSE delta[x] = gain[x]
            /\ mate[x] # x => /\ x \notin StillOpen(E)
                              /\ delta[x] + delta[mate[x]]
                                   = gain[x] + gain[mate[x]]
    BY DEF Mates
  <2>1. \A y \in E : delta[y] = y.delta /\ gain[y] = y.gain  OBVIOUS
  <2>2. delta[x] \in Int /\ gain[x] \in Int  BY <2>1, <1>2 DEF Events
  <2>3. CASE \E y \in E : Pairs(x, y)
    <3>1. PICK y \in E : Pairs(x, y)  BY <2>3
    <3> HIDE DEF mate, delta, gain, Pairs
    <3> QED  BY <3>1, <2>1, <2>2, <1>7
  <2>4. CASE ~\E y \in E : Pairs(x, y)
    <3>1. /\ mate[x] = x
          /\ IF x \in StillOpen(E) THEN x.gain = 0 ELSE x.delta = x.gain
      BY <2>4, <1>8
    <3> HIDE DEF mate, delta, gain, Pairs
    <3> QED  BY <3>1, <2>1, <2>2
  <2> QED  BY <2>3, <2>4
<1> HIDE DEF mate, delta, gain
<1>11. SumFunctionOnSet(delta, E)
          = SumFunctionOnSet(gain, E) + SumFunctionOnSet(delta, StillOpen(E))
  BY <1>1, <1>9, <1>10, SumBalance
<1>12. \A c \in E : IsClose(c) => \E o \in E : IsOpen(o) /\ o.id = c.id
  BY <1>5 DEF Settles
<1> QED  BY <1>11, <1>12 DEF E, delta, gain

\* The balance and the absence of doubles follow from the invariant.
LEMMA KeptReplays == Kept => ReplayBalances
<1> SUFFICES ASSUME Kept, LoadOk(eventFile)
             PROVE  LET events == {e \in Known(eventFile) : e.id \notin silent}
                        delta == [e \in events |-> e.delta]
                        gain == [e \in events |-> e.gain]
                    IN  /\ IsInjective(eventFile.lines)
                        /\ \A c \in events : IsClose(c) =>
                              \E o \in events : IsOpen(o) /\ o.id = c.id
                        /\ SumFunction(delta)
                             = SumFunction(gain)
                                 + SumFunctionOnSet(delta, StillOpen(events))
  BY DEF ReplayBalances, IsOpen, IsClose
<1> DEFINE lines == eventFile.lines
<1>1. lines \in Seq(Events) /\ FileFacts(lines)
  BY LinesOk DEF Kept, Log, Filed
<1>2. Known(eventFile) = ToSet(lines)
  BY <1>1, CorruptIsNoEvent, ToSetContains DEF Known, Contains
<1>3. IsInjective(lines)  BY <1>1 DEF FileFacts, Once, IsInjective
<1> QED  BY <1>1, <1>2, <1>3, Replayed DEF SumFunction

\* The invariant holds throughout.
LEMMA KeptHolds == Spec => []Kept
  BY Initially, BooksInit, Steps, BooksSteps, PTL DEF Spec

\* However often appends were repeated, cut off by a crash or followed by a
\* new process, a file that loads holds no event twice, closes without an
\* open only positions of the paper loop, and the cash movements of all other
\* positions add up to their profits less the cost of what is still open
\* (storage.py:187, replay_events_summary).
THEOREM ReplayIsBalanced == Spec => []ReplayBalances
  BY KeptHolds, KeptReplays, PTL

\* An event of an append that returned ok is in every later load that does
\* not refuse the file (storage.py:18-21).
THEOREM AcknowledgedIsKept == Spec => []AcknowledgedOrRefused
<1>1. Kept => AcknowledgedOrRefused  BY DEF Kept
<1> QED  BY <1>1, KeptHolds, PTL

(***************************************************************************)
(* The historical store: types.                                            *)
(***************************************************************************)

Stages == {"off", "claim", "unlink", "reset", "plan", "fetch", "merge",
           "write", "cover", "release"}

LEMMA AtType == ASSUME NEW stage \in Stages PROVE At(stage) \in RunStates
  BY DEF At, Stages, RunStates

\* One run changes, to a state of a run.
LEMMA OneRun == ASSUME runs \in [Runners -> RunStates],
                       NEW p \in Runners, NEW r \in RunStates,
                       runs' = [runs EXCEPT ![p] = r]
                PROVE  runs' \in [Runners -> RunStates]
  OBVIOUS

LEMMA RunsType ==
  ASSUME HistTypeOK, NEW p \in Runners,
         \/ Begin(p) \/ Claim(p) \/ Refuse(p) \/ Release(p) \/ Unlink(p)
         \/ Reset(p) \/ Plan(p) \/ Fetch(p) \/ Merge(p) \/ Write(p)
         \/ Cover(p) \/ Fail(p) \/ Die(p)
  PROVE  runs' \in [Runners -> RunStates]
<1>1. runs \in [Runners -> RunStates] /\ runs[p] \in RunStates
      /\ newest \in Nat /\ bars \subseteq Nat /\ covered \subseteq Nat
  BY DEF HistTypeOK
<1>2. \A stage \in Stages : At(stage) \in RunStates  BY AtType
<1>3. At("release") \in RunStates /\ Off \in RunStates
  BY <1>2 DEF Off, Stages
<1>4. \A stage \in Stages : [runs[p] EXCEPT !.at = stage] \in RunStates
  BY <1>1 DEF Stages, RunStates
<1>5. \A stage \in Stages :
         Goes(p, stage) => runs' \in [Runners -> RunStates]
  <2>1. ASSUME NEW stage \in Stages, Goes(p, stage)
        PROVE  runs' = [runs EXCEPT ![p] = [runs[p] EXCEPT !.at = stage]]
    BY <2>1 DEF Goes
  <2> QED  BY <2>1, <1>1, <1>4, OneRun
<1>6. Ends(p) => runs' \in [Runners -> RunStates]
  BY <1>1, <1>3, OneRun DEF Ends
<1>7. CASE Begin(p)
  <2> DEFINE r == [At("claim") EXCEPT !.started = newest]
  <2>1. r \in RunStates  BY <1>1, <1>2 DEF Stages, RunStates
  <2>2. runs' = [runs EXCEPT ![p] = r]  BY <1>7 DEF Begin
  <2> QED  BY <2>1, <2>2, <1>1, OneRun
<1>8. CASE Claim(p)
  <2>1. PICK mode \in Modes :
           runs' = [runs EXCEPT ![p].mode = mode,
                       ![p].at = IF mode = "force_rebuild" THEN "unlink"
                                 ELSE "plan"]
    BY <1>8 DEF Claim
  <2> DEFINE r == [runs[p] EXCEPT !.mode = mode,
                      !.at = IF mode = "force_rebuild" THEN "unlink"
                             ELSE "plan"]
  <2>2. r \in RunStates  BY <1>1 DEF RunStates
  <2>3. runs' = [runs EXCEPT ![p] = r]  BY <2>1
  <2> QED  BY <2>2, <2>3, <1>1, OneRun
<1>9. CASE Refuse(p) \/ Release(p) \/ Die(p)
  BY <1>9, <1>1, <1>3, OneRun DEF Refuse, Release, Die
<1>10. CASE Unlink(p)  BY <1>10, <1>5 DEF Unlink, Stages
<1>11. CASE Reset(p)
  <2> DEFINE r == [runs[p] EXCEPT !.at = "plan", !.mode = "backfill"]
  <2>1. r \in RunStates  BY <1>1 DEF RunStates, Modes
  <2>2. runs' = [runs EXCEPT ![p] = r]  BY <1>11 DEF Reset
  <2> QED  BY <2>1, <2>2, <1>1, OneRun
<1>12. CASE Plan(p)
  <2>1. CASE Ends(p)  BY <2>1, <1>6
  <2>2. CASE ~Ends(p)
    <3> DEFINE r == [runs[p] EXCEPT !.at = "fetch", !.asked = Asked(p)]
    <3>1. Asked(p) \subseteq Nat  BY <1>1 DEF Asked, Present, RunStates
    <3>2. r \in RunStates  BY <3>1, <1>1 DEF RunStates
    <3>3. runs' = [runs EXCEPT ![p] = r]  BY <1>12, <2>2 DEF Plan
    <3> QED  BY <3>2, <3>3, <1>1, OneRun
  <2> QED  BY <2>1, <2>2
<1>13. CASE Fetch(p)
  <2>1. CASE Ends(p)  BY <2>1, <1>6
  <2>2. CASE ~Ends(p)
    <3>1. PICK omitted, bad \in SUBSET Clamped(p) :
             LET good == Clamped(p) \ (omitted \cup bad)
             IN  runs' = [runs EXCEPT ![p] = [At("merge") EXCEPT
                     !.mode = runs[p].mode, !.started = runs[p].started,
                     !.good = good, !.bad = bad,
                     !.lost = runs[p].asked \ good]]
      BY <1>13, <2>2 DEF Fetch
    <3> DEFINE good == Clamped(p) \ (omitted \cup bad)
               r == [At("merge") EXCEPT
                     !.mode = runs[p].mode, !.started = runs[p].started,
                     !.good = good, !.bad = bad,
                     !.lost = runs[p].asked \ good]
    <3>2. Clamped(p) \subseteq Nat /\ runs[p].asked \subseteq Nat
      BY <1>1 DEF Clamped, RunStates
    <3>3. r \in RunStates
      BY <3>2, <1>1 DEF RunStates, At
    <3> QED  BY <3>1, <3>3, <1>1, OneRun
  <2> QED  BY <2>1, <2>2
<1>14. CASE Merge(p)
  <2>1. CASE Ends(p)  BY <2>1, <1>6
  <2>2. CASE ~Ends(p)
    <3>1. PICK misread \in BOOLEAN :
             LET base == IF Merges(p) /\ ~misread THEN bars ELSE {}
                 file == (base \ runs[p].bad) \cup runs[p].good
             IN  runs' = [runs EXCEPT ![p].at = "write", ![p].good = {},
                                      ![p].lost = Lacking(p, base),
                                      ![p].file = file, ![p].misread = misread]
      BY <1>14, <2>2 DEF Merge
    <3> DEFINE base == IF Merges(p) /\ ~misread THEN bars ELSE {}
               file == (base \ runs[p].bad) \cup runs[p].good
               lacks == Lacking(p, base)
               r == [runs[p] EXCEPT !.at = "write", !.good = {},
                                    !.lost = lacks,
                                    !.file = file, !.misread = misread]
    <3>2. file \subseteq Nat /\ lacks \subseteq Nat
      <4>1. file \subseteq Nat  BY <1>1 DEF RunStates
      <4>2. excused \subseteq Nat /\ 1..newest \subseteq Nat
        BY <1>1 DEF HistTypeOK
      <4>3. runs[p].lost \subseteq Nat  BY <1>1 DEF RunStates
      <4>4. lacks \subseteq runs[p].lost \cup excused \cup 1..newest
        BY DEF Lacking
      <4> QED  BY <4>1, <4>2, <4>3, <4>4
    <3>3. r \in RunStates
      <4> HIDE DEF file, lacks
      <4> QED  BY <3>2, <1>1 DEF RunStates
    <3>4. runs' = [runs EXCEPT ![p] = r]  BY <3>1
    <3> QED  BY <3>3, <3>4, <1>1, OneRun
  <2> QED  BY <2>1, <2>2
<1>15. CASE Write(p)
  <2> DEFINE r == [At("cover") EXCEPT !.file = runs[p].file]
  <2>1. r \in RunStates  BY <1>1 DEF RunStates, At
  <2>2. runs' = [runs EXCEPT ![p] = r]  BY <1>15 DEF Write
  <2> QED  BY <2>1, <2>2, <1>1, OneRun
<1>16. CASE Cover(p) \/ Fail(p)  BY <1>16, <1>6 DEF Cover, Fail
<1> QED  BY <1>7, <1>8, <1>9, <1>10, <1>11, <1>12, <1>13, <1>14, <1>15, <1>16

LEMMA TypesStep == HistTypeOK /\ [HistNext]_histVars => HistTypeOK'
<1> SUFFICES ASSUME HistTypeOK, [HistNext]_histVars PROVE HistTypeOK'
  OBVIOUS
<1> USE DEF HistTypeOK
<1>1. CASE HistTick  BY <1>1 DEF HistTick, store, ghosts
<1>2. CASE UNCHANGED histVars  BY <1>2 DEF histVars, ghosts
<1>3. ASSUME NEW p \in Runners,
             \/ Begin(p) \/ Plan(p) \/ Fetch(p) \/ Merge(p)
      PROVE  HistTypeOK'
  <2>1. UNCHANGED <<newest, lock, store, ghosts>>
    BY <1>3 DEF Begin, Plan, Fetch, Merge
  <2>2. runs' \in [Runners -> RunStates]  BY <1>3, RunsType
  <2> QED  BY <2>1, <2>2 DEF store, ghosts
<1>4. ASSUME NEW p \in Runners,
             \/ Claim(p) \/ Refuse(p) \/ Release(p) \/ Fail(p) \/ Die(p)
      PROVE  HistTypeOK'
  <2>1. /\ UNCHANGED <<newest, bars, covered, author, crossed, excused>>
        /\ lock' \in {lock, [owner |-> p, until |-> newest + Lease],
                     [owner |-> NoOwner, until |-> 0],
                     [lock EXCEPT !.owner = Gone]}
    BY <1>4 DEF Claim, Refuse, Release, Fail, Die, store, ghosts
  <2>2. overlong' \in BOOLEAN
    BY <1>4 DEF Claim, Refuse, Release, Fail, Die, ghosts
  <2>3. runs' \in [Runners -> RunStates]  BY <1>4, RunsType
  <2> QED  BY <2>1, <2>2, <2>3, HistoricalStoreAssumption
<1>5. ASSUME NEW p \in Runners,
             \/ Unlink(p) \/ Reset(p) \/ Write(p) \/ Cover(p)
      PROVE  HistTypeOK'
  <2>1. runs[p] \in RunStates  OBVIOUS
  <2>2. UNCHANGED <<newest, lock>>  BY <1>5 DEF Unlink, Reset, Write, Cover
  <2>3. bars' \subseteq Nat /\ covered' \subseteq Nat /\ excused' \subseteq Nat
    BY <1>5, <2>1 DEF Unlink, Reset, Write, Cover, Extent, RunStates
  <2>4. /\ overlong' \in BOOLEAN /\ crossed' \in BOOLEAN
        /\ author' \in Runners \cup {NoOwner}
    BY <1>5 DEF Unlink, Reset, Write, Cover, RowWritten
  <2>5. runs' \in [Runners -> RunStates]  BY <1>5, RunsType
  <2> QED  BY <2>2, <2>3, <2>4, <2>5
<1> QED  BY <1>1, <1>2, <1>3, <1>4, <1>5 DEF HistNext

LEMMA TypesInit == HistInit => HistTypeOK
<1>1. Off \in RunStates  BY AtType DEF Off, Stages
<1> SUFFICES ASSUME HistInit PROVE HistTypeOK
  OBVIOUS
<1>2. lock \in [owner : Runners \cup {NoOwner, Gone}, until : Nat]
  BY DEF HistInit
<1>3. runs \in [Runners -> RunStates]  BY <1>1 DEF HistInit
<1> QED  BY <1>2, <1>3 DEF HistInit, HistTypeOK

\* The store, the lock row and the locals of every run keep to their types
\* (refresh.py:178, run).
THEOREM HistTypes == HistSpec => []HistTypeOK
  BY TypesInit, TypesStep, PTL DEF HistSpec

(***************************************************************************)
(* Exclusion.                                                              *)
(***************************************************************************)

RunStep(p) ==
    \/ Begin(p) \/ Claim(p) \/ Refuse(p) \/ Release(p) \/ Unlink(p)
    \/ Reset(p) \/ Plan(p) \/ Fetch(p) \/ Merge(p) \/ Write(p)
    \/ Cover(p) \/ Fail(p) \/ Die(p)

LEMMA HistSteps == HistNext <=> HistTick \/ \E p \in Runners : RunStep(p)
  BY DEF HistNext, RunStep

\* A step of one run leaves the others where they are.
LEMMA OtherRuns == ASSUME HistTypeOK, NEW p \in Runners, RunStep(p)
                PROVE  \A q \in Runners \ {p} : runs'[q] = runs[q]
<1>1. runs \in [Runners -> RunStates]  BY DEF HistTypeOK
<1>2. CASE \/ Begin(p) \/ Claim(p) \/ Refuse(p) \/ Release(p) \/ Unlink(p)
          \/ Reset(p)
  BY <1>1, <1>2 DEF Begin, Claim, Refuse, Release, Unlink, Reset, Goes
<1>3. CASE Plan(p) \/ Fetch(p)  BY <1>1, <1>3 DEF Plan, Fetch, Ends
<1>4. CASE Merge(p)  BY <1>1, <1>4 DEF Merge, Ends
<1>5. CASE Write(p) \/ Cover(p) \/ Fail(p) \/ Die(p)
  BY <1>1, <1>5 DEF Write, Cover, Fail, Die, Ends
<1> QED  BY <1>2, <1>3, <1>4, <1>5 DEF RunStep

\* The stage a step leads to.
LEMMA NextStage ==
  ASSUME HistTypeOK, NEW p \in Runners
  PROVE  /\ Begin(p) => runs[p].at = "off" /\ runs'[p].at = "claim"
         /\ Claim(p) => /\ runs[p].at = "claim"
                        /\ runs'[p].at \in {"unlink", "plan"}
         /\ Refuse(p) => runs[p].at = "claim" /\ runs'[p].at = "off"
         /\ Release(p) => runs[p].at = "release" /\ runs'[p].at = "off"
         /\ Unlink(p) => runs[p].at = "unlink" /\ runs'[p].at = "reset"
         /\ Reset(p) => runs[p].at = "reset" /\ runs'[p].at = "plan"
         /\ Plan(p) => /\ runs[p].at = "plan"
                       /\ runs'[p].at \in {"fetch", "release"}
         /\ Fetch(p) => /\ runs[p].at = "fetch"
                        /\ runs'[p].at \in {"merge", "release"}
         /\ Merge(p) => /\ runs[p].at = "merge"
                        /\ runs'[p].at \in {"write", "release"}
         /\ Write(p) => runs[p].at = "write" /\ runs'[p].at = "cover"
         /\ Cover(p) => runs[p].at = "cover" /\ runs'[p].at = "release"
         /\ Fail(p) => /\ runs[p].at \notin {"off", "claim", "release"}
                       /\ runs'[p].at = "release"
         /\ Die(p) => runs[p].at # "off" /\ runs'[p].at = "off"
<1>1. runs \in [Runners -> RunStates] /\ runs[p] \in RunStates
  BY DEF HistTypeOK
<1>2. Begin(p) => runs[p].at = "off" /\ runs'[p].at = "claim"
  BY <1>1 DEF Begin, At
<1>3. Claim(p) => runs[p].at = "claim" /\ runs'[p].at \in {"unlink", "plan"}
  BY <1>1 DEF Claim, RunStates
<1>4. /\ Refuse(p) => runs[p].at = "claim" /\ runs'[p].at = "off"
      /\ Release(p) => runs[p].at = "release" /\ runs'[p].at = "off"
      /\ Die(p) => runs[p].at # "off" /\ runs'[p].at = "off"
  BY <1>1 DEF Refuse, Release, Die, Off, At
<1>5. /\ Unlink(p) => runs[p].at = "unlink" /\ runs'[p].at = "reset"
      /\ Reset(p) => runs[p].at = "reset" /\ runs'[p].at = "plan"
  BY <1>1 DEF Unlink, Reset, Goes, RunStates
<1>6. Plan(p) => runs[p].at = "plan" /\ runs'[p].at \in {"fetch", "release"}
  BY <1>1 DEF Plan, Ends, At, RunStates
<1>7. Fetch(p) => runs[p].at = "fetch" /\ runs'[p].at \in {"merge", "release"}
  <2>1. Fetch(p) => runs[p].at = "fetch"  BY DEF Fetch
  <2>2. Ends(p) => runs'[p].at = "release"  BY <1>1 DEF Ends, At
  <2>3. ASSUME Fetch(p), ~Ends(p)
        PROVE  runs'[p].at = "merge"
    <3>1. PICK omitted, bad \in SUBSET Clamped(p) :
             LET good == Clamped(p) \ (omitted \cup bad)
             IN  runs' = [runs EXCEPT ![p] = [At("merge") EXCEPT
                     !.mode = runs[p].mode, !.started = runs[p].started,
                     !.good = good, !.bad = bad,
                     !.lost = runs[p].asked \ good]]
      BY <2>3 DEF Fetch
    <3> QED  BY <3>1, <1>1 DEF At
  <2> QED  BY <2>1, <2>2, <2>3
<1>8. Merge(p) => runs[p].at = "merge" /\ runs'[p].at \in {"write", "release"}
  BY <1>1 DEF Merge, Ends, At, RunStates
<1>9. /\ Write(p) => runs[p].at = "write" /\ runs'[p].at = "cover"
      /\ Cover(p) => runs[p].at = "cover" /\ runs'[p].at = "release"
      /\ Fail(p) => /\ runs[p].at \notin {"off", "claim", "release"}
                    /\ runs'[p].at = "release"
  BY <1>1 DEF Write, Cover, Fail, Ends, At, Inside
<1> QED  BY <1>2, <1>3, <1>4, <1>5, <1>6, <1>7, <1>8, <1>9

\* Outside an overlap the row names the one run that is inside.
ExclusiveRow == ~overlong => Inside \subseteq {lock.owner}

LEMMA ExclusiveStep ==
  HistTypeOK /\ ExclusiveRow /\ [HistNext]_histVars => ExclusiveRow'
<1> SUFFICES ASSUME HistTypeOK, ExclusiveRow, [HistNext]_histVars, ~overlong'
             PROVE  Inside' \subseteq {lock'.owner}
  BY DEF ExclusiveRow
<1>1. CASE HistTick
  BY <1>1 DEF HistTick, ExclusiveRow, Inside, ghosts
<1>2. CASE UNCHANGED histVars
  BY <1>2 DEF histVars, ghosts, ExclusiveRow, Inside
<1>3. ASSUME NEW p \in Runners, RunStep(p)
      PROVE  Inside' \subseteq {lock'.owner}
  <2>1. \A q \in Runners \ {p} : runs'[q] = runs[q]  BY <1>3, OtherRuns
  <2>2. Inside' \subseteq Inside \cup {p}  BY <2>1 DEF Inside
  <2>3. CASE Claim(p)
    <3>1. ~overlong /\ lock'.owner = p  BY <2>3 DEF Claim
    <3>2. lock.owner \notin Inside
      BY <2>3 DEF Claim, Claimable, Inside
    <3>3. Inside = {}  BY <3>1, <3>2 DEF ExclusiveRow
    <3> QED  BY <2>2, <3>1, <3>3
  <2>4. CASE Release(p) \/ Die(p)
    <3>1. runs'[p].at = "off"  BY <2>4, NextStage
    <3>2. Inside' \subseteq Inside \ {p}  BY <2>2, <3>1 DEF Inside
    <3>3. CASE overlong
      <4>1. Inside \ {p} = {}  BY <2>4, <3>3 DEF Release, Die
      <4> QED  BY <3>2, <4>1
    <3>4. CASE ~overlong
      <4>1. CASE Release(p)
        <5>1. p \in Inside  BY <4>1 DEF Release, Inside
        <5> QED  BY <5>1, <3>2, <3>4 DEF ExclusiveRow
      <4>2. CASE Die(p)
        <5>1. CASE lock.owner = p  BY <5>1, <3>2, <3>4 DEF ExclusiveRow
        <5>2. CASE lock.owner # p
          BY <5>2, <4>2, <3>2, <3>4 DEF ExclusiveRow, Die
        <5> QED  BY <5>1, <5>2
      <4> QED  BY <2>4, <4>1, <4>2
    <3> QED  BY <3>3, <3>4
  <2>5. CASE \/ Begin(p) \/ Refuse(p)
    <3>1. runs'[p].at \in {"off", "claim"}  BY <2>5, NextStage
    <3>2. Inside' \subseteq Inside  BY <2>2, <3>1 DEF Inside
    <3> QED  BY <2>5, <3>2 DEF Begin, Refuse, ghosts, ExclusiveRow
  <2>6. CASE \/ Unlink(p) \/ Reset(p) \/ Plan(p) \/ Fetch(p) \/ Merge(p)
            \/ Write(p) \/ Cover(p) \/ Fail(p)
    <3>1. runs[p].at \notin {"off", "claim"}  BY <2>6, NextStage
    <3>2. Inside' \subseteq Inside  BY <2>2, <3>1 DEF Inside
    <3>3. UNCHANGED <<lock, overlong>>
      BY <2>6 DEF Unlink, Reset, Plan, Fetch, Merge, Write, Cover, Fail, ghosts
    <3> QED  BY <3>2, <3>3 DEF ExclusiveRow
  <2> QED  BY <1>3, <2>3, <2>4, <2>5, <2>6 DEF RunStep
<1> QED  BY <1>1, <1>2, <1>3, HistSteps

LEMMA ExclusiveInit == HistInit => ExclusiveRow
  BY DEF HistInit, ExclusiveRow, Inside, Off, At

\* However many processes refresh, and whichever of them die: as long as none
\* has been overtaken after its lease, no two are between the taking and the
\* giving back of the lock row (refresh.py:77, acquire_lock).
THEOREM Exclusion == HistSpec => []RefreshesExclude
<1>1. ExclusiveRow => RefreshesExclude  BY DEF ExclusiveRow, RefreshesExclude
<1> QED
  BY <1>1, TypesInit, TypesStep, ExclusiveInit, ExclusiveStep, PTL DEF HistSpec

(***************************************************************************)
(* The row and the file.                                                   *)
(***************************************************************************)

\* What a reply makes of the range asked for.
LEMMA FetchEffect ==
  ASSUME HistTypeOK, NEW p \in Runners, Fetch(p), ~Ends(p)
  PROVE  /\ runs'[p].mode = runs[p].mode
         /\ runs'[p].started = runs[p].started
         /\ runs'[p].good \cup runs'[p].lost = runs[p].asked
         /\ runs'[p].bad \subseteq runs'[p].lost
         /\ runs'[p].asked = {} /\ runs'[p].file = {}
<1>1. runs \in [Runners -> RunStates]  BY DEF HistTypeOK
<1>2. PICK omitted, bad \in SUBSET Clamped(p) :
         LET good == Clamped(p) \ (omitted \cup bad)
         IN  runs' = [runs EXCEPT ![p] = [At("merge") EXCEPT
                 !.mode = runs[p].mode, !.started = runs[p].started,
                 !.good = good, !.bad = bad,
                 !.lost = runs[p].asked \ good]]
  BY DEF Fetch
<1> DEFINE good == Clamped(p) \ (omitted \cup bad)
<1>3. /\ runs'[p].mode = runs[p].mode /\ runs'[p].started = runs[p].started
      /\ runs'[p].good = good /\ runs'[p].bad = bad
      /\ runs'[p].lost = runs[p].asked \ good
      /\ runs'[p].asked = {} /\ runs'[p].file = {}
  BY <1>1, <1>2 DEF At
<1>4. Clamped(p) \subseteq runs[p].asked  BY DEF Clamped
<1> QED  BY <1>3, <1>4

\* The file a run is about to write.
LEMMA MergeEffect ==
  ASSUME HistTypeOK, NEW p \in Runners, Merge(p), ~Ends(p)
  PROVE  /\ runs'[p].mode = runs[p].mode
         /\ runs'[p].started = runs[p].started
         /\ runs'[p].bad = runs[p].bad
         /\ runs'[p].asked = runs[p].asked /\ runs'[p].good = {}
         /\ \E base \in {bars, {}} :
              /\ runs'[p].file = (base \ runs[p].bad) \cup runs[p].good
              /\ runs'[p].lost = Lacking(p, base)
              /\ base # {} => runs[p].mode \notin Replacing
              /\ \/ runs[p].mode \in Replacing \/ bars = {}
                 \/ runs'[p].misread \/ base = bars
<1>1. runs \in [Runners -> RunStates] /\ runs[p] \in RunStates
  BY DEF HistTypeOK
<1>2. PICK misread \in BOOLEAN :
         LET base == IF Merges(p) /\ ~misread THEN bars ELSE {}
             file == (base \ runs[p].bad) \cup runs[p].good
         IN  runs' = [runs EXCEPT ![p].at = "write", ![p].good = {},
                                  ![p].lost = Lacking(p, base),
                                  ![p].file = file, ![p].misread = misread]
  BY DEF Merge
<1> DEFINE base == IF Merges(p) /\ ~misread THEN bars ELSE {}
           file == (base \ runs[p].bad) \cup runs[p].good
           lacks == Lacking(p, base)
<1>3. /\ runs'[p].mode = runs[p].mode /\ runs'[p].started = runs[p].started
      /\ runs'[p].bad = runs[p].bad /\ runs'[p].lost = lacks
      /\ runs'[p].file = file /\ runs'[p].misread = misread
      /\ runs'[p].asked = runs[p].asked /\ runs'[p].good = {}
  <2> HIDE DEF file, lacks
  <2>1. runs' = [runs EXCEPT ![p].at = "write", ![p].good = {},
                             ![p].lost = lacks,
                             ![p].file = file, ![p].misread = misread]
    BY <1>2 DEF file, lacks
  <2> QED  BY <1>1, <2>1 DEF RunStates
<1>4. base \in {bars, {}}  OBVIOUS
<1>5. /\ base # {} => runs[p].mode \notin Replacing
      /\ \/ runs[p].mode \in Replacing \/ bars = {} \/ misread
         \/ base = bars
  BY DEF Merges
<1> QED  BY <1>3, <1>4, <1>5

\* The file written owes nothing to the one before.
Anew(p) == runs[p].mode \in Replacing \/ bars = {} \/ runs[p].misread

\* What holds of a run at its steps: the file is as its author left it, and
\* what a run fetched is the range from the overlap with the row on.
StageFacts(p) ==
    /\ runs[p].at = "unlink" => runs[p].mode = "force_rebuild"
    /\ runs[p].at = "merge" => runs[p].bad \subseteq runs[p].lost
    /\ author = p =>
         /\ runs[p].at = "reset" => bars = {}
         /\ runs[p].at = "cover" => bars = runs[p].file
    /\ ~overlong =>
         /\ runs[p].at \in {"reset", "cover"} => author = p
         /\ runs[p].at = "fetch" => runs[p].asked = Asked(p)
         /\ runs[p].at = "merge" =>
              runs[p].good \cup runs[p].lost = Asked(p)
         /\ runs[p].at = "write" /\ ~Anew(p) =>
              bars \ runs[p].file \subseteq runs[p].bad

\* Nobody else changes anything a run inside relies on.
LEMMA Alone ==
  ASSUME HistTypeOK, ExclusiveRow, NEW p \in Runners, RunStep(p), ~overlong',
         NEW q \in Runners \ {p}, q \in Inside'
  PROVE  /\ ~overlong /\ UNCHANGED <<bars, covered, author>>
         /\ runs'[q] = runs[q]
<1>1. runs'[q] = runs[q]  BY OtherRuns
<1>2. q \in Inside  BY <1>1 DEF Inside
<1>3. ~overlong
  <2>1. CASE Release(p) \/ Die(p)  BY <2>1, <1>2 DEF Release, Die
  <2>2. CASE Claim(p)  BY <2>2 DEF Claim
  <2>3. CASE \/ Begin(p) \/ Refuse(p) \/ Plan(p) \/ Fetch(p) \/ Merge(p)
    BY <2>3 DEF Begin, Refuse, Plan, Fetch, Merge, ghosts
  <2>4. CASE \/ Unlink(p) \/ Reset(p) \/ Write(p) \/ Cover(p) \/ Fail(p)
    BY <2>4 DEF Unlink, Reset, Write, Cover, Fail, ghosts
  <2> QED  BY <2>1, <2>2, <2>3, <2>4 DEF RunStep
<1>4. p \notin Inside  BY <1>2, <1>3 DEF ExclusiveRow
<1>5. runs[p].at \in {"off", "claim"}  BY <1>4 DEF Inside
<1>6. Begin(p) \/ Claim(p) \/ Refuse(p) \/ Die(p)
  BY <1>5, NextStage DEF RunStep
<1>7. UNCHANGED <<bars, covered, author>>
  BY <1>6 DEF Begin, Claim, Refuse, Die, store, ghosts
<1> QED  BY <1>1, <1>3, <1>7

\* A step of another run leaves the file to its author, or takes its place.
LEMMA AuthorStep ==
  ASSUME NEW p \in Runners, RunStep(p), NEW q \in Runners \ {p}, author' = q
  PROVE  author = q /\ bars' = bars
<1>1. q # NoOwner  BY HistoricalStoreAssumption
<1>2. CASE \/ Begin(p) \/ Claim(p) \/ Refuse(p) \/ Release(p) \/ Plan(p)
          \/ Fetch(p) \/ Merge(p) \/ Fail(p) \/ Die(p)
  BY <1>2 DEF Begin, Claim, Refuse, Release, Plan, Fetch, Merge, Fail, Die,
              store, ghosts
<1>3. CASE Reset(p) \/ Cover(p)
  BY <1>1, <1>3 DEF Reset, Cover, RowWritten
<1>4. CASE Unlink(p) \/ Write(p)  BY <1>4 DEF Unlink, Write
<1> QED  BY <1>2, <1>3, <1>4 DEF RunStep

LEMMA StageFactsStep ==
  ASSUME HistTypeOK, ExclusiveRow, \A q \in Runners : StageFacts(q),
         [HistNext]_histVars
  PROVE  \A q \in Runners : StageFacts(q)'
<1>1. runs \in [Runners -> RunStates]  BY DEF HistTypeOK
<1>2. CASE HistTick \/ UNCHANGED histVars
  <2>1. UNCHANGED <<bars, covered, runs, overlong, author>>
    BY <1>2 DEF HistTick, histVars, store, ghosts
  <2>2. \A q \in Runners : Asked(q)' = Asked(q) /\ Anew(q)' = Anew(q)
    BY <2>1 DEF Asked, Present, Anew
  <2> QED  BY <2>1, <2>2 DEF StageFacts
<1>3. ASSUME NEW p \in Runners, RunStep(p), NEW q \in Runners \ {p}
      PROVE  StageFacts(q)'
  <2>1. runs'[q] = runs[q]  BY <1>3, OtherRuns
  <2>2. CASE overlong'
    <3>1. author' = q => author = q /\ bars' = bars  BY <1>3, AuthorStep
    <3> QED  BY <2>1, <2>2, <3>1 DEF StageFacts
  <2>3. CASE ~overlong' /\ q \in Inside'
    <3>1. ~overlong /\ UNCHANGED <<bars, covered, author>>
      BY <1>3, <2>3, Alone
    <3>2. Asked(q)' = Asked(q) /\ Anew(q)' = Anew(q)
      BY <2>1, <3>1 DEF Asked, Present, Anew
    <3> QED  BY <2>1, <3>1, <3>2 DEF StageFacts
  <2>4. CASE ~overlong' /\ q \notin Inside'
    BY <2>1, <2>4 DEF StageFacts, Inside
  <2> QED  BY <2>2, <2>3, <2>4
<1>4. ASSUME NEW p \in Runners, RunStep(p)
      PROVE  StageFacts(p)'
  <2>1. CASE runs'[p].at \in {"off", "claim", "plan", "release"}
    BY <2>1 DEF StageFacts
  <2>2. CASE Claim(p) /\ runs'[p].at = "unlink"
    <3>1. runs'[p].mode = "force_rebuild"
      BY <2>2, <1>1 DEF Claim, RunStates, Modes
    <3> QED  BY <2>2, <3>1 DEF StageFacts
  <2>3. CASE Unlink(p)
    BY <2>3, NextStage DEF Unlink, StageFacts
  <2>4. CASE Plan(p) /\ runs'[p].at = "fetch"
    <3>1. ~Ends(p)  BY <2>4, <1>1 DEF Ends, At
    <3>2. runs' = [runs EXCEPT ![p].at = "fetch", ![p].asked = Asked(p)]
      BY <2>4, <3>1 DEF Plan
    <3>3. /\ runs'[p].asked = Asked(p) /\ runs'[p].mode = runs[p].mode
          /\ runs'[p].started = runs[p].started
      BY <3>2, <1>1 DEF RunStates
    <3>4. covered' = covered  BY <2>4 DEF Plan, store
    <3>5. Asked(p)' = Asked(p)  BY <3>3, <3>4 DEF Asked, Present
    <3> QED  BY <2>4, <3>3, <3>5 DEF StageFacts
  <2>5. CASE Fetch(p) /\ runs'[p].at = "merge"
    <3>1. ~Ends(p)  BY <2>5, <1>1 DEF Ends, At
    <3>2. UNCHANGED <<bars, covered, overlong>> /\ runs[p].at = "fetch"
      BY <2>5 DEF Fetch, store, ghosts
    <3>3. Asked(p)' = Asked(p)
      BY <2>5, <3>1, <3>2, FetchEffect DEF Asked, Present
    <3> QED  BY <2>5, <3>1, <3>2, <3>3, FetchEffect DEF StageFacts
  <2>6. CASE Merge(p) /\ runs'[p].at = "write"
    <3>1. ~Ends(p)  BY <2>6, <1>1 DEF Ends, At
    <3>2. UNCHANGED <<bars, covered, overlong>> /\ runs[p].at = "merge"
      BY <2>6 DEF Merge, store, ghosts
    <3>3. ASSUME ~Anew(p)'
          PROVE  bars \ runs'[p].file \subseteq runs'[p].bad
      <4>1. runs'[p].file = (bars \ runs[p].bad) \cup runs[p].good
        BY <2>6, <3>1, <3>2, <3>3, MergeEffect DEF Anew
      <4>2. runs'[p].bad = runs[p].bad  BY <2>6, <3>1, MergeEffect
      <4> QED  BY <4>1, <4>2
    <3> QED  BY <2>6, <3>2, <3>3 DEF StageFacts
  <2>7. CASE Write(p)
    <3>1. runs'[p].at = "cover" /\ runs'[p].file = runs[p].file
      BY <2>7, <1>1 DEF Write, At
    <3> QED  BY <2>7, <3>1 DEF Write, StageFacts
  <2>8. \/ runs'[p].at \in {"off", "claim", "plan", "release"}
        \/ Claim(p) /\ runs'[p].at = "unlink"
        \/ Unlink(p)
        \/ Plan(p) /\ runs'[p].at = "fetch"
        \/ Fetch(p) /\ runs'[p].at = "merge"
        \/ Merge(p) /\ runs'[p].at = "write"
        \/ Write(p)
    BY <1>4, NextStage DEF RunStep
  <2> QED  BY <2>1, <2>2, <2>3, <2>4, <2>5, <2>6, <2>7, <2>8
<1>5. ASSUME NEW p \in Runners, RunStep(p)
      PROVE  \A q \in Runners : StageFacts(q)'
  BY <1>3, <1>4, <1>5
<1> QED  BY <1>2, <1>5, HistSteps

StageInv == HistTypeOK /\ ExclusiveRow /\ \A p \in Runners : StageFacts(p)

LEMMA StageInvHolds == HistSpec => []StageInv
<1>1. HistInit => StageInv
  BY TypesInit, ExclusiveInit DEF HistInit, StageInv, StageFacts, Off, At
<1>2. StageInv /\ [HistNext]_histVars => StageInv'
  BY TypesStep, ExclusiveStep, StageFactsStep DEF StageInv
<1> QED  BY <1>1, <1>2, PTL DEF HistSpec

\* No stored bar is dropped but by a run meant to replace the file, a row
\* the provider spoiled, a file that cannot be read, or an overlap
\* (refresh.py:590, _merge_with_split_check).
THEOREM NothingIsForgotten == HistSpec => NothingForgotten
<1>1. StageInv /\ [HistNext]_histVars =>
        [\/ bars \subseteq bars'
         \/ overlong
         \/ \E p \in Runners :
              /\ runs'[p] # runs[p]
              /\ \/ runs[p].mode \in Replacing
                 \/ runs[p].misread
                 \/ bars \ bars' \subseteq runs[p].bad]_histVars
  <2> SUFFICES ASSUME StageInv, HistNext, ~(bars \subseteq bars'), ~overlong
               PROVE  \E p \in Runners :
                        /\ runs'[p] # runs[p]
                        /\ \/ runs[p].mode \in Replacing
                           \/ runs[p].misread
                           \/ bars \ bars' \subseteq runs[p].bad
    OBVIOUS
  <2>1. PICK p \in Runners : Unlink(p) \/ Write(p)
    <3>1. ~HistTick  BY DEF HistTick, store
    <3>2. PICK p \in Runners : RunStep(p)  BY <3>1, HistSteps
    <3>3. ~(Begin(p) \/ Claim(p) \/ Refuse(p) \/ Release(p) \/ Reset(p))
      BY DEF Begin, Claim, Refuse, Release, Reset, store
    <3>4. ~(Plan(p) \/ Fetch(p) \/ Merge(p))  BY DEF Plan, Fetch, Merge, store
    <3>5. ~(Cover(p) \/ Fail(p) \/ Die(p))  BY DEF Cover, Fail, Die, store
    <3> QED  BY <3>2, <3>3, <3>4, <3>5 DEF RunStep
  <2>2. runs'[p] # runs[p]  BY <2>1, NextStage DEF StageInv
  <2>3. CASE Unlink(p)
    BY <2>2, <2>3 DEF StageInv, StageFacts, Unlink, Replacing
  <2>4. CASE Write(p)
    BY <2>2, <2>4 DEF StageInv, StageFacts, Write, Anew
  <2> QED  BY <2>1, <2>3, <2>4
<1> QED  BY <1>1, StageInvHolds, PTL DEF HistSpec, NothingForgotten

\* However the runs crash, fail, are refused or overlap: the coverage row
\* spans the bars of the file, unless the last run to change the file has not
\* written its row, or one overtaken after its lease has written its own over
\* that of a later file (refresh.py:656, _persist_bars).
THEOREM SpanHolds == HistSpec => []SpanIsTrue
<1>1. HistInit => SpanIsTrue  BY DEF HistInit, SpanIsTrue, Extent
<1>2. ASSUME StageInv, SpanIsTrue, [HistNext]_histVars
      PROVE  SpanIsTrue'
  <2>1. CASE HistTick \/ UNCHANGED histVars
    BY <1>2, <2>1 DEF HistTick, histVars, store, ghosts, SpanIsTrue,
                      RowFollows, Extent
  <2>2. ASSUME NEW p \in Runners, RunStep(p)
        PROVE  SpanIsTrue'
    <3>1. p # NoOwner  BY HistoricalStoreAssumption
    <3>2. CASE Unlink(p) \/ Write(p)
      BY <3>1, <3>2 DEF Unlink, Write, SpanIsTrue, RowFollows
    <3>3. CASE (Reset(p) \/ Cover(p)) /\ author # p
      <4>1. overlong
        BY <1>2, <3>3 DEF StageInv, StageFacts, Reset, Cover
      <4>2. crossed'  BY <3>3, <4>1 DEF Reset, Cover, RowWritten
      <4> QED  BY <4>2 DEF SpanIsTrue, RowFollows
    <3>4. CASE Reset(p) /\ author = p
      <4>1. bars' = {} /\ covered' = {}
        BY <1>2, <3>4 DEF StageInv, StageFacts, Reset
      <4> QED  BY <4>1 DEF SpanIsTrue, Extent
    <3>5. CASE Cover(p) /\ author = p
      <4>1. bars = runs[p].file
        BY <1>2, <3>5 DEF StageInv, StageFacts, Cover
      <4>2. covered' = Extent(bars) /\ bars' = bars
        BY <3>5, <4>1 DEF Cover
      <4> QED  BY <4>2 DEF SpanIsTrue, Extent
    <3>6. CASE \/ Begin(p) \/ Claim(p) \/ Refuse(p) \/ Release(p) \/ Plan(p)
              \/ Fetch(p) \/ Merge(p) \/ Fail(p) \/ Die(p)
      <4>1. UNCHANGED <<bars, covered, author, crossed>>
        BY <3>6 DEF Begin, Claim, Refuse, Release, Plan, Fetch, Merge, Fail,
                    Die, store, ghosts
      <4> QED  BY <1>2, <4>1 DEF SpanIsTrue, RowFollows, Extent
    <3> QED  BY <2>2, <3>2, <3>3, <3>4, <3>5, <3>6 DEF RunStep
  <2> QED  BY <1>2, <2>1, <2>2, HistSteps
<1> QED  BY <1>1, <1>2, StageInvHolds, PTL DEF HistSpec

(***************************************************************************)
(* The holes of the file.                                                  *)
(***************************************************************************)

\* No bar of the future is stored, covered or fetched.
RunBounds(p) ==
    /\ runs[p].started <= newest
    /\ runs[p].asked \subseteq 1..newest
    /\ runs[p].good \subseteq 1..newest
    /\ runs[p].file \subseteq 1..newest

Bounded ==
    /\ newest \in 1..MaxBars
    /\ bars \subseteq 1..newest /\ covered \subseteq 1..newest
    /\ \A p \in Runners : RunBounds(p)

LEMMA BoundedInit == HistInit => Bounded
<1> SUFFICES ASSUME HistInit PROVE Bounded
  OBVIOUS
<1>1. \A p \in Runners : RunBounds(p)
  BY DEF HistInit, RunBounds, Off, At
<1> QED  BY <1>1, HistoricalStoreAssumption DEF HistInit, Bounded

LEMMA BoundedStep ==
  ASSUME HistTypeOK, Bounded, [HistNext]_histVars
  PROVE  Bounded'
<1>1. runs \in [Runners -> RunStates]  BY DEF HistTypeOK
<1>2. CASE HistTick
  <2>1. newest \in Nat /\ newest' = newest + 1 /\ newest' \in 1..MaxBars
    BY <1>2, HistoricalStoreAssumption DEF HistTick, HistTypeOK
  <2>2. 1..newest \subseteq 1..newest'  BY <2>1
  <2>3. UNCHANGED <<bars, covered, runs>>  BY <1>2 DEF HistTick, store
  <2>4. ASSUME NEW p \in Runners PROVE RunBounds(p)'
    <3>1. runs[p].started \in Nat  BY <1>1 DEF RunStates
    <3> QED  BY <2>1, <2>2, <2>3, <3>1 DEF Bounded, RunBounds
  <2> QED  BY <2>1, <2>2, <2>3, <2>4 DEF Bounded
<1>3. CASE UNCHANGED histVars
  BY <1>3 DEF histVars, Bounded, RunBounds
<1>4. ASSUME NEW p \in Runners, RunStep(p)
      PROVE  Bounded'
  <2>1. newest' = newest
    BY <1>4 DEF RunStep, Begin, Claim, Refuse, Release, Unlink, Reset, Plan,
                Fetch, Merge, Write, Cover, Fail, Die
  <2>2. runs[p] \in RunStates /\ RunBounds(p) /\ newest \in Nat
        /\ bars \subseteq 1..newest /\ covered \subseteq 1..newest
    BY <1>1 DEF Bounded, HistTypeOK
  <2>3. Extent(runs[p].file) \subseteq 1..newest
    BY <2>2 DEF RunBounds, Extent
  <2>4. bars' \in {bars, {}, runs[p].file}
        /\ covered' \in {covered, {}, Extent(runs[p].file)}
    <3>1. CASE \/ Begin(p) \/ Claim(p) \/ Refuse(p) \/ Release(p) \/ Plan(p)
              \/ Fetch(p) \/ Merge(p) \/ Fail(p) \/ Die(p)
      BY <3>1 DEF Begin, Claim, Refuse, Release, Plan, Fetch, Merge, Fail,
                  Die, store
    <3>2. CASE Unlink(p) \/ Reset(p) \/ Write(p) \/ Cover(p)
      BY <3>2 DEF Unlink, Reset, Write, Cover
    <3> QED  BY <1>4, <3>1, <3>2 DEF RunStep
  <2>5. bars' \subseteq 1..newest /\ covered' \subseteq 1..newest
    BY <2>2, <2>3, <2>4 DEF RunBounds
  <2>6. RunBounds(p)'
    <3>1. CASE Ends(p) \/ runs' = [runs EXCEPT ![p] = Off]
      BY <3>1, <2>1, <2>2, <1>1 DEF Ends, Off, At, RunBounds
    <3>2. CASE Begin(p)
      BY <3>2, <2>1, <2>2, <1>1 DEF Begin, At, RunBounds
    <3>3. CASE Claim(p) \/ Unlink(p) \/ Reset(p)
      <4>1. /\ runs'[p].started = runs[p].started
            /\ runs'[p].asked = runs[p].asked
            /\ runs'[p].good = runs[p].good /\ runs'[p].file = runs[p].file
        <5>1. CASE Claim(p)
          <6>1. PICK mode \in Modes :
                   runs' = [runs EXCEPT ![p].mode = mode,
                              ![p].at = IF mode = "force_rebuild"
                                        THEN "unlink" ELSE "plan"]
            BY <5>1 DEF Claim
          <6> QED  BY <6>1, <1>1 DEF RunStates
        <5>2. CASE Unlink(p)  BY <5>2, <1>1 DEF Unlink, Goes, RunStates
        <5>3. CASE Reset(p)  BY <5>3, <1>1 DEF Reset, RunStates
        <5> QED  BY <3>3, <5>1, <5>2, <5>3
      <4> QED  BY <4>1, <2>1, <2>2 DEF RunBounds
    <3>4. CASE Plan(p) /\ ~Ends(p)
      <4>1. runs' = [runs EXCEPT ![p].at = "fetch", ![p].asked = Asked(p)]
        BY <3>4 DEF Plan
      <4>2. /\ runs'[p].started = runs[p].started
            /\ runs'[p].asked = Asked(p)
            /\ runs'[p].good = runs[p].good /\ runs'[p].file = runs[p].file
        BY <4>1, <1>1 DEF RunStates
      <4>3. Asked(p) \subseteq 1..newest
        BY <2>2 DEF Asked, Present, RunBounds, RunStates
      <4> QED  BY <4>2, <4>3, <2>1, <2>2 DEF RunBounds
    <3>5. CASE Fetch(p) /\ ~Ends(p)
      <4>1. /\ runs'[p].started = runs[p].started
            /\ runs'[p].good \subseteq runs[p].asked
            /\ runs'[p].asked = {} /\ runs'[p].file = {}
        BY <3>5, FetchEffect
      <4> QED  BY <4>1, <2>1, <2>2 DEF RunBounds
    <3>6. CASE Merge(p) /\ ~Ends(p)
      <4>1. /\ runs'[p].started = runs[p].started
            /\ runs'[p].asked = runs[p].asked /\ runs'[p].good = {}
        BY <3>6, MergeEffect
      <4>2. PICK base \in {bars, {}} :
               runs'[p].file = (base \ runs[p].bad) \cup runs[p].good
        BY <3>6, MergeEffect
      <4> QED  BY <4>1, <4>2, <2>1, <2>2 DEF RunBounds
    <3>7. CASE Write(p)
      <4>1. runs' = [runs EXCEPT ![p] = [At("cover") EXCEPT
                                            !.file = runs[p].file]]
        BY <3>7 DEF Write
      <4>2. /\ runs'[p].started = 0 /\ runs'[p].asked = {}
            /\ runs'[p].good = {} /\ runs'[p].file = runs[p].file
        BY <4>1, <1>1 DEF At
      <4> QED  BY <4>2, <2>1, <2>2 DEF RunBounds
    <3>8. CASE Refuse(p) \/ Release(p) \/ Die(p) \/ Cover(p) \/ Fail(p)
      BY <3>1, <3>8 DEF Refuse, Release, Die, Cover, Fail
    <3> QED
      BY <1>4, <3>1, <3>2, <3>3, <3>4, <3>5, <3>6, <3>7, <3>8 DEF RunStep
  <2>7. ASSUME NEW q \in Runners \ {p} PROVE RunBounds(q)'
    BY <1>4, <2>1, OtherRuns DEF Bounded, RunBounds
  <2> QED  BY <2>1, <2>5, <2>6, <2>7 DEF Bounded
<1> QED  BY <1>2, <1>3, <1>4, HistSteps

\* The instants up to the last of these that are not among them.
Below(S) == {b \in (1..MaxBars) \ S : \E y \in S : b <= y}

\* What lies before an instant of the range lies in it or before all of it.
IsRange(S) ==
    \A y \in S : \A b \in 1..MaxBars :
        b <= y => b \in S \/ \A a \in S : b < a

\* What a run will write lacks what the run has excused.
RunAccounts(p) ==
    /\ runs[p].at = "fetch" => IsRange(runs[p].asked)
    /\ runs[p].at = "merge" => IsRange(runs[p].lost \cup runs[p].good)
    /\ runs[p].at = "write" => Below(runs[p].file) \subseteq runs[p].lost

Accounted ==
    /\ Below(bars) \subseteq excused
    /\ \A p \in Runners : RunAccounts(p)

LEMMA AskedIsRange ==
  ASSUME HistTypeOK, Bounded, NEW p \in Runners
  PROVE  IsRange(Asked(p))
<1>1. runs[p].started \in Nat /\ covered \subseteq Nat
  BY DEF HistTypeOK, RunStates
<1> SUFFICES ASSUME NEW y \in Asked(p), NEW b \in 1..MaxBars, b <= y,
                    b \notin Asked(p), NEW a \in Asked(p)
             PROVE  b < a
  BY DEF IsRange
<1>2. y \in 1..runs[p].started /\ a \in 1..runs[p].started
  BY DEF Asked, Present
<1>3. b \in 1..runs[p].started /\ MaxBars \in Nat
  BY <1>1, <1>2, HistoricalStoreAssumption
<1>4. CASE runs[p].mode \in Replacing
  BY <1>1, <1>2, <1>3, <1>4, HistoricalStoreAssumption DEF Asked, Present
<1>5. CASE runs[p].mode \notin Replacing
  <2>1. PICK last \in covered : ~(b >= last - Overlap)
    BY <1>3, <1>5 DEF Asked, Present
  <2>2. a >= last - Overlap  BY <1>5, <2>1 DEF Asked
  <2> QED  BY <1>1, <1>2, <1>3, <2>1, <2>2, HistoricalStoreAssumption
<1> QED  BY <1>4, <1>5

\* What the merged file lacks is accounted for. Of what the run did not ask
\* for, a file whose row is its own lacks only what it lacked before: the
\* range asked for begins no later than the end of the row.
LEMMA MergeAccounts ==
  ASSUME StageInv, SpanIsTrue, Bounded, Accounted, NEW p \in Runners,
         runs[p].at = "merge", NEW base \in {bars, {}},
         base # {} => runs[p].mode \notin Replacing,
         NEW b \in Below((base \ runs[p].bad) \cup runs[p].good)
  PROVE  b \in Lacking(p, base)
<1> DEFINE asked == runs[p].lost \cup runs[p].good
           unasked == {c \in 1..newest : \A a \in asked : c < a}
<1>1. /\ newest \in 1..MaxBars /\ MaxBars \in Nat
      /\ bars \subseteq 1..newest /\ runs[p].good \subseteq 1..newest
      /\ runs[p].bad \subseteq runs[p].lost /\ runs[p].started \in Nat
      /\ covered \subseteq 1..newest
  BY HistoricalStoreAssumption
     DEF Bounded, RunBounds, StageInv, StageFacts, HistTypeOK, RunStates
<1>2. PICK y \in (base \ runs[p].bad) \cup runs[p].good : b <= y
  BY DEF Below
<1>3. /\ b \in 1..MaxBars /\ b \notin runs[p].good
      /\ b \notin base \ runs[p].bad
  BY DEF Below
<1>4. y \in 1..newest /\ b \in 1..newest  BY <1>1, <1>2, <1>3
<1>5. CASE b \in asked  BY <1>3, <1>5 DEF Lacking
<1>6. CASE b \notin asked /\ y \in runs[p].good
  <2>1. b \in unasked
    BY <1>2, <1>3, <1>4, <1>6 DEF Accounted, RunAccounts, IsRange
  <2>2. CASE base = {}  BY <2>1, <2>2 DEF Lacking
  <2>3. CASE base # {} /\ \E x \in base : b <= x
    <3>1. b \notin bars /\ base = bars  BY <1>1, <1>3, <1>6, <2>3
    <3>2. b \in excused  BY <1>3, <2>3, <3>1 DEF Accounted, Below
    <3> QED  BY <2>3, <3>2 DEF Lacking
  <2>4. CASE base # {} /\ ~\E x \in base : b <= x
    <3>1. \A x \in base : x < b  BY <1>1, <1>4, <2>4
    <3>2. CASE ~(RowFollows /\ ~overlong)
      BY <2>1, <2>4, <3>1, <3>2 DEF Lacking
    <3>3. CASE RowFollows /\ ~overlong
      <4>1. covered = Extent(bars) /\ base = bars
        BY <2>4, <3>3 DEF SpanIsTrue
      <4>2. asked = Asked(p)
        BY <3>3 DEF StageInv, StageFacts
      <4>3. y \in Asked(p) /\ b \notin Asked(p)  BY <1>6, <4>2
      <4>4. \A last \in covered : last <= b
        <5> SUFFICES ASSUME NEW last \in covered PROVE last <= b
          OBVIOUS
        <5>1. PICK x \in bars : last <= x  BY <4>1 DEF Extent
        <5>2. x < b  BY <3>1, <4>1
        <5> QED  BY <1>1, <1>4, <5>1, <5>2
      <4>5. b \in 1..runs[p].started
        BY <1>1, <1>2, <1>4, <4>3 DEF Asked, Present
      <4>6. \A last \in covered : b >= last - Overlap
        BY <1>1, <1>4, <4>4, HistoricalStoreAssumption
      <4> QED  BY <2>4, <4>3, <4>5, <4>6 DEF Asked, Present
    <3> QED  BY <3>2, <3>3
  <2> QED  BY <2>2, <2>3, <2>4
<1>7. CASE b \notin asked /\ y \notin runs[p].good
  <2>1. base = bars /\ y \in bars /\ base # {}  BY <1>2, <1>7
  <2>2. b \notin bars  BY <1>1, <1>3, <1>7, <2>1
  <2>3. b \in excused  BY <1>2, <1>3, <2>1, <2>2 DEF Accounted, Below
  <2> QED  BY <2>1, <2>3 DEF Lacking
<1> QED  BY <1>5, <1>6, <1>7

LEMMA AccountedStep ==
  ASSUME StageInv, SpanIsTrue, Bounded, Accounted, [HistNext]_histVars
  PROVE  Accounted'
<1>1. HistTypeOK /\ runs \in [Runners -> RunStates]
  BY DEF StageInv, HistTypeOK
<1>2. CASE HistTick \/ UNCHANGED histVars
  BY <1>2 DEF HistTick, histVars, store, ghosts, Accounted, RunAccounts
<1>3. ASSUME NEW p \in Runners, RunStep(p)
      PROVE  Below(bars)' \subseteq excused'
  <2>1. CASE Unlink(p)  BY <2>1 DEF Unlink, Below
  <2>2. CASE Write(p)
    <3>1. /\ bars' = runs[p].file
          /\ excused' = runs[p].lost \ runs[p].file
          /\ Below(runs[p].file) \subseteq runs[p].lost
      BY <2>2 DEF Write, Accounted, RunAccounts
    <3> QED  BY <3>1 DEF Below
  <2>3. CASE Reset(p) \/ Cover(p)
    BY <2>3 DEF Reset, Cover, Accounted, Below
  <2>4. CASE \/ Begin(p) \/ Claim(p) \/ Refuse(p) \/ Release(p) \/ Plan(p)
            \/ Fetch(p) \/ Merge(p) \/ Fail(p) \/ Die(p)
    <3>1. UNCHANGED <<bars, excused>>
      BY <2>4 DEF Begin, Claim, Refuse, Release, Plan, Fetch, Merge, Fail,
                  Die, store, ghosts
    <3> QED  BY <3>1 DEF Accounted, Below
  <2> QED  BY <1>3, <2>1, <2>2, <2>3, <2>4 DEF RunStep
<1>4. ASSUME NEW p \in Runners, RunStep(p)
      PROVE  RunAccounts(p)'
  <2>1. CASE runs'[p].at \notin {"fetch", "merge", "write"}
    BY <2>1 DEF RunAccounts
  <2>2. CASE Plan(p) /\ runs'[p].at = "fetch"
    <3>1. ~Ends(p)  BY <2>2, <1>1 DEF Ends, At
    <3>2. runs'[p].asked = Asked(p)
      BY <2>2, <3>1, <1>1 DEF Plan, RunStates
    <3>3. IsRange(Asked(p))  BY <1>1, AskedIsRange
    <3> QED  BY <2>2, <3>2, <3>3 DEF RunAccounts, IsRange
  <2>3. CASE Fetch(p) /\ runs'[p].at = "merge"
    <3>1. ~Ends(p)  BY <2>3, <1>1 DEF Ends, At
    <3>2. runs'[p].lost \cup runs'[p].good = runs[p].asked
      BY <1>1, <2>3, <3>1, FetchEffect
    <3>3. IsRange(runs[p].asked)
      BY <2>3 DEF Fetch, Accounted, RunAccounts
    <3> QED  BY <2>3, <3>2, <3>3 DEF RunAccounts, IsRange
  <2>4. CASE Merge(p) /\ runs'[p].at = "write"
    <3>1. ~Ends(p)  BY <2>4, <1>1 DEF Ends, At
    <3>2. PICK base \in {bars, {}} :
             /\ runs'[p].file = (base \ runs[p].bad) \cup runs[p].good
             /\ runs'[p].lost = Lacking(p, base)
             /\ base # {} => runs[p].mode \notin Replacing
      BY <1>1, <2>4, <3>1, MergeEffect
    <3>3. runs[p].at = "merge"  BY <2>4 DEF Merge
    <3>4. Below((base \ runs[p].bad) \cup runs[p].good)
            \subseteq Lacking(p, base)
      BY <3>2, <3>3, MergeAccounts
    <3> QED  BY <2>4, <3>2, <3>4 DEF RunAccounts, Below
  <2> QED  BY <1>1, <1>4, <2>1, <2>2, <2>3, <2>4, NextStage DEF RunStep
<1>5. ASSUME NEW p \in Runners, RunStep(p), NEW q \in Runners \ {p}
      PROVE  RunAccounts(q)'
  <2>1. runs'[q] = runs[q]  BY <1>1, <1>5, OtherRuns
  <2> QED  BY <2>1 DEF Accounted, RunAccounts, IsRange, Below
<1>6. ASSUME NEW p \in Runners, RunStep(p)
      PROVE  Accounted'
  BY <1>3, <1>4, <1>5, <1>6 DEF Accounted
<1> QED  BY <1>2, <1>6, HistSteps

\* Whatever runs crash, fail, start late or overlap: a bar missing inside
\* the file was asked for in vain or cut off by the cap since the file was
\* last written anew, lies before the range that writing asked for, or was
\* skipped by a run that resumed from a row that was not the file's own
\* (refresh.py:443).
THEOREM HolesExcused == HistSpec => []HolesAreKnown
<1>1. HistInit => Accounted
  BY DEF HistInit, Accounted, RunAccounts, Below, Off, At
<1>2. Bounded /\ Accounted => HolesAreKnown
  <2> SUFFICES ASSUME Accounted, NEW b \in Extent(bars) \ bars
               PROVE  b \in excused
    BY DEF HolesAreKnown
  <2> QED  BY DEF Accounted, Below, Extent
<1>3. StageInv /\ Bounded /\ [HistNext]_histVars => Bounded'
  BY BoundedStep DEF StageInv
<1> QED
  BY <1>1, <1>2, <1>3, BoundedInit, AccountedStep, StageInvHolds, SpanHolds,
     PTL DEF HistSpec
=============================================================================
