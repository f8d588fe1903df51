-------------------------- MODULE HistoricalStore --------------------------
(***************************************************************************)
(* The store of historical bars (bot/historical): concurrent processes     *)
(* refresh the file of one symbol and native timeframe and its coverage    *)
(* row, behind a lock row with a lease and a process id. Time is counted   *)
(* in bars: bar b is the one of instant b, and the provider has the bars   *)
(* up to the present. A coverage row is kept as the set of instants from   *)
(* its first_ts_utc to its last_ts_utc. Prices, the split check (it        *)
(* changes values, never which bars are stored) and the resampled 4H file  *)
(* are left out. A process that died is followed by one with another pid.  *)
(***************************************************************************)
EXTENDS Integers, FiniteSets

CONSTANTS
    Runners,   \* refresh processes
    NoOwner,   \* the lock row names no process
    Gone,      \* the lock row names a process that has died
    Lease,     \* LOCK_LEASE_SEC
    Cap,       \* lookback_caps of the provider for this timeframe
    Lookback,  \* --lookback of a backfill (as long as MaxBars: none given)
    Overlap,   \* SPLIT_DETECTION_OVERLAP_BARS
    FreshFor,  \* FRESHNESS_THRESHOLDS of this timeframe
    MaxLost,   \* bound: bars a reply omits or gives an invalid row for
    MaxBars    \* bound: instants of a behaviour

ASSUME HistoricalStoreAssumption ==
    /\ NoOwner \notin Runners /\ Gone \notin Runners /\ Gone # NoOwner
    /\ Lease \in Nat /\ Cap \in Nat /\ Lookback \in Nat
    /\ Overlap \in Nat /\ FreshFor \in Nat
    /\ MaxLost \in Nat /\ MaxBars \in Nat \ {0}

VARIABLES
    newest,   \* the present
    lock,     \* historical_refresh_lock: owner_pid, lease_expires_at_utc
    bars,     \* the file: the instants it has a bar of, {} without a file
    covered,  \* the coverage row, {} without a row
    runs,     \* the process of each runner
    overlong, \* history: a run was overtaken after its lease and is going on
    author,   \* history: the run that last changed the file and has not
              \* written its row, going on or cut; NoOwner when it has
    crossed,  \* history: a run that another overtook has written its row
              \* over that of a later file
    excused   \* history: bars the file is known to lack (HolesAreKnown)

ghosts == <<overlong, author, crossed, excused>>
histVars == <<newest, lock, bars, covered, runs, ghosts>>
store == <<bars, covered>>

Modes == {"backfill", "incremental", "repair", "force_rebuild"}
Replacing == {"backfill", "force_rebuild"}

\* A run at one of its steps, its locals cleared once nothing reads them;
\* "lost" is history, the bars its file will be known to lack.
At(stage) == [at |-> stage, mode |-> "none", started |-> 0, asked |-> {},
              lost |-> {}, good |-> {}, bad |-> {}, file |-> {},
              misread |-> FALSE]
Off == At("off")

HistInit ==
    /\ newest = 1
    /\ lock = [owner |-> NoOwner, until |-> 0]
    /\ bars = {} /\ covered = {}
    /\ runs = [p \in Runners |-> Off]
    /\ overlong = FALSE /\ author = NoOwner /\ crossed = FALSE
    /\ excused = {}

Goes(p, stage) == runs' = [runs EXCEPT ![p].at = stage]
Ends(p) == runs' = [runs EXCEPT ![p] = At("release")]

\* Runs between taking the lock and giving it back.
Inside == {p \in Runners : runs[p].at \notin {"off", "claim"}}

\* The instants from the first to the last of these.
Extent(S) == {b \in 1..MaxBars : \E x, y \in S : x <= b /\ b <= y}

HistTick ==
    /\ newest < MaxBars
    /\ newest' = newest + 1
    /\ UNCHANGED <<lock, store, runs, ghosts>>

(***************************************************************************)
(* The lock.                                                               *)
(***************************************************************************)

\* started_at is read here and is the run's "now" to its end. Bound: none
\* begins while an overlap goes on; those that wait for the lock may claim.
Begin(p) ==
    /\ runs[p].at = "off" /\ ~overlong
    /\ runs' = [runs EXCEPT ![p] = [At("claim") EXCEPT !.started = newest]]
    /\ UNCHANGED <<newest, lock, store, ghosts>>

\* Variant for mutation: the last instant of a lease counts as lapsed.
Claimable_Early == lock.owner \notin Runners \/ lock.until <= newest + 1

\* The row is free, its process is gone, or its lease has lapsed.
Claimable == lock.owner \notin Runners \/ lock.until <= newest

\* The mode, given on the command line, is first looked at after the claim.
Claim(p) ==
    /\ runs[p].at = "claim"
    /\ Claimable
    /\ lock' = [owner |-> p, until |-> newest + Lease]
    /\ \E mode \in Modes :
         runs' = [runs EXCEPT ![p].mode = mode,
                     ![p].at = IF mode = "force_rebuild" THEN "unlink" ELSE "plan"]
    /\ overlong' = (overlong \/ (lock.owner \in Inside /\ lock.until <= newest))
    /\ UNCHANGED <<newest, store, author, crossed, excused>>

\* A live process holds the row, or another has the pid of one that is gone.
Refuse(p) ==
    /\ runs[p].at = "claim"
    /\ lock.owner # NoOwner /\ lock.until > newest
    /\ runs' = [runs EXCEPT ![p] = Off]
    /\ UNCHANGED <<newest, lock, store, ghosts>>

\* The release clears the row whoever is named in it.
Release(p) ==
    /\ runs[p].at = "release"
    /\ lock' = [owner |-> NoOwner, until |-> 0]
    /\ runs' = [runs EXCEPT ![p] = Off]
    /\ overlong' = (overlong /\ Inside \ {p} # {})
    /\ UNCHANGED <<newest, store, author, crossed, excused>>

(***************************************************************************)
(* _process_one.                                                           *)
(***************************************************************************)

Unlink(p) ==
    /\ runs[p].at = "unlink"
    /\ bars' = {} /\ excused' = {} /\ author' = p
    /\ Goes(p, "reset")
    /\ UNCHANGED <<newest, lock, covered, overlong, crossed>>

\* The run writes its row, of its own file or of one changed since.
RowWritten(p) ==
    /\ crossed' = (overlong /\ author # p)
    /\ author' = IF author = p THEN NoOwner ELSE author

\* Variant for mutation: the coverage row is not reset.
Reset_Keeps(p) ==
    /\ runs[p].at = "reset"
    /\ RowWritten(p)
    /\ runs' = [runs EXCEPT ![p].at = "plan", ![p].mode = "backfill"]
    /\ UNCHANGED <<newest, lock, bars, covered, overlong, excused>>

\* reset_coverage, and the rest as a backfill (effective_mode).
Reset(p) ==
    /\ runs[p].at = "reset"
    /\ covered' = {}
    /\ RowWritten(p)
    /\ runs' = [runs EXCEPT ![p].at = "plan", ![p].mode = "backfill"]
    /\ UNCHANGED <<newest, lock, bars, overlong, excused>>

\* The incremental no-op: compute_freshness_status of last_ts_utc.
UpToDate(p) ==
    /\ runs[p].mode = "incremental"
    /\ bars # {}
    /\ \E last \in covered : runs[p].started - last <= FreshFor

Present(p) == 1..runs[p].started

\* Variant for mutation: the overlap is taken back from the present.
Asked_FromNow(p) ==
    IF runs[p].mode \in Replacing
    THEN {b \in Present(p) : b >= runs[p].started - Lookback}
    ELSE {b \in Present(p) : covered # {} => b >= runs[p].started - Overlap}

\* The range the run asks for, before the cap: from the earliest date or an
\* operator's lookback, or from the overlap with the last stored bar.
Asked(p) ==
    IF runs[p].mode \in Replacing
    THEN {b \in Present(p) : b >= runs[p].started - Lookback}
    ELSE {b \in Present(p) : \A last \in covered : b >= last - Overlap}

Plan(p) ==
    /\ runs[p].at = "plan"
    /\ \/ UpToDate(p) /\ Ends(p)
       \/ /\ ~UpToDate(p)
          /\ runs' = [runs EXCEPT ![p].at = "fetch", ![p].asked = Asked(p)]
    /\ UNCHANGED <<newest, lock, store, ghosts>>

\* clamp_to_lookback.
Clamped(p) == {b \in runs[p].asked : b >= runs[p].started - Cap}

\* The provider's reply: bars of the range, some of which do not validate.
\* No data, an error and a rate limit that outlasts the retries end the run.
Fetch(p) ==
    /\ runs[p].at = "fetch"
    /\ \/ Ends(p)
       \/ \E omitted, bad \in SUBSET Clamped(p) :
            /\ Cardinality(omitted \cup bad) <= MaxLost
            /\ Clamped(p) # omitted
            /\ LET good == Clamped(p) \ (omitted \cup bad)
               IN  runs' = [runs EXCEPT ![p] = [At("merge") EXCEPT
                       !.mode = runs[p].mode, !.started = runs[p].started,
                       !.good = good, !.bad = bad,
                       !.lost = runs[p].asked \ good]]
    /\ UNCHANGED <<newest, lock, store, ghosts>>

\* Variant for mutation: a repair replaces the file by what it refetched.
Merges_NotRepair(p) == runs[p].mode = "incremental" /\ bars # {}

Merges(p) == runs[p].mode \notin Replacing /\ bars # {}

\* The file and the row are of one run.
RowFollows == author = NoOwner /\ ~crossed

\* The bars the merged file will be known to lack: those asked for in vain;
\* without a stored file, those before the range asked for; with one, those
\* it was known to lack and, should the row it resumes from be another's,
\* those between its end and the range asked for.
Lacking(p, base) ==
    LET asked == runs[p].lost \cup runs[p].good
        unasked == {b \in 1..newest : \A a \in asked : b < a}
        skipped == {b \in unasked : \A x \in base : x < b}
    IN  runs[p].lost \cup
        (IF base = {} THEN unasked
         ELSE excused \cup (IF RowFollows /\ ~overlong THEN {} ELSE skipped))

\* _merge_with_split_check and validate_batch: a fetched bar takes the place
\* of the stored one and is validated afterwards. A file that cannot be read
\* (misread) counts as empty. Nothing valid: the symbol has failed.
Merge(p) ==
    /\ runs[p].at = "merge"
    /\ \E misread \in (IF Merges(p) THEN BOOLEAN ELSE {FALSE}) :
         LET base == IF Merges(p) /\ ~misread THEN bars ELSE {}
             file == (base \ runs[p].bad) \cup runs[p].good
         IN  \/ file = {} /\ Ends(p)
             \/ /\ file # {}
                /\ runs' = [runs EXCEPT ![p].at = "write", ![p].good = {},
                                ![p].lost = Lacking(p, base),
                                ![p].file = file, ![p].misread = misread]
    /\ UNCHANGED <<newest, lock, store, ghosts>>

\* _write_parquet_atomic: os.replace.
Write(p) ==
    /\ runs[p].at = "write"
    /\ bars' = runs[p].file
    /\ excused' = runs[p].lost \ runs[p].file
    /\ author' = p
    /\ runs' = [runs EXCEPT ![p] = [At("cover") EXCEPT !.file = runs[p].file]]
    /\ UNCHANGED <<newest, lock, covered, overlong, crossed>>

\* upsert_coverage.
Cover(p) ==
    /\ runs[p].at = "cover"
    /\ covered' = Extent(runs[p].file)
    /\ RowWritten(p)
    /\ Ends(p)
    /\ UNCHANGED <<newest, lock, bars, overlong, excused>>

(***************************************************************************)
(* Failures.                                                               *)
(***************************************************************************)

\* An exception of the database or the file system ends the run.
Fail(p) ==
    /\ p \in Inside /\ runs[p].at # "release"
    /\ Ends(p)
    /\ UNCHANGED <<newest, lock, store, ghosts>>

\* The process dies; a row that names it names a process that is gone.
Die(p) ==
    /\ runs[p].at # "off"
    /\ lock' = IF lock.owner = p THEN [lock EXCEPT !.owner = Gone] ELSE lock
    /\ overlong' = (overlong /\ Inside \ {p} # {})
    /\ runs' = [runs EXCEPT ![p] = Off]
    /\ UNCHANGED <<newest, store, author, crossed, excused>>

HistNext ==
    \/ HistTick
    \/ \E p \in Runners :
         \/ Begin(p) \/ Claim(p) \/ Refuse(p) \/ Release(p)
         \/ Unlink(p) \/ Reset(p) \/ Plan(p) \/ Fetch(p)
         \/ Merge(p) \/ Write(p) \/ Cover(p)
         \/ Fail(p) \/ Die(p)

HistSpec == HistInit /\ [][HistNext]_histVars

(***************************************************************************)
(* Properties.                                                             *)
(***************************************************************************)

RunStates == [
    at : {"off", "claim", "unlink", "reset", "plan", "fetch", "merge",
          "write", "cover", "release"},
    mode : Modes \cup {"none"}, started : Nat, asked : SUBSET Nat,
    lost : SUBSET Nat, good : SUBSET Nat, bad : SUBSET Nat,
    file : SUBSET Nat, misread : BOOLEAN]

\* Types.
HistTypeOK ==
    /\ newest \in Nat
    /\ lock \in [owner : Runners \cup {NoOwner, Gone}, until : Nat]
    /\ bars \subseteq Nat /\ covered \subseteq Nat /\ excused \subseteq Nat
    /\ runs \in [Runners -> RunStates]
    /\ overlong \in BOOLEAN /\ crossed \in BOOLEAN
    /\ author \in Runners \cup {NoOwner}

\* Two runs work on the files together only after one outlived its lease,
\* which nothing renews, and until both are over: a run that was overtaken
\* frees the row of the one that overtook it (refresh.py:77, acquire_lock;
\* M16_historical_data.md:149 "two refreshes cannot run simultaneously").
RefreshesExclude == ~overlong => \A p, q \in Inside : p = q

\* A stored bar is dropped only by a run meant to replace the file, by a
\* reply whose row for it is invalid, by a file that could not be read, or
\* while runs overlap: "append to existing Parquet file" (refresh.py:9).
NothingForgotten ==
    [][\/ bars \subseteq bars'
       \/ overlong
       \/ \E p \in Runners :
            /\ runs'[p] # runs[p]
            /\ \/ runs[p].mode \in Replacing
               \/ runs[p].misread
               \/ bars \ bars' \subseteq runs[p].bad]_histVars

\* The coverage row spans exactly the bars of the file, whichever runs
\* crashed, failed or were refused, but for two cases: the last run to change
\* the file has yet to write its row, or was cut before it did; or a run that
\* outlived its lease wrote its row, last, over a file that another run had
\* changed since (refresh.py:656, _persist_bars).
SpanIsTrue == RowFollows => covered = Extent(bars)

\* A bar missing inside the file was, since the file was last written anew,
\* asked for in vain or cut off by the provider's cap; or it lies before the
\* range that writing asked for; or a run skipped it that resumed from a row
\* past the end of the file, which takes a run cut between file and row or an
\* overlap: a late {1} over {1,2,3}, cut before its row, leaves the row at 3
\* and the next run goes on with 4. No other crash or failure, no refusal and
\* no start of long ago leaves a hole (refresh.py:443, the overlap before
\* last_ts_utc).
HolesAreKnown == Extent(bars) \ bars \subseteq excused
=============================================================================
