----------------------------- MODULE CycleLock -----------------------------
(***************************************************************************)
(* The file lock of the supervised paper cycle                             *)
(* (bot/paper_loop_d2/lock.py) and the runs that take it                   *)
(* (tools/paper_loop/m21_1extra_d2_lifecycle_proof.py). Each run is a      *)
(* process; a step here is one call to the file system or one liveness     *)
(* probe, and runs interleave between them. A run may be killed anywhere,  *)
(* leaving its file behind, and its pid may come back as a later run.      *)
(***************************************************************************)
EXTENDS Integers, FiniteSets

CONSTANTS
    Pids,       \* the process ids runs get
    Retries     \* CycleLock._MAX_RECLAIM_RETRIES

ASSUME CycleLockAssumption ==
    /\ Retries \in Nat \ {0}
    /\ Pids # {}

VARIABLES
    pc,      \* pc[p]: where the run with pid p is
    tries,   \* tries[p]: rounds of the acquire loop p has begun, in acquire()
    seen,    \* seen[p]: the pid p read from the file, until it has probed it
    file,    \* the lock file, or NoFile
    stolen   \* history: a reclaim has removed the file of a living run

vars == <<pc, tries, seen, file, stolen>>

\* No run yet, ended in order, refused by LockHeld, or killed.
Absent == {"idle", "done", "refused", "killed"}
Acquiring == {"create", "write", "read", "probe", "remove"}
Holding == {"cycle", "unlink"}
Locations == Absent \cup Acquiring \cup Holding

Corrupt == "corrupt"

\* Who created the file, whether the payload is in it, and whether the run
\* that created it is still there.
Files == [pid : Pids, written : BOOLEAN, live : BOOLEAN]
NoFile == [pid |-> "", written |-> FALSE, live |-> FALSE]

PidAlive(q) == q \in Pids /\ pc[q] \notin Absent

\* _read followed by _owning_pid: a file without its payload is corrupt.
OwningPid(f) == IF f.written THEN f.pid ELSE Corrupt

Init ==
    /\ pc = [p \in Pids |-> "idle"]
    /\ tries = [p \in Pids |-> 0]
    /\ seen = [p \in Pids |-> Corrupt]
    /\ file = NoFile
    /\ stolen = FALSE

Goto(p, l) == pc' = [pc EXCEPT ![p] = l]
-----------------------------------------------------------------------------
\* An operator starts a run.
Start(p) ==
    /\ pc[p] \in Absent
    /\ Goto(p, "create")
    /\ tries' = [tries EXCEPT ![p] = 0]
    /\ seen' = [seen EXCEPT ![p] = Corrupt]
    /\ UNCHANGED <<file, stolen>>

\* Variant for mutation: the open loses O_EXCL.
Create_NotExclusive(p) ==
    /\ pc[p] = "create"
    /\ tries' = [tries EXCEPT ![p] = @ + 1]
    /\ file' = [pid |-> p, written |-> FALSE, live |-> TRUE]
    /\ Goto(p, "write")
    /\ UNCHANGED <<seen, stolen>>

\* Variant for mutation: the rounds are not counted (while True).
Create_NotCounted(p) ==
    /\ pc[p] = "create"
    /\ IF file = NoFile
       THEN /\ file' = [pid |-> p, written |-> FALSE, live |-> TRUE]
            /\ Goto(p, "write")
       ELSE Goto(p, "read") /\ file' = file
    /\ UNCHANGED <<tries, seen, stolen>>

\* os.open with O_CREAT | O_EXCL: the one step the kernel makes atomic.
Create(p) ==
    /\ pc[p] = "create"
    /\ tries' = [tries EXCEPT ![p] = @ + 1]
    /\ IF file = NoFile
       THEN /\ file' = [pid |-> p, written |-> FALSE, live |-> TRUE]
            /\ Goto(p, "write")
       ELSE Goto(p, "read") /\ file' = file
    /\ UNCHANGED <<seen, stolen>>

\* os.write to the descriptor: if the file has been removed meanwhile the
\* bytes go to an inode nobody can open any more.
Write(p) ==
    /\ pc[p] = "write"
    /\ file' = IF file.pid = p /\ file.live
               THEN [file EXCEPT !.written = TRUE] ELSE file
    /\ Goto(p, "cycle")
    /\ tries' = [tries EXCEPT ![p] = 0]
    /\ UNCHANGED <<seen, stolen>>

\* The next round of the for loop, or LockHeld when there is none left.
Again(p) == Goto(p, IF tries[p] < Retries THEN "create" ELSE "refused")

\* The create lost: _read. A file that has vanished is one more round.
ReadOwner(p) ==
    /\ pc[p] = "read"
    /\ IF file = NoFile
       THEN Again(p) /\ seen' = seen
       ELSE Goto(p, "probe") /\ seen' = [seen EXCEPT ![p] = OwningPid(file)]
    /\ UNCHANGED <<tries, file, stolen>>

\* Variant for mutation: a refused run goes through release() as if it had
\* acquired the lock.
Probe_ReleaseAnyway(p) ==
    /\ pc[p] = "probe"
    /\ Goto(p, IF PidAlive(seen[p]) THEN "unlink" ELSE "remove")
    /\ seen' = [seen EXCEPT ![p] = Corrupt]
    /\ UNCHANGED <<tries, file, stolen>>

\* _pid_alive: any living pid refuses, the reader's own included.
Probe(p) ==
    /\ pc[p] = "probe"
    /\ Goto(p, IF PidAlive(seen[p]) THEN "refused" ELSE "remove")
    /\ seen' = [seen EXCEPT ![p] = Corrupt]
    /\ UNCHANGED <<tries, file, stolen>>

\* os.remove of whatever has that name now; FileNotFoundError is ignored.
Reclaim(p) ==
    /\ pc[p] = "remove"
    /\ file' = NoFile
    /\ stolen' = (stolen \/ file.live)
    /\ Again(p)
    /\ UNCHANGED <<tries, seen>>

\* The cycle is over: release() reads the file.
ReleaseRead(p) ==
    /\ pc[p] = "cycle"
    /\ Goto(p, IF file # NoFile /\ OwningPid(file) = p THEN "unlink" ELSE "done")
    /\ UNCHANGED <<tries, seen, file, stolen>>

\* ... and removes it in a second call.
ReleaseRemove(p) ==
    /\ pc[p] = "unlink"
    /\ file' = NoFile
    /\ Goto(p, "done")
    /\ UNCHANGED <<tries, seen, stolen>>

\* SIGKILL, power loss: no finally runs.
Kill(p) ==
    /\ pc[p] \notin Absent
    /\ Goto(p, "killed")
    /\ file' = IF file.pid = p /\ file.live
               THEN [file EXCEPT !.live = FALSE] ELSE file
    /\ tries' = [tries EXCEPT ![p] = 0]
    /\ seen' = [seen EXCEPT ![p] = Corrupt]
    /\ UNCHANGED stolen

Run(p) ==
    \/ Create(p) \/ Write(p) \/ ReadOwner(p) \/ Probe(p) \/ Reclaim(p)
    \/ ReleaseRead(p) \/ ReleaseRemove(p)

Next == \E p \in Pids : Start(p) \/ Run(p) \/ Kill(p)

Spec == Init /\ [][Next]_vars

\* A process that is not killed keeps running.
FairSpec == Spec /\ \A p \in Pids : WF_vars(Run(p))
-----------------------------------------------------------------------------
\* Every variable keeps to the values the code can give it.
TypeOK ==
    /\ pc \in [Pids -> Locations]
    /\ tries \in [Pids -> 0 .. Retries]
    /\ seen \in [Pids -> Pids \cup {Corrupt}]
    /\ file \in Files \cup {NoFile}
    /\ stolen \in BOOLEAN

\* lock.py:4: "Prevents two loop cycles running at once."
MutualExclusion ==
    \A p, q \in Pids : pc[p] \in Holding /\ pc[q] \in Holding => p = q

\* What the lock does guarantee: two runs hold it together only after a
\* reclaim has removed the file of a run that was alive.
ExclusionUnlessStolen == ~stolen => MutualExclusion

\* lock.py: "only a lock WE actually acquired is removed". Until a reclaim
\* has removed a living run's file, release() removes the releasing run's
\* own file, although it reads and removes in two steps.
ReleaseRemovesOwn ==
    [][\A p \in Pids :
          /\ ~stolen
          /\ pc[p] = "unlink"
          /\ pc'[p] = "done"
          => file.pid = p /\ file.live]_vars

\* acquire() always comes to an answer, however other runs come and go.
AcquireEnds ==
    \A p \in Pids :
        pc[p] = "create" ~> pc[p] \notin Acquiring
=============================================================================
