------------------------ MODULE ModelRegistry_proofs ------------------------
(***************************************************************************)
(* The model registry, for any sets of models and commands. GatesInv says  *)
(* what the copies of a command still have to do with the registrations;   *)
(* CalmInv what the files show at each step of a promotion or demotion as  *)
(* long as no other command is going on and none died between its writes.  *)
(***************************************************************************)
EXTENDS ModelRegistry, TLAPS

StatusFor(m) == IF m \in Thin THEN "forced_promoted" ELSE "current"
Statuses == Active \cup {"none", "candidate", "failed_drift_check", "demoted"}
Verdicts == {"none", "judgment", "integrity"}

ClisType ==
    [at : {"off", "look", "copy", "demote", "promote", "point", "unlink",
           "tell"},
     model : Models \cup {NoModel}, reasons : Verdicts,
     status : Active \cup {"none"}, prev : Models \cup {NoModel},
     old : Verdicts, stale : SUBSET Models]

RegTypeOK ==
    /\ entries \in [Models -> [status : Statuses, reasons : Verdicts]]
    /\ pointer \in [model : Models \cup {NoModel},
                    status : Active \cup {"none"}]
    /\ told \in Models \cup {NoModel}
    /\ clis \in [Clis -> ClisType]
    /\ \A c \in Clis : clis[c].at \in {"copy", "demote"} =>
                         clis[c].prev \in Models
    /\ registered \in [Models -> Verdicts]
    /\ reset \subseteq Models /\ revived \subseteq Models
    /\ disturbed \in BOOLEAN

\* A command that holds the model it promotes before it writes its entry.
Promoting(r) ==
    r.model # NoModel /\ r.at \in {"look", "copy", "demote", "promote"}

\* What entries hold, and what was copied from them.
EntryOK(m) ==
    /\ entries[m].status = "none" => registered[m] = "none"
    /\ entries[m].status # "none" =>
          /\ entries[m].reasons \in Reasons(m)
          /\ registered[m] \in Reasons(m)
    /\ m \notin revived => entries[m].reasons = registered[m]
    /\ m \in Drifting =>
          entries[m].status \in {"none", "failed_drift_check"}

CliOK(r) ==
    /\ r.at = "demote" =>
          /\ r.prev \in Models \ Drifting /\ r.prev # r.model
          /\ entries[r.prev].status # "none"
          /\ r.old \in Reasons(r.prev)
          /\ r.prev \notin r.stale \cup revived => r.old = registered[r.prev]
    /\ r.at = "copy" =>
          /\ r.prev \in Models \ Drifting
          /\ entries[r.prev].status # "none"
    /\ r.at \in {"demote", "copy", "promote"} \/ r.prev = NoModel
    /\ Promoting(r) =>
          /\ r.reasons \in Reasons(r.model) \ {"integrity"}
          /\ r.model \notin r.stale \cup revived =>
                r.reasons = registered[r.model]
    /\ Promoting(r) \/ r.at = "point" =>
          /\ r.model \in Models \ Drifting
          /\ r.status = StatusFor(r.model)
          /\ entries[r.model].status # "none"
    /\ r.at = "promote" => r.model # NoModel
    /\ r.at \in {"off", "unlink"} => r.model = NoModel

\* The gates passed, or an excuse.
Vouched(m) == m \in reset \cup revived \/ registered[m] # "integrity"

GatesInv ==
    /\ \A m \in Models : EntryOK(m)
    /\ \A c \in Clis : CliOK(clis[c])
    /\ \A c \in Clis : clis[c].at = "point" => Vouched(clis[c].model)
    /\ pointer.model # NoModel =>
          /\ pointer.model \notin Drifting
          /\ pointer.status = StatusFor(pointer.model)
          /\ entries[pointer.model].status # "none"
          /\ Vouched(pointer.model)

\* The active entries are those of these models.
ActiveOnly(S) == {m \in Models : entries[m].status \in Active} \subseteq S

Shown(m, status) == entries[m].status = status \/ m \in reset

Consistent ==
    /\ ActiveOnly({pointer.model})
    /\ pointer.model # NoModel => Shown(pointer.model, pointer.status)

\* What a command finds at its step as long as nothing is disturbed.
Calm(r) ==
    /\ r.at \in {"off", "look", "copy", "demote"} =>
          Consistent /\ told = pointer.model
    /\ r.at \in {"copy", "demote"} => r.prev = pointer.model
    /\ r.at = "promote" /\ r.prev = NoModel =>
          /\ Consistent /\ told = pointer.model
          /\ pointer.model \in {NoModel, r.model}
    /\ r.at = "promote" /\ r.prev # NoModel => ActiveOnly({})
    /\ r.at = "point" =>
          ActiveOnly({r.model}) /\ Shown(r.model, r.status)
    /\ r.at = "unlink" => ActiveOnly({})
    /\ r.at = "tell" => Consistent /\ r.model = pointer.model

CalmInv ==
    ~disturbed =>
        /\ \A c, d \in Clis :
              c = d \/ clis[c].at = "off" \/ clis[d].at = "off"
        /\ \A c \in Clis : clis[c].at # "off" => Calm(clis[c])
        /\ (\A c \in Clis : clis[c].at = "off") =>
              Consistent /\ told = pointer.model

RegInv == RegTypeOK /\ GatesInv /\ CalmInv

\* The steps of a command.
CliStep(c) ==
    \/ \E m \in Models : Vet(c, m)
    \/ StartDemotion(c) \/ Look(c) \/ Copy(c) \/ Demote(c)
    \/ Promote(c) \/ Point(c) \/ Tell(c) \/ Die(c)

LEMMA RegSteps ==
    RegNext <=> \/ \E m \in Models : Register(m)
                \/ \E c \in Clis : CliStep(c)
  BY DEF RegNext, CliStep

LEMMA ReasonsType == ASSUME NEW m \in Models PROVE Reasons(m) \subseteq Verdicts
  BY DEF Reasons, Verdicts

LEMMA GrantedType ==
    ASSUME NEW entry, NEW force \in BOOLEAN
    PROVE  Granted(entry, force) \in Active \cup {"none"}
  BY DEF Granted, Active

\* What a write of an entry leaves.
LEMMA OverwriteType ==
    ASSUME RegTypeOK, NEW c \in Clis, NEW m, NEW status \in Statuses,
           NEW reasons \in Verdicts, Overwrite(c, m, status, reasons)
    PROVE  /\ entries' \in [Models -> [status : Statuses, reasons : Verdicts]]
           /\ revived' \subseteq Models
           /\ UNCHANGED <<pointer, told, registered, disturbed>>
<1>1. clis[c].stale \subseteq Models  BY DEF RegTypeOK, ClisType
<1> QED  BY <1>1 DEF Overwrite, RegTypeOK

LEMMA RegTypesInit == RegInit => RegTypeOK
<1> SUFFICES ASSUME RegInit PROVE RegTypeOK
  OBVIOUS
<1>1. Quit \in ClisType  BY DEF Quit, ClisType, Verdicts
<1>2. clis \in [Clis -> ClisType] /\ \A c \in Clis : clis[c].at = "off"
  BY <1>1 DEF RegInit, Quit
<1>3. Unmade \in [status : Statuses, reasons : Verdicts]
  BY DEF Unmade, Statuses, Verdicts
<1>4. /\ entries \in [Models -> [status : Statuses, reasons : Verdicts]]
      /\ registered \in [Models -> Verdicts]
  BY <1>3 DEF RegInit, Verdicts
<1> QED  BY <1>2, <1>4 DEF RegInit, RegTypeOK, NoPointer

LEMMA RegTypesStep == RegTypeOK /\ [RegNext]_regVars => RegTypeOK'
<1> SUFFICES ASSUME RegTypeOK, [RegNext]_regVars PROVE RegTypeOK'
  OBVIOUS
<1> USE DEF RegTypeOK
<1>1. CASE UNCHANGED regVars  BY <1>1 DEF regVars
<1>2. ASSUME NEW m \in Models, Register(m) PROVE RegTypeOK'
  <2>1. PICK entry \in Trained(m) :
          /\ entries' = [entries EXCEPT ![m] = entry]
          /\ registered' = [registered EXCEPT ![m] = entry.reasons]
    BY <1>2 DEF Register
  <2>2. entry \in [status : Statuses, reasons : Verdicts]
    BY <2>1, ReasonsType DEF Trained, InitialStatus, Statuses
  <2>3. ASSUME NEW c \in Clis
        PROVE  [clis[c] EXCEPT !.stale = @ \cup {m}] \in ClisType
    BY DEF ClisType
  <2>4. clis' \in [Clis -> ClisType]  BY <1>2, <2>3 DEF Register
  <2> QED  BY <1>2, <2>1, <2>2, <2>4 DEF Register
<1>3. ASSUME NEW c \in Clis, CliStep(c) PROVE RegTypeOK'
  <2>1. clis[c] \in ClisType  OBVIOUS
  <2>2. CASE \E m \in Models : Vet(c, m)
    <3>1. PICK m \in Models, force \in BOOLEAN :
            Starts(c, [Quit EXCEPT !.at = "look", !.model = m,
                           !.reasons = entries[m].reasons,
                           !.status = Granted(entries[m], force)])
      BY <2>2 DEF Vet
    <3>2. [Quit EXCEPT !.at = "look", !.model = m,
                       !.reasons = entries[m].reasons,
                       !.status = Granted(entries[m], force)] \in ClisType
      BY GrantedType DEF Quit, ClisType, Verdicts
    <3> QED  BY <3>1, <3>2 DEF Starts, seen
  <2>3. CASE StartDemotion(c)
    BY <2>3 DEF StartDemotion, Starts, seen, Quit, ClisType, Verdicts
  <2>4. CASE Look(c)
    BY <2>1, <2>4 DEF Look, seen, Quit, ClisType, Verdicts
  <2>5. CASE Copy(c)
    <3>1. /\ clis'[c] \in ClisType
          /\ clis'[c].at = "demote" => clis'[c].prev \in Models
      <4>1. CASE clis[c].prev = clis[c].model
        BY <2>1, <2>5, <4>1 DEF Copy, ClisType
      <4>2. CASE clis[c].prev # clis[c].model
        <5>1. entries[clis[c].prev].reasons \in Verdicts  BY <2>5 DEF Copy
        <5> QED  BY <2>1, <2>5, <4>2, <5>1 DEF Copy, ClisType
      <4> QED  BY <4>1, <4>2
    <3>2. /\ clis' = [clis EXCEPT ![c] = clis'[c]]
          /\ UNCHANGED <<entries, pointer, told, seen, disturbed>>
      BY <2>5 DEF Copy
    <3> HIDE DEF RegTypeOK
    <3>6. clis \in [Clis -> ClisType]  BY DEF RegTypeOK
    <3>3. clis' \in [Clis -> ClisType]  BY <3>1, <3>2, <3>6
    <3>4. clis'[c].at \in {"demote", "promote"}
      BY <2>1, <2>5, <3>6 DEF Copy, ClisType
    <3>5. \A d \in Clis \ {c} : clis'[d] = clis[d]  BY <3>2, <3>6
    <3> QED  BY <3>1, <3>2, <3>3, <3>4, <3>5 DEF seen, RegTypeOK
  <2>6. CASE Demote(c)
    <3>1. clis[c].old \in Verdicts /\ "demoted" \in Statuses
      BY <2>1 DEF ClisType, Statuses
    <3>2. clis' \in [Clis -> ClisType]
      <4>1. CASE clis[c].model = NoModel
        BY <2>6, <4>1 DEF Demote, Quit, ClisType, Verdicts
      <4>2. CASE clis[c].model # NoModel
        <5> DEFINE r == [clis[c] EXCEPT !.at = "promote", !.old = "none",
                                        !.stale = @ \ {clis[c].prev}]
        <5>1. r \in ClisType  BY <2>1 DEF ClisType, Verdicts
        <5>2. clis' = [clis EXCEPT ![c] = r]  BY <2>6, <4>2 DEF Demote
        <5> HIDE DEF r
        <5> QED  BY <5>1, <5>2
      <4> QED  BY <4>1, <4>2
    <3>3. clis'[c].at \in {"unlink", "promote"}
      BY <2>1, <2>6 DEF Demote, Quit, ClisType
    <3>4. \A d \in Clis \ {c} : clis'[d] = clis[d]  BY <2>6 DEF Demote
    <3>5. Overwrite(c, clis[c].prev, "demoted", clis[c].old) /\ UNCHANGED reset
      BY <2>6 DEF Demote
    <3> QED  BY <3>1, <3>2, <3>3, <3>4, <3>5, OverwriteType
  <2>7. CASE Promote(c)
    <3>1. clis[c].reasons \in Verdicts /\ clis[c].status \in Statuses
      BY <2>1 DEF ClisType, Statuses
    <3>2. clis' \in [Clis -> ClisType]
      BY <2>1, <2>7 DEF Promote, Quit, ClisType, Verdicts
    <3> QED  BY <2>7, <3>1, <3>2, OverwriteType DEF Promote, Quit
  <2>8. CASE Point(c)
    BY <2>1, <2>8 DEF Point, seen, Quit, ClisType, Verdicts, NoPointer
  <2>9. CASE Tell(c)
    BY <2>1, <2>9 DEF Tell, seen, Quit, ClisType, Verdicts
  <2>10. CASE Die(c)
    BY <2>1, <2>10 DEF Die, seen, Quit, ClisType, Verdicts
  <2> QED
    BY <1>3, <2>2, <2>3, <2>4, <2>5, <2>6, <2>7, <2>8, <2>9, <2>10 DEF CliStep
<1> QED  BY <1>1, <1>2, <1>3, RegSteps

\* The registry's files, the commands and the observations keep to their
\* types (registry.py, Registry).
THEOREM RegTypes == RegSpec => []RegTypeOK
  BY RegTypesInit, RegTypesStep, PTL DEF RegSpec

(***************************************************************************)
(* The gates.                                                              *)
(***************************************************************************)

LEMMA GatesInit == RegInit => GatesInv
<1> SUFFICES ASSUME RegInit PROVE GatesInv
  OBVIOUS
<1>1. \A m \in Models : EntryOK(m)  BY DEF RegInit, EntryOK, Unmade
<1>2. \A c \in Clis : clis[c] = Quit  BY DEF RegInit
<1>3. CliOK(Quit)  BY ModelRegistryAssumption DEF CliOK, Quit, Promoting
<1> QED  BY <1>1, <1>2, <1>3 DEF RegInit, GatesInv, NoPointer, Quit

LEMMA GatesRegister ==
    ASSUME RegTypeOK, GatesInv, NEW m \in Models, Register(m)
    PROVE  GatesInv'
<1>1. /\ entries'[m].status \in {"candidate", "failed_drift_check"}
      /\ m \in Drifting => entries'[m].status = "failed_drift_check"
      /\ entries'[m].reasons \in Reasons(m)
      /\ registered'[m] = entries'[m].reasons
  BY DEF Register, Trained, InitialStatus, RegTypeOK
<1>2. \A n \in Models \ {m} :
        entries'[n] = entries[n] /\ registered'[n] = registered[n]
  BY DEF Register, RegTypeOK
<1>3. /\ reset' = reset \cup {m} /\ revived' = revived \ {m}
      /\ pointer' = pointer
  BY DEF Register
<1>4. ASSUME NEW d \in Clis
      PROVE  /\ clis'[d].at = clis[d].at /\ clis'[d].model = clis[d].model
             /\ clis'[d].reasons = clis[d].reasons
             /\ clis'[d].status = clis[d].status
             /\ clis'[d].prev = clis[d].prev /\ clis'[d].old = clis[d].old
             /\ clis'[d].stale = IF Holds(d, m) THEN clis[d].stale \cup {m}
                                               ELSE clis[d].stale
  BY DEF Register, RegTypeOK, ClisType
<1>5. \A n \in Models : EntryOK(n)'
  BY <1>1, <1>2, <1>3 DEF GatesInv, EntryOK
<1>6. ASSUME NEW d \in Clis PROVE CliOK(clis[d])'
  <2>1. CliOK(clis[d])  BY DEF GatesInv
  <2>2. \A n \in Models : entries[n].status # "none" =>
                          entries'[n].status # "none"
    BY <1>1, <1>2
  <2>3. clis[d].at = "demote" =>
          (clis[d].prev \notin clis'[d].stale \cup revived' =>
              clis[d].old = registered'[clis[d].prev])
    <3> SUFFICES ASSUME clis[d].at = "demote",
                        clis[d].prev \notin clis'[d].stale \cup revived'
                 PROVE  clis[d].old = registered'[clis[d].prev]
      OBVIOUS
    <3>1. clis[d].prev \in Models  BY <2>1 DEF CliOK
    <3>2. clis[d].prev # m  BY <1>4 DEF Holds
    <3>3. clis[d].prev \notin clis[d].stale \cup revived  BY <1>3, <1>4, <3>2
    <3> QED  BY <1>2, <2>1, <3>1, <3>2, <3>3 DEF CliOK
  <2>4. Promoting(clis[d]) =>
          (clis[d].model \notin clis'[d].stale \cup revived' =>
              clis[d].reasons = registered'[clis[d].model])
    <3> SUFFICES ASSUME Promoting(clis[d]),
                        clis[d].model \notin clis'[d].stale \cup revived'
                 PROVE  clis[d].reasons = registered'[clis[d].model]
      OBVIOUS
    <3>1. clis[d].model \in Models  BY <2>1 DEF CliOK
    <3>2. clis[d].model # m  BY <1>4 DEF Holds, Promoting
    <3>3. clis[d].model \notin clis[d].stale \cup revived  BY <1>3, <1>4, <3>2
    <3> QED  BY <1>2, <2>1, <3>1, <3>2, <3>3 DEF CliOK
  <2>5. Promoting(clis[d])' <=> Promoting(clis[d])  BY <1>4 DEF Promoting
  <2> QED  BY <1>4, <2>1, <2>2, <2>3, <2>4, <2>5 DEF CliOK
<1>7. \A n \in Models : Vouched(n) => Vouched(n)'
  BY <1>2, <1>3 DEF Vouched
<1>8. ASSUME NEW d \in Clis, clis'[d].at = "point"
      PROVE  Vouched(clis[d].model)'
  <2>1. Vouched(clis[d].model) /\ clis[d].model \in Models
    BY <1>4, <1>8 DEF GatesInv, CliOK
  <2> QED  BY <1>2, <1>3, <1>4, <2>1 DEF Vouched
<1>9. pointer'.model # NoModel =>
        entries'[pointer'.model].status # "none" /\ Vouched(pointer.model)'
  BY <1>1, <1>2, <1>3 DEF GatesInv, Vouched, RegTypeOK
<1> QED  BY <1>3, <1>5, <1>6, <1>8, <1>9 DEF GatesInv

\* A step of a command that writes no entry.
LEMMA GatesKept ==
    ASSUME RegTypeOK, GatesInv, NEW c \in Clis,
           UNCHANGED <<entries, registered, reset, revived>>,
           \A d \in Clis \ {c} : clis'[d] = clis[d],
           CliOK(clis[c])', clis'[c].at = "point" => Vouched(clis[c].model)',
           \/ pointer' = pointer
           \/ pointer' = NoPointer
           \/ clis[c].at = "point" /\ pointer' = [model |-> clis[c].model,
                                                 status |-> clis[c].status]
    PROVE  GatesInv'
<1>1. \A n \in Models : EntryOK(n)'  BY DEF GatesInv, EntryOK
<1>2. \A d \in Clis : CliOK(clis[d])'
  BY DEF GatesInv, CliOK, Promoting
<1>3. \A d \in Clis : clis'[d].at = "point" => Vouched(clis[d].model)'
  BY DEF GatesInv, Vouched
<1>4. CASE pointer' = pointer
  BY <1>1, <1>2, <1>3, <1>4 DEF GatesInv, Vouched
<1>5. CASE pointer' = NoPointer
  BY <1>1, <1>2, <1>3, <1>5 DEF GatesInv, NoPointer
<1>6. CASE clis[c].at = "point" /\ pointer' = [model |-> clis[c].model,
                                              status |-> clis[c].status]
  <2>1. CliOK(clis[c]) /\ Vouched(clis[c].model)  BY <1>6 DEF GatesInv
  <2> QED  BY <1>1, <1>2, <1>3, <1>6, <2>1 DEF GatesInv, CliOK, Vouched
<1> QED  BY <1>4, <1>5, <1>6

LEMMA ReasonsGranted ==
    ASSUME RegTypeOK, GatesInv, NEW m \in Models, NEW force \in BOOLEAN,
           entries[m].status # "none",
           Granted(entries[m], force) # "none"
    PROVE  /\ m \notin Drifting
           /\ entries[m].reasons \in Reasons(m) \ {"integrity"}
           /\ Granted(entries[m], force) = StatusFor(m)
           /\ m \notin revived => entries[m].reasons = registered[m]
  BY DEF GatesInv, EntryOK, Granted, Reasons, StatusFor

LEMMA GatesOverwrite ==
    ASSUME RegTypeOK, GatesInv, NEW c \in Clis, NEW m \in Models \ Drifting,
           NEW status \in Statuses \ {"none"}, NEW reasons \in Reasons(m),
           Overwrite(c, m, status, reasons),
           entries[m].status # "none",
           m \notin clis[c].stale \cup revived => reasons = registered[m],
           \A d \in Clis \ {c} : clis'[d] = clis[d],
           CliOK(clis[c])', clis'[c].at = "point" => Vouched(clis[c].model)',
           \A n \in Models : Vouched(n) => Vouched(n)'
    PROVE  GatesInv'
<1>1. /\ entries'[m] = [status |-> status, reasons |-> reasons]
      /\ \A n \in Models \ {m} : entries'[n] = entries[n]
  BY DEF Overwrite, RegTypeOK
<1>2. /\ revived \subseteq revived'
      /\ m \notin revived' => m \notin clis[c].stale \cup revived
      /\ \A n \in Models \ {m} : n \in revived' => n \in revived
      /\ UNCHANGED <<pointer, registered>>
  BY DEF Overwrite
<1>3. \A n \in Models : EntryOK(n)'
  BY <1>1, <1>2 DEF GatesInv, EntryOK
<1>4. ASSUME NEW d \in Clis \ {c} PROVE CliOK(clis[d])'
  <2>1. CliOK(clis[d])  BY DEF GatesInv
  <2>2. \A n \in Models : entries[n].status # "none" =>
                          entries'[n].status # "none"
    BY <1>1
  <2> QED  BY <1>2, <2>1, <2>2 DEF CliOK, Promoting
<1>5. ASSUME NEW d \in Clis, clis'[d].at = "point"
      PROVE  Vouched(clis[d].model)'
  <2>1. CASE d = c  BY <1>5, <2>1
  <2>2. CASE d # c
    <3>1. Vouched(clis[d].model) /\ clis[d].model \in Models
      BY <1>5, <2>2 DEF GatesInv, CliOK
    <3>2. clis'[d] = clis[d]  BY <2>2
    <3> QED  BY <3>1, <3>2 DEF Vouched
  <2> QED  BY <2>1, <2>2
<1>6. pointer.model # NoModel =>
        entries'[pointer.model].status # "none" /\ Vouched(pointer.model)'
  BY <1>1, <1>2 DEF GatesInv, Vouched, RegTypeOK
<1> QED  BY <1>2, <1>3, <1>4, <1>5, <1>6 DEF GatesInv

LEMMA GatesCli ==
    ASSUME RegTypeOK, GatesInv, NEW c \in Clis, CliStep(c) PROVE GatesInv'
<1> USE ModelRegistryAssumption
<1>1. clis \in [Clis -> ClisType]  BY DEF RegTypeOK
<1>2. CliOK(clis[c]) /\ clis[c] \in ClisType  BY <1>1 DEF GatesInv
<1>3. CASE \E m \in Models : Vet(c, m)
  <2>1. PICK m \in Models, force \in BOOLEAN :
          /\ entries[m].status # "none"
          /\ Granted(entries[m], force) # "none"
          /\ Starts(c, [Quit EXCEPT !.at = "look", !.model = m,
                            !.reasons = entries[m].reasons,
                            !.status = Granted(entries[m], force)])
    BY <1>3 DEF Vet
  <2>2. /\ clis'[c] = [Quit EXCEPT !.at = "look", !.model = m,
                                   !.reasons = entries[m].reasons,
                                   !.status = Granted(entries[m], force)]
        /\ \A d \in Clis \ {c} : clis'[d] = clis[d]
        /\ UNCHANGED <<entries, pointer, registered, reset, revived>>
    BY <1>1, <2>1 DEF Starts, seen
  <2>3. CliOK(clis[c])'
    BY <2>1, <2>2, ReasonsGranted DEF CliOK, Promoting, Quit
  <2> QED  BY <2>2, <2>3, GatesKept DEF Quit
<1>4. CASE StartDemotion(c)
  <2>1. /\ clis'[c] = [Quit EXCEPT !.at = "look"]
        /\ \A d \in Clis \ {c} : clis'[d] = clis[d]
        /\ UNCHANGED <<entries, pointer, registered, reset, revived>>
    BY <1>1, <1>4 DEF StartDemotion, Starts, seen
  <2>2. CliOK(clis[c])'  BY <2>1 DEF CliOK, Promoting, Quit
  <2> QED  BY <2>1, <2>2, GatesKept DEF Quit
<1>5. CASE Look(c)
  <2>1. /\ \A d \in Clis \ {c} : clis'[d] = clis[d]
        /\ UNCHANGED <<entries, pointer, registered, reset, revived>>
    BY <1>1, <1>5 DEF Look, seen
  <2>2. CliOK(clis[c])' /\ clis'[c].at # "point"
    <3>1. CASE pointer.model # NoModel
      <4>1. clis'[c] = [clis[c] EXCEPT !.at = "copy", !.prev = pointer.model]
        BY <1>1, <1>5, <3>1 DEF Look
      <4>2. /\ pointer.model \in Models \ Drifting
            /\ entries[pointer.model].status # "none"
        BY <3>1 DEF GatesInv, RegTypeOK
      <4> QED  BY <1>2, <1>5, <2>1, <4>1, <4>2
               DEF CliOK, Promoting, Look, ClisType
    <3>2. CASE pointer.model = NoModel /\ clis[c].model = NoModel
      <4>1. clis'[c] = Quit  BY <1>1, <1>5, <3>2 DEF Look
      <4> QED  BY <4>1 DEF CliOK, Promoting, Quit
    <3>3. CASE pointer.model = NoModel /\ clis[c].model # NoModel
      <4>1. clis'[c] = [clis[c] EXCEPT !.at = "promote"]
        BY <1>1, <1>5, <3>3 DEF Look
      <4> QED  BY <1>2, <1>5, <2>1, <3>3, <4>1
               DEF CliOK, Promoting, Look, ClisType
    <3> QED  BY <3>1, <3>2, <3>3
  <2> QED  BY <2>1, <2>2, GatesKept
<1>6. CASE Copy(c)
  <2>1. /\ \A d \in Clis \ {c} : clis'[d] = clis[d]
        /\ UNCHANGED <<entries, pointer, registered, reset, revived>>
    BY <1>1, <1>6 DEF Copy, seen
  <2>2. /\ clis[c].at = "copy" /\ clis[c].prev \in Models \ Drifting
        /\ entries[clis[c].prev].status # "none"
    BY <1>2, <1>6 DEF Copy, CliOK
  <2>3. CliOK(clis[c])' /\ clis'[c].at # "point"
    <3>1. CASE clis[c].prev = clis[c].model
      <4>1. clis'[c] = [clis[c] EXCEPT !.at = "promote", !.prev = NoModel]
        BY <1>1, <1>6, <3>1 DEF Copy
      <4> QED  BY <1>2, <2>1, <2>2, <3>1, <4>1 DEF CliOK, Promoting, ClisType
    <3>2. CASE clis[c].prev # clis[c].model
      <4>1. clis'[c] = [clis[c] EXCEPT !.at = "demote",
                                       !.old = entries[clis[c].prev].reasons]
        BY <1>1, <1>6, <3>2 DEF Copy
      <4>2. EntryOK(clis[c].prev)  BY <2>2 DEF GatesInv
      <4> QED  BY <1>2, <2>1, <2>2, <3>2, <4>1, <4>2
               DEF CliOK, Promoting, ClisType, EntryOK
    <3> QED  BY <3>1, <3>2
  <2> QED  BY <2>1, <2>3, GatesKept
<1>7. CASE Demote(c)
  <2>1. /\ clis[c].at = "demote" /\ reset' = reset
        /\ Overwrite(c, clis[c].prev, "demoted", clis[c].old)
        /\ \A d \in Clis \ {c} : clis'[d] = clis[d]
    BY <1>1, <1>7 DEF Demote
  <2>2. /\ clis[c].prev \in Models \ Drifting
        /\ entries[clis[c].prev].status # "none"
        /\ clis[c].old \in Reasons(clis[c].prev)
        /\ clis[c].prev \notin clis[c].stale \cup revived =>
              clis[c].old = registered[clis[c].prev]
        /\ clis[c].prev # clis[c].model
    BY <1>2, <2>1 DEF CliOK
  <2>3. CliOK(clis[c])' /\ clis'[c].at # "point"
    <3>1. CASE clis[c].model = NoModel
      <4>1. clis'[c] = [Quit EXCEPT !.at = "unlink"]
        BY <1>1, <1>7, <3>1 DEF Demote
      <4> QED  BY <4>1 DEF CliOK, Promoting, Quit
    <3>2. CASE clis[c].model # NoModel
      <4>1. clis'[c] = [clis[c] EXCEPT !.at = "promote", !.old = "none",
                                       !.stale = @ \ {clis[c].prev}]
        BY <1>1, <1>7, <3>2 DEF Demote
      <4>2. /\ Promoting(clis[c]) /\ clis[c].model \in Models
            /\ clis[c].reasons \in Reasons(clis[c].model) \ {"integrity"}
            /\ clis[c].model \notin clis[c].stale \cup revived =>
                  clis[c].reasons = registered[clis[c].model]
            /\ clis[c].model \notin Drifting
            /\ clis[c].status = StatusFor(clis[c].model)
            /\ entries[clis[c].model].status # "none"
        BY <1>2, <2>1, <3>2 DEF CliOK, Promoting
      <4>3. /\ entries'[clis[c].model].status # "none"
            /\ revived \subseteq revived' /\ registered' = registered
        BY <2>1, <2>2, <4>2 DEF Overwrite, RegTypeOK
      <4>4. /\ clis'[c].at = "promote" /\ clis'[c].model = clis[c].model
            /\ clis'[c].reasons = clis[c].reasons
            /\ clis'[c].status = clis[c].status
            /\ clis'[c].stale = clis[c].stale \ {clis[c].prev}
        BY <1>2, <4>1 DEF ClisType
      <4> QED  BY <2>2, <3>2, <4>2, <4>3, <4>4 DEF CliOK, Promoting
    <3> QED  BY <3>1, <3>2
  <2>4. \A n \in Models : Vouched(n) => Vouched(n)'
    BY <2>1 DEF Overwrite, Vouched
  <2> QED
    BY <2>1, <2>2, <2>3, <2>4, GatesOverwrite DEF Statuses
<1>8. CASE Promote(c)
  <2> DEFINE m == clis[c].model
  <2>1. /\ clis[c].at = "promote" /\ reset' = reset \ {m}
        /\ Overwrite(c, m, clis[c].status, clis[c].reasons)
        /\ \A d \in Clis \ {c} : clis'[d] = clis[d]
        /\ clis'[c] = [Quit EXCEPT !.at = "point", !.model = m,
                                   !.status = clis[c].status]
    BY <1>1, <1>8 DEF Promote
  <2>2. /\ m \in Models \ Drifting
        /\ clis[c].reasons \in Reasons(m) \ {"integrity"}
        /\ m \notin clis[c].stale \cup revived =>
              clis[c].reasons = registered[m]
        /\ clis[c].status = StatusFor(m)
        /\ entries[m].status # "none"
    BY <1>2, <2>1 DEF CliOK, Promoting
  <2>3. /\ m \in clis[c].stale \cup revived => m \in revived'
        /\ revived \subseteq revived' /\ registered' = registered
        /\ entries'[m].status = clis[c].status
    BY <2>1, <2>2 DEF Overwrite, RegTypeOK
  <2>4. m \in revived' \/ registered'[m] # "integrity"  BY <2>2, <2>3
  <2>5. \A n \in Models : Vouched(n) => Vouched(n)'
    BY <2>1, <2>3, <2>4 DEF Vouched
  <2>6. clis[c].status \in Statuses \ {"none"}
    BY <2>2 DEF StatusFor, Statuses, Active
  <2>7. clis'[c].model = m /\ clis'[c].at = "point"
        /\ clis'[c].status = clis[c].status /\ clis'[c].prev = NoModel
    BY <2>1 DEF Quit
  <2>8. CliOK(clis[c])'  BY <2>2, <2>3, <2>6, <2>7 DEF CliOK, Promoting
  <2>9. Vouched(clis[c].model)'  BY <2>4, <2>7 DEF Vouched
  <2> HIDE DEF m
  <2> QED  BY <2>1, <2>2, <2>5, <2>6, <2>8, <2>9, GatesOverwrite
<1>9. CASE Point(c)
  <2>1. /\ clis'[c] = [Quit EXCEPT !.at = "tell", !.model = clis[c].model]
        /\ \A d \in Clis \ {c} : clis'[d] = clis[d]
        /\ UNCHANGED <<entries, registered, reset, revived>>
        /\ \/ pointer' = NoPointer
           \/ clis[c].at = "point" /\ pointer' = [model |-> clis[c].model,
                                                 status |-> clis[c].status]
    BY <1>1, <1>9 DEF Point, seen
  <2>2. CliOK(clis[c])'  BY <2>1 DEF CliOK, Promoting, Quit
  <2> QED  BY <2>1, <2>2, GatesKept DEF Quit
<1>10. CASE Tell(c) \/ Die(c)
  <2>1. /\ clis'[c] = Quit
        /\ \A d \in Clis \ {c} : clis'[d] = clis[d]
        /\ UNCHANGED <<entries, pointer, registered, reset, revived>>
    BY <1>1, <1>10 DEF Tell, Die, seen
  <2>2. CliOK(clis[c])'  BY <2>1 DEF CliOK, Promoting, Quit
  <2> QED  BY <2>1, <2>2, GatesKept DEF Quit
<1> QED
  BY <1>3, <1>4, <1>5, <1>6, <1>7, <1>8, <1>9, <1>10 DEF CliStep

LEMMA GatesStep == RegTypeOK /\ GatesInv /\ [RegNext]_regVars => GatesInv'
<1> SUFFICES ASSUME RegTypeOK, GatesInv, [RegNext]_regVars PROVE GatesInv'
  OBVIOUS
<1>1. CASE UNCHANGED regVars
  <2>1. UNCHANGED <<entries, pointer, clis, registered, reset, revived>>
    BY <1>1 DEF regVars
  <2> QED  BY <2>1 DEF GatesInv, EntryOK, CliOK, Promoting, Vouched
<1> QED  BY <1>1, RegSteps, GatesRegister, GatesCli

LEMMA GatesSuffice == RegTypeOK /\ GatesInv => PointedPassedGates
<1> SUFFICES ASSUME RegTypeOK, GatesInv, pointer.model # NoModel,
                    pointer.model \notin reset \cup revived
             PROVE  PointedPassedGates
  BY DEF PointedPassedGates
<1>1. /\ pointer.model \in Models \ Drifting
      /\ registered[pointer.model] \in Reasons(pointer.model) \ {"integrity"}
      /\ pointer.status = StatusFor(pointer.model)
  BY DEF GatesInv, EntryOK, Vouched, RegTypeOK
<1> QED  BY <1>1 DEF PointedPassedGates, Reasons, StatusFor

\* The current model passed the gates of promotion (registry.py,
\* promote_to_current).
THEOREM GatesHold == RegSpec => []PointedPassedGates
  BY RegTypesInit, RegTypesStep, GatesInit, GatesStep, GatesSuffice, PTL
  DEF RegSpec

(***************************************************************************)
(* The pointer, the entries and the history.                               *)
(***************************************************************************)

LEMMA CalmInit == RegInit => CalmInv
<1> SUFFICES ASSUME RegInit PROVE CalmInv
  OBVIOUS
<1>1. \A c \in Clis : clis[c].at = "off"  BY DEF RegInit, Quit
<1>2. Consistent /\ told = pointer.model
  BY ModelRegistryAssumption
  DEF RegInit, Consistent, ActiveOnly, Active, Unmade, NoPointer
<1> QED  BY <1>1, <1>2 DEF CalmInv

LEMMA CalmRegister ==
    ASSUME RegTypeOK, GatesInv, CalmInv, NEW m \in Models, Register(m)
    PROVE  CalmInv'
<1>1. /\ entries'[m].status \in {"candidate", "failed_drift_check"}
      /\ \A n \in Models \ {m} : entries'[n] = entries[n]
  BY DEF Register, Trained, InitialStatus, RegTypeOK
<1>2. reset' = reset \cup {m} /\ UNCHANGED <<pointer, told, disturbed>>
  BY DEF Register
<1>3. ASSUME NEW d \in Clis
      PROVE  /\ clis'[d].at = clis[d].at /\ clis'[d].model = clis[d].model
             /\ clis'[d].status = clis[d].status
             /\ clis'[d].prev = clis[d].prev
  BY DEF Register, RegTypeOK, ClisType
<1>4. entries'[m].status \notin Active  BY <1>1 DEF Active
<1>7. Consistent => Consistent'
  <2>1. ActiveOnly({pointer.model}) => ActiveOnly({pointer.model})'
    BY <1>1, <1>2, <1>4 DEF ActiveOnly
  <2>2. pointer.model # NoModel =>
          (Shown(pointer.model, pointer.status)
             => Shown(pointer.model, pointer.status)')
    BY <1>1, <1>2 DEF Shown, RegTypeOK
  <2> QED  BY <1>2, <2>1, <2>2 DEF Consistent
<1>8. ASSUME NEW d \in Clis, Calm(clis[d]) PROVE Calm(clis[d])'
  <2>1. clis[d].at = "point" =>
          ActiveOnly({clis[d].model})' /\ Shown(clis[d].model, clis[d].status)'
    <3> SUFFICES ASSUME clis[d].at = "point"
                 PROVE  /\ ActiveOnly({clis[d].model})'
                        /\ Shown(clis[d].model, clis[d].status)'
      OBVIOUS
    <3>1. clis[d].model \in Models  BY DEF GatesInv, CliOK
    <3>2. /\ ActiveOnly({clis[d].model})
          /\ Shown(clis[d].model, clis[d].status)
      BY <1>8 DEF Calm
    <3>3. ActiveOnly({clis[d].model})'
      BY <1>1, <1>3, <1>4, <3>2 DEF ActiveOnly
    <3> QED  BY <1>1, <1>2, <1>3, <3>1, <3>2, <3>3 DEF Shown
  <2>2. ActiveOnly({}) => ActiveOnly({})'  BY <1>1, <1>4 DEF ActiveOnly
  <2> QED  BY <1>2, <1>3, <1>7, <1>8, <2>1, <2>2 DEF Calm
<1> QED  BY <1>2, <1>3, <1>7, <1>8 DEF CalmInv

\* A step of the only command that is going on.
LEMMA CalmAlone ==
    ASSUME RegTypeOK, CalmInv, NEW c \in Clis,
           ~disturbed, clis[c].at # "off",
           \A d \in Clis \ {c} : clis'[d] = clis[d],
           clis'[c].at # "off" => Calm(clis[c])',
           clis'[c].at = "off" => Consistent' /\ told' = pointer'.model
    PROVE  CalmInv'
<1>1. \A d \in Clis \ {c} : clis[d].at = "off"  BY DEF CalmInv
<1> QED  BY <1>1 DEF CalmInv

LEMMA CalmCli ==
    ASSUME RegTypeOK, GatesInv, CalmInv, NEW c \in Clis, CliStep(c)
    PROVE  CalmInv'
<1> SUFFICES ASSUME ~disturbed' PROVE CalmInv'
  BY DEF CalmInv
<1> USE ModelRegistryAssumption
<1>1. clis \in [Clis -> ClisType]  BY DEF RegTypeOK
<1>2. CliOK(clis[c]) /\ clis[c] \in ClisType  BY <1>1 DEF GatesInv
<1>3. ~disturbed
  BY DEF CliStep, Vet, StartDemotion, Starts, Look, Copy, Demote, Promote,
         Overwrite, Point, Tell, Die
<1>4. clis[c].at # "off" => Calm(clis[c])  BY <1>3 DEF CalmInv
<1>5. CASE StartDemotion(c) \/ \E m \in Models : Vet(c, m)
  <2>1. PICK r : r.at = "look" /\ Starts(c, r)
    BY <1>5 DEF StartDemotion, Vet, Quit
  <2>2. /\ clis'[c].at = "look" /\ clis[c].at = "off"
        /\ \A d \in Clis \ {c} : clis'[d] = clis[d]
        /\ \A d \in Clis \ {c} : clis[d].at = "off"
        /\ UNCHANGED <<entries, pointer, told, reset>>
    BY <1>1, <2>1 DEF Starts, Others, seen
  <2>3. Consistent' /\ told' = pointer'.model
    BY <1>3, <2>2 DEF CalmInv, Consistent, ActiveOnly, Shown
  <2> QED  BY <2>2, <2>3 DEF CalmInv, Calm
<1>6. CASE Look(c)
  <2>1. /\ clis[c].at = "look" /\ clis[c].prev = NoModel
        /\ \A d \in Clis \ {c} : clis'[d] = clis[d]
        /\ UNCHANGED <<entries, pointer, told, reset>>
    BY <1>1, <1>2, <1>6 DEF Look, seen, CliOK
  <2>2. Consistent' /\ told' = pointer'.model
    BY <1>4, <2>1 DEF Calm, Consistent, ActiveOnly, Shown
  <2>3. \/ clis'[c].at = "off"
        \/ clis'[c].at = "copy" /\ clis'[c].prev = pointer.model
        \/ /\ clis'[c].at = "promote" /\ clis'[c].prev = NoModel
           /\ pointer.model = NoModel
    BY <1>1, <1>2, <1>6, <2>1 DEF Look, Quit, ClisType
  <2> QED  BY <1>3, <2>1, <2>2, <2>3, CalmAlone DEF Calm
<1>7. CASE Copy(c)
  <2>1. /\ clis[c].at = "copy" /\ clis[c].prev = pointer.model
        /\ \A d \in Clis \ {c} : clis'[d] = clis[d]
        /\ UNCHANGED <<entries, pointer, told, reset>>
    BY <1>1, <1>4, <1>7 DEF Copy, seen, Calm
  <2>2. Consistent' /\ told' = pointer'.model
    BY <1>4, <2>1 DEF Calm, Consistent, ActiveOnly, Shown
  <2>3. \/ clis'[c].at = "demote" /\ clis'[c].prev = pointer.model
        \/ /\ clis'[c].at = "promote" /\ clis'[c].prev = NoModel
           /\ clis'[c].model = pointer.model
    BY <1>1, <1>2, <1>7, <2>1 DEF Copy, ClisType
  <2> QED  BY <1>3, <2>1, <2>2, <2>3, CalmAlone DEF Calm
<1>8. CASE Demote(c)
  <2>1. /\ clis[c].at = "demote" /\ clis[c].prev = pointer.model
        /\ clis[c].prev \in Models /\ Consistent
    BY <1>2, <1>4, <1>8 DEF Demote, Calm, CliOK
  <2>2. /\ entries'[pointer.model].status = "demoted"
        /\ \A n \in Models \ {pointer.model} : entries'[n] = entries[n]
    BY <1>8, <2>1 DEF Demote, Overwrite, RegTypeOK
  <2>3. ActiveOnly({})'  BY <2>1, <2>2 DEF Consistent, ActiveOnly, Active
  <2>4. \A d \in Clis \ {c} : clis'[d] = clis[d]  BY <1>1, <1>8 DEF Demote
  <2>5. \/ clis'[c].at = "unlink"
        \/ clis'[c].at = "promote" /\ clis'[c].prev # NoModel
    <3>1. CASE clis[c].model = NoModel
      BY <1>1, <1>8, <3>1 DEF Demote, Quit
    <3>2. CASE clis[c].model # NoModel
      <4>1. clis'[c] = [clis[c] EXCEPT !.at = "promote", !.old = "none",
                                       !.stale = @ \ {clis[c].prev}]
        BY <1>1, <1>8, <3>2 DEF Demote
      <4> QED  BY <1>2, <2>1, <4>1 DEF ClisType
    <3> QED  BY <3>1, <3>2
  <2> QED  BY <1>3, <2>1, <2>3, <2>4, <2>5, CalmAlone DEF Calm
<1>9. CASE Promote(c)
  <2>1. /\ clis[c].at = "promote" /\ clis[c].model \in Models
        /\ \/ clis[c].prev = NoModel /\ Consistent
              /\ pointer.model \in {NoModel, clis[c].model}
           \/ ActiveOnly({})
    BY <1>2, <1>4, <1>9 DEF Promote, Calm, CliOK, Promoting
  <2>2. /\ entries'[clis[c].model].status = clis[c].status
        /\ \A n \in Models \ {clis[c].model} : entries'[n] = entries[n]
    BY <1>9, <2>1 DEF Promote, Overwrite, RegTypeOK
  <2>3. /\ clis'[c].at = "point" /\ clis'[c].model = clis[c].model
        /\ clis'[c].status = clis[c].status
        /\ \A d \in Clis \ {c} : clis'[d] = clis[d]
    BY <1>1, <1>9 DEF Promote, Quit
  <2>4. ActiveOnly({clis[c].model})'
    BY <2>1, <2>2, <2>3 DEF Consistent, ActiveOnly
  <2>5. Shown(clis[c].model, clis[c].status)'  BY <2>2, <2>3 DEF Shown
  <2> QED  BY <1>3, <2>1, <2>3, <2>4, <2>5, CalmAlone DEF Calm
<1>10. CASE Point(c)
  <2>1. /\ clis[c].at \in {"point", "unlink"}
        /\ clis'[c].at = "tell" /\ clis'[c].model = clis[c].model
        /\ \A d \in Clis \ {c} : clis'[d] = clis[d]
        /\ UNCHANGED <<entries, reset>>
    BY <1>1, <1>10 DEF Point, Quit, seen
  <2>2. Consistent' /\ pointer'.model = clis[c].model
    <3>1. CASE clis[c].at = "point"
      <4>1. pointer' = [model |-> clis[c].model, status |-> clis[c].status]
        BY <1>10, <3>1 DEF Point
      <4> QED  BY <1>4, <2>1, <3>1, <4>1 DEF Calm, Consistent, ActiveOnly, Shown
    <3>2. CASE clis[c].at = "unlink"
      <4>1. pointer' = NoPointer /\ clis[c].model = NoModel
        BY <1>2, <1>10, <3>2 DEF Point, CliOK
      <4> QED
        BY <1>4, <2>1, <3>2, <4>1 DEF Calm, Consistent, ActiveOnly, NoPointer
    <3> QED  BY <2>1, <3>1, <3>2
  <2> QED  BY <1>3, <2>1, <2>2, CalmAlone DEF Calm
<1>11. CASE Tell(c)
  <2>1. /\ clis[c].at = "tell" /\ clis'[c].at = "off"
        /\ told' = clis[c].model
        /\ \A d \in Clis \ {c} : clis'[d] = clis[d]
        /\ UNCHANGED <<entries, pointer, reset>>
    BY <1>1, <1>11 DEF Tell, Quit, seen
  <2>2. Consistent' /\ told' = pointer'.model
    BY <1>4, <2>1 DEF Calm, Consistent, ActiveOnly, Shown
  <2> QED  BY <1>3, <2>1, <2>2, CalmAlone
<1>12. CASE Die(c)
  <2>1. /\ clis[c].at # "off" /\ clis'[c].at = "off" /\ ~Begun(clis[c])
        /\ \A d \in Clis \ {c} : clis'[d] = clis[d]
        /\ UNCHANGED <<entries, pointer, told, reset>>
    BY <1>1, <1>12 DEF Die, Quit, seen
  <2>2. Consistent /\ told = pointer.model
    BY <1>2, <1>4, <2>1 DEF Calm, Begun, ClisType
  <2>3. Consistent' /\ told' = pointer'.model
    BY <2>1, <2>2 DEF Consistent, ActiveOnly, Shown
  <2> QED  BY <1>3, <2>1, <2>3, CalmAlone
<1> QED
  BY <1>5, <1>6, <1>7, <1>8, <1>9, <1>10, <1>11, <1>12 DEF CliStep

LEMMA CalmStep ==
    RegTypeOK /\ GatesInv /\ CalmInv /\ [RegNext]_regVars => CalmInv'
<1> SUFFICES ASSUME RegTypeOK, GatesInv, CalmInv, [RegNext]_regVars
             PROVE  CalmInv'
  OBVIOUS
<1>1. CASE UNCHANGED regVars
  BY <1>1 DEF regVars, CalmInv, Calm, Consistent, ActiveOnly, Shown
<1> QED  BY <1>1, RegSteps, CalmRegister, CalmCli

LEMMA CalmSuffices ==
    RegTypeOK /\ CalmInv => OneCurrentModel /\ HistoryTellsPointer
<1> SUFFICES ASSUME RegTypeOK, CalmInv, Settled, ~disturbed
             PROVE  OneCurrentModel /\ HistoryTellsPointer
  BY DEF OneCurrentModel, HistoryTellsPointer
<1>1. Consistent /\ told = pointer.model
  <2>1. CASE \A c \in Clis : clis[c].at = "off"  BY <2>1 DEF CalmInv
  <2>2. CASE \E c \in Clis : clis[c].at # "off"
    <3>1. PICK c \in Clis : clis[c].at # "off"  BY <2>2
    <3>2. Calm(clis[c]) /\ ~Begun(clis[c]) /\ clis[c] \in ClisType
      BY <3>1 DEF CalmInv, Settled, RegTypeOK
    <3> QED  BY <3>1, <3>2 DEF Calm, Begun, ClisType
  <2> QED  BY <2>1, <2>2
<1> QED
  BY <1>1 DEF OneCurrentModel, HistoryTellsPointer, Consistent, ActiveOnly,
              Shown

LEMMA CalmAlways == RegSpec => [](RegTypeOK /\ CalmInv)
  BY RegTypesInit, RegTypesStep, GatesInit, GatesStep, CalmInit, CalmStep, PTL
  DEF RegSpec

\* Unless commands met or one died between its writes, the model pointed at
\* between commands is the only active one (registry.py, _do_promote).
THEOREM OneCurrent == RegSpec => []OneCurrentModel
  BY CalmAlways, CalmSuffices, PTL

\* On the same condition the history leaves the model pointed at
\* (registry.py, _do_promote and demote_current).
THEOREM HistoryTells == RegSpec => []HistoryTellsPointer
  BY CalmAlways, CalmSuffices, PTL
=============================================================================
