--------------------------- MODULE ModelRegistry ---------------------------
(***************************************************************************)
(* The registry of trained models (bot/ml/registry), one scope of it:      *)
(* commands of the ml command line register, promote and demote models in  *)
(* files that nothing locks. A promotion copies entries, then writes the   *)
(* demoted entry, the promoted entry, the current pointer and a line of    *)
(* current_history.jsonl, each file atomically and by itself.              *)
(*                                                                         *)
(* Left out: the artifacts (a model id fixes what they hold, so their      *)
(* check only refuses), the audit fields of an entry, and two commands     *)
(* that use the temporary name of one file at once.                        *)
(***************************************************************************)
EXTENDS Naturals, FiniteSets

CONSTANTS
    Clis,      \* promote and demote commands
    Models,    \* model ids of the scope
    NoModel,   \* no current model
    Drifting,  \* models whose evaluation reports drift
    Thin,      \* models with a judgment reason, of thinness
    Adjusted   \* models of adjusted prices; the flag that allows these, or
               \* an adversarial test that did not run, is not part of the id

ASSUME ModelRegistryAssumption ==
    /\ NoModel \notin Models
    /\ Drifting \subseteq Models /\ Thin \subseteq Models
    /\ Adjusted \subseteq Models

VARIABLES
    entries,    \* registry/<model_id>.json: status and the class of reasons
    pointer,    \* current/<scope_key>.json: model and status
    told,       \* the model the last line of the scope in the history leaves
    clis,       \* the process of each command
    registered, \* history: what the last registration of a model found
    reset,      \* history: models registered since they were promoted
    revived,    \* history: models whose entry is a copy older than their
                \* last registration
    disturbed   \* history: a command met another, or died between writes

regVars ==
    <<entries, pointer, told, clis, registered, reset, revived, disturbed>>
seen == <<registered, reset, revived>>

Active == {"current", "forced_promoted"}
Unmade == [status |-> "none", reasons |-> "none"]
NoPointer == [model |-> NoModel, status |-> "none"]

\* A command at a step: the model it promotes (NoModel for a demotion) with
\* the reasons it copied and the status granted, the current model it read
\* with the reasons it copied. "stale" (history): the models registered since
\* it copied their entry. A field is cleared once nothing reads it.
Quit == [at |-> "off", model |-> NoModel, reasons |-> "none",
         status |-> "none", prev |-> NoModel, old |-> "none", stale |-> {}]

RegInit ==
    /\ entries = [m \in Models |-> Unmade]
    /\ pointer = NoPointer
    /\ told = NoModel
    /\ clis = [c \in Clis |-> Quit]
    /\ registered = [m \in Models |-> "none"]
    /\ reset = {} /\ revived = {} /\ disturbed = FALSE

Others(c) == {d \in Clis \ {c} : clis[d].at # "off"}

\* The commands that have written and not finished.
Begun(r) ==
    \/ r.at \in {"point", "tell", "unlink"}
    \/ r.at = "promote" /\ r.prev # NoModel

(***************************************************************************)
(* Registration.                                                           *)
(***************************************************************************)

\* What a training of m may record: the status is that of drift or of none;
\* the reasons are of judgment, of integrity (with the unknown ones, which
\* are refused like these) or none.
InitialStatus(m) == IF m \in Drifting THEN "failed_drift_check" ELSE "candidate"

Reasons(m) == {IF m \in Thin THEN "judgment" ELSE "none"}
              \cup (IF m \in Adjusted THEN {"integrity"} ELSE {})

Trained(m) == [status : {InitialStatus(m)}, reasons : Reasons(m)]

\* The commands whose next write of the entry of m is of a copy they hold.
Holds(c, m) ==
    \/ clis[c].model = m /\ clis[c].at \in {"look", "copy", "demote", "promote"}
    \/ clis[c].prev = m /\ clis[c].at = "demote"

\* A registration reads nothing of the registry: the entry is one write.
Register(m) ==
    /\ \E entry \in Trained(m) :
          /\ entries' = [entries EXCEPT ![m] = entry]
          /\ registered' = [registered EXCEPT ![m] = entry.reasons]
    /\ reset' = reset \cup {m}
    /\ revived' = revived \ {m}
    /\ clis' = [c \in Clis |->
                  IF Holds(c, m)
                  THEN [clis[c] EXCEPT !.stale = @ \cup {m}]
                  ELSE clis[c]]
    /\ UNCHANGED <<pointer, told, disturbed>>

(***************************************************************************)
(* Promotion and demotion.                                                 *)
(***************************************************************************)

\* Variant for mutation: the guard on the status is dropped.
Granted_ReasonsOnly(entry, force) ==
    IF entry.reasons = "integrity" THEN "none"
    ELSE IF entry.reasons = "none" THEN "current"
    ELSE IF force THEN "forced_promoted" ELSE "none"

\* promote_to_current: the status the gates give an entry, "none" to refuse.
\* "force": --force with the gates that cover the reasons, and a reason.
Granted(entry, force) ==
    IF entry.status = "failed_drift_check" \/ entry.reasons = "integrity"
    THEN "none"
    ELSE IF entry.reasons = "none" THEN "current"
    ELSE IF force THEN "forced_promoted" ELSE "none"

\* A command that starts while another is going on may overtake it.
Starts(c, record) ==
    /\ clis[c].at = "off"
    /\ clis' = [clis EXCEPT ![c] = record]
    /\ disturbed' = (disturbed \/ Others(c) # {})
    /\ UNCHANGED <<entries, pointer, told, seen>>

\* A refusal changes nothing.
Vet(c, m) ==
    /\ entries[m].status # "none"
    /\ \E force \in BOOLEAN :
          /\ Granted(entries[m], force) # "none"
          /\ Starts(c, [Quit EXCEPT !.at = "look", !.model = m,
                            !.reasons = entries[m].reasons,
                            !.status = Granted(entries[m], force)])

StartDemotion(c) == Starts(c, [Quit EXCEPT !.at = "look"])

\* get_current reads the pointer; a demotion without one is refused.
Look(c) ==
    /\ clis[c].at = "look"
    /\ clis' = [clis EXCEPT ![c] =
                  IF pointer.model # NoModel
                  THEN [@ EXCEPT !.at = "copy", !.prev = pointer.model]
                  ELSE IF @.model = NoModel THEN Quit
                  ELSE [@ EXCEPT !.at = "promote"]]
    /\ UNCHANGED <<entries, pointer, told, seen, disturbed>>

\* Variant for mutation: a promotion demotes nothing.
Copy_NoDemotion(c) ==
    /\ clis[c].at = "copy"
    /\ clis' = [clis EXCEPT ![c] =
                  IF @.model # NoModel
                  THEN [@ EXCEPT !.at = "promote", !.prev = NoModel]
                  ELSE [@ EXCEPT !.at = "demote",
                                 !.old = entries[clis[c].prev].reasons]]
    /\ UNCHANGED <<entries, pointer, told, seen, disturbed>>

\* ... and then the entry it names. A promotion of the current model
\* demotes nothing.
Copy(c) ==
    /\ clis[c].at = "copy"
    /\ clis' = [clis EXCEPT ![c] =
                  IF @.prev = @.model
                  THEN [@ EXCEPT !.at = "promote", !.prev = NoModel]
                  ELSE [@ EXCEPT !.at = "demote",
                                 !.old = entries[clis[c].prev].reasons]]
    /\ UNCHANGED <<entries, pointer, told, seen, disturbed>>

\* Writing a copied entry undoes a registration since the copy.
Overwrite(c, m, status, reasons) ==
    /\ entries' = [entries EXCEPT ![m] =
                     [status |-> status, reasons |-> reasons]]
    /\ revived' = IF m \in clis[c].stale THEN revived \cup {m} ELSE revived
    /\ UNCHANGED <<pointer, told, registered, disturbed>>

Demote(c) ==
    /\ clis[c].at = "demote"
    /\ Overwrite(c, clis[c].prev, "demoted", clis[c].old)
    /\ clis' = [clis EXCEPT ![c] =
                  IF clis[c].model = NoModel
                  THEN [Quit EXCEPT !.at = "unlink"]
                  ELSE [clis[c] EXCEPT !.at = "promote", !.old = "none",
                                       !.stale = @ \ {clis[c].prev}]]
    /\ UNCHANGED reset

Promote(c) ==
    /\ clis[c].at = "promote"
    /\ Overwrite(c, clis[c].model, clis[c].status, clis[c].reasons)
    /\ clis' = [clis EXCEPT ![c] =
                  [Quit EXCEPT !.at = "point", !.model = clis[c].model,
                               !.status = clis[c].status]]
    /\ reset' = reset \ {clis[c].model}

\* Variant for mutation: a demotion appends no line to the history.
Point_Silent(c) ==
    /\ clis[c].at \in {"point", "unlink"}
    /\ pointer' = IF clis[c].at = "point"
                  THEN [model |-> clis[c].model, status |-> clis[c].status]
                  ELSE NoPointer
    /\ clis' = [clis EXCEPT ![c] =
                  IF @.at = "unlink" THEN Quit
                  ELSE [Quit EXCEPT !.at = "tell", !.model = clis[c].model]]
    /\ UNCHANGED <<entries, told, seen, disturbed>>

\* The pointer is replaced, or removed if it is still there.
Point(c) ==
    /\ clis[c].at \in {"point", "unlink"}
    /\ pointer' = IF clis[c].at = "point"
                  THEN [model |-> clis[c].model, status |-> clis[c].status]
                  ELSE NoPointer
    /\ clis' = [clis EXCEPT ![c] =
                  [Quit EXCEPT !.at = "tell", !.model = clis[c].model]]
    /\ UNCHANGED <<entries, told, seen, disturbed>>

Tell(c) ==
    /\ clis[c].at = "tell"
    /\ told' = clis[c].model
    /\ clis' = [clis EXCEPT ![c] = Quit]
    /\ UNCHANGED <<entries, pointer, seen, disturbed>>

\* The command dies, or a read or a write of it raises: nothing is undone.
Die(c) ==
    /\ clis[c].at # "off"
    /\ clis' = [clis EXCEPT ![c] = Quit]
    /\ disturbed' = (disturbed \/ Begun(clis[c]))
    /\ UNCHANGED <<entries, pointer, told, seen>>

RegNext ==
    \/ \E m \in Models : Register(m)
    \/ \E c \in Clis :
          \/ \E m \in Models : Vet(c, m)
          \/ StartDemotion(c) \/ Look(c) \/ Copy(c) \/ Demote(c)
          \/ Promote(c) \/ Point(c) \/ Tell(c) \/ Die(c)

RegSpec == RegInit /\ [][RegNext]_regVars

(***************************************************************************)
(* Properties.                                                             *)
(***************************************************************************)

\* No command is between its first write and its last.
Settled == \A c \in Clis : ~Begun(clis[c])

\* Between commands, and unless commands met or one died between its
\* writes, the entry of the current model is the only active one; it is
\* active unless the model was registered again, which makes it a candidate
\* that the pointer still names (_do_promote, demote_current,
\* register_candidate).
OneCurrentModel ==
    (Settled /\ ~disturbed) =>
        /\ \A m \in Models : entries[m].status \in Active => pointer.model = m
        /\ pointer.model # NoModel =>
              \/ entries[pointer.model].status = pointer.status
              \/ pointer.model \in reset

\* Between commands, and unless commands met or one died between its
\* writes, the history leaves the model that the pointer names: the audit
\* of promotions misses none (_do_promote, demote_current).
HistoryTellsPointer == (Settled /\ ~disturbed) => told = pointer.model

\* Whatever commands meet or die, the pointer names a model whose last
\* registration passed the gates, by force where a judgment reason stood,
\* unless it was registered again since, or a copy undid that registration
\* (promote_to_current, infer_initial_status).
PointedPassedGates ==
    pointer.model # NoModel =>
        \/ pointer.model \in reset \cup revived
        \/ /\ pointer.model \notin Drifting
           /\ \/ registered[pointer.model] = "none"
              \/ /\ registered[pointer.model] = "judgment"
                 /\ pointer.status = "forced_promoted"
=============================================================================
