------------------------ MODULE OperationalExercises ------------------------
(***************************************************************************)
(* The monitoring exercises an administrator starts: a synthetic signal in *)
(* the memory of the API, at most one at a time, and a row per exercise in *)
(* the database, with timers that end both.  The memory and the timers are *)
(* lost when the API restarts; the signal is then restored from the rows,  *)
(* if the exercises are enabled there and the database answers.            *)
(*                                                                         *)
(* Every request first reconciles the rows with the signal.  A step is     *)
(* what runs between two awaits; any statement may be refused.             *)
(***************************************************************************)
CONSTANTS
    Starts,    \* requests that start an exercise: they name the exercises
    Gets,      \* requests that show the exercises
    Recovers,  \* requests that end the active one
    Boots,     \* starts of the API after a crash: they bound the restarts
    None

Calls == Starts \cup Gets \cup Recovers \cup Boots

ASSUME CallsAssumption ==
    /\ None \notin Calls
    /\ Starts \cap (Gets \cup Recovers \cup Boots) = {}
    /\ Recovers \cap (Gets \cup Boots) = {} /\ Boots \cap Gets = {}

VARIABLES
    active,   \* the exercise whose signal is set in memory
    row,      \* row[e]: app_operational_exercise.status
    expired,  \* the exercises whose time is over
    timers,   \* pending tasks: <<"signal", e>> and <<"row", e>>
    call,     \* call[c]: step of the request, the active rows it read, its exercise
    enabled,  \* operational_tests_enabled, of the API that runs
    manual,   \* history: exercises logged as recovered by an administrator
    auto,     \* history: exercises logged as recovered by the system
    early,    \* history: exercises recovered before their row was inserted
    forgotten \* history: exercises whose end a restart or a timer gave up

vars == <<active, row, expired, timers, call, enabled, manual, auto, early, forgotten>>

Steps == {"idle", "read", "sync", "insert", "update", "clear", "done"}

TypeOK ==
    /\ active \in Starts \cup {None}
    /\ row \in [Starts -> {"absent", "active", "recovered"}]
    /\ expired \subseteq Starts
    /\ timers \subseteq {"signal", "row"} \X Starts
    /\ call \in [Calls -> [at : Steps, rows : SUBSET Starts, due : SUBSET Starts,
                           of : Starts \cup {None}]]
    /\ manual \subseteq Starts /\ auto \subseteq Starts /\ early \subseteq Starts
    /\ enabled \in BOOLEAN /\ forgotten \subseteq Starts

Init ==
    /\ active = None /\ row = [e \in Starts |-> "absent"]
    /\ expired = {} /\ timers = {}
    /\ call = [c \in Calls |-> [at |-> "idle", rows |-> {}, due |-> {}, of |-> None]]
    /\ manual = {} /\ auto = {} /\ early = {}
    /\ enabled = TRUE /\ forgotten = {}

-----------------------------------------------------------------------------
(* OperationalExerciseManager                                              *)

\* current(): an expired signal is cleared, and its task with it.
Current == IF active \in expired THEN None ELSE active
TimersAfterCurrent == IF active \in expired THEN timers \ {<<"signal", active>>} ELSE timers

\* recover(e), under the lock.
Clear(e) ==
    /\ active' = IF active = e THEN None ELSE active
    /\ timers' = IF active = e THEN timers \ {<<"signal", e>>} ELSE timers

\* Time passes; the exercise has begun.
Expire(e) ==
    /\ e \notin expired /\ (active = e \/ row[e] # "absent")
    /\ expired' = expired \cup {e}
    /\ UNCHANGED <<active, row, timers, call, manual, auto, early, enabled, forgotten>>

\* _recover_after
SignalTimer(e) ==
    /\ <<"signal", e>> \in timers /\ e \in expired
    /\ active' = (IF active = e THEN None ELSE active)
    /\ timers' = timers \ {<<"signal", e>>}
    /\ UNCHANGED <<row, expired, call, manual, auto, early, enabled, forgotten>>

-----------------------------------------------------------------------------
(* The rows                                                                *)

Goto(c, step) == call' = [call EXCEPT ![c].at = step]

\* Mutant: the row is updated and logged whatever its status is.
PersistAlways(e) ==
    /\ row' = [row EXCEPT ![e] = IF @ = "absent" THEN "absent" ELSE "recovered"]
    /\ auto' = IF row[e] = "absent" THEN auto ELSE auto \cup {e}

\* UPDATE ... WHERE id = ? AND status = 'active' RETURNING, logged if it hit.
PersistRecovery(e) ==
    /\ row' = [row EXCEPT ![e] = IF @ = "active" THEN "recovered" ELSE @]
    /\ auto' = IF row[e] = "active" THEN auto \cup {e} ELSE auto

\* _mark_exercise_recovered, a second after the signal.  A refused UPDATE ends
\* the task, and nobody tries it again.
RowTimer(e) ==
    /\ <<"row", e>> \in timers /\ e \in expired
    /\ \/ PersistRecovery(e) /\ UNCHANGED forgotten
       \/ forgotten' = forgotten \cup {e} /\ UNCHANGED <<row, auto>>
    /\ timers' = timers \ {<<"row", e>>}
    /\ UNCHANGED <<active, expired, call, enabled, manual, early>>

ActiveRows == {e \in Starts : row[e] = "active"}

\* synchronize_operational_exercises: the active rows, and which are due now.
\* A request to start an exercise is a 409 before it, where they are disabled.
SyncRead(c) ==
    /\ call[c].at = IF c \in Boots THEN "read" ELSE "idle"
    /\ c \in Starts => enabled
    /\ call' = [call EXCEPT ![c] = [@ EXCEPT !.at = "sync", !.rows = ActiveRows,
                                             !.due = ActiveRows \cap expired]]
    /\ UNCHANGED <<active, row, expired, timers, enabled, manual, auto, early, forgotten>>

\* A statement of the reconciliation is refused: a request is a 500; the start of
\* the API goes on, and leaves the rows to the next refresh.
SyncFails(c) ==
    /\ call[c].at \in {"read", "sync"}
    /\ forgotten' = CASE c \notin Boots -> forgotten
                       [] call[c].at = "read" -> forgotten \cup ActiveRows
                       [] OTHER -> forgotten \cup call[c].rows
    /\ Goto(c, "done")
    /\ UNCHANGED <<active, row, expired, timers, enabled, manual, auto, early>>

SyncDue(c, e) ==
    /\ call[c].at = "sync" /\ e \in call[c].rows \cap call[c].due
    /\ PersistRecovery(e) /\ forgotten' = forgotten \ {e}
    /\ call' = [call EXCEPT ![c].rows = @ \ {e}]
    /\ UNCHANGED <<active, expired, timers, enabled, manual, early>>

\* Mutant: the signal is restored, and no task ends it or marks the row.
SyncRestoreUntimed(c, e) ==
    /\ call[c].at = "sync" /\ e \in call[c].rows \ call[c].due
    /\ active' = IF Current = None /\ e \notin expired THEN e ELSE Current
    /\ timers' = TimersAfterCurrent
    /\ forgotten' = IF Current = None THEN forgotten \ {e} ELSE forgotten
    /\ call' = [call EXCEPT ![c].rows = @ \ {e}]
    /\ UNCHANGED <<row, expired, enabled, manual, auto, early>>

\* Without a signal in memory the row's one is restored, unless its time is
\* over by now, with a task for the signal and one for the row.
SyncRestore(c, e) ==
    /\ call[c].at = "sync" /\ e \in call[c].rows \ call[c].due
    /\ IF Current # None THEN UNCHANGED <<active, timers, forgotten>>
       ELSE /\ active' = IF e \in expired THEN None ELSE e
            /\ timers' = TimersAfterCurrent \cup {<<"row", e>>}
                           \cup (IF e \in expired THEN {} ELSE {<<"signal", e>>})
            /\ forgotten' = forgotten \ {e}
    /\ call' = [call EXCEPT ![c].rows = @ \ {e}]
    /\ UNCHANGED <<row, expired, enabled, manual, auto, early>>

Synced(c) == call[c].at = "sync" /\ call[c].rows = {}

\* The answer of a GET, and the end of the start of the API.
Show(c) ==
    /\ c \in Gets \cup Boots /\ Synced(c)
    /\ active' = Current /\ timers' = TimersAfterCurrent
    /\ Goto(c, "done")
    /\ UNCHANGED <<row, expired, manual, auto, early, enabled, forgotten>>

\* start_operational_exercise: 409 while a signal is set, expired or not.
Start(e) ==
    /\ Synced(e)
    /\ IF active # None THEN Goto(e, "done") /\ UNCHANGED <<active, timers>>
       ELSE /\ active' = e /\ timers' = timers \cup {<<"signal", e>>}
            /\ Goto(e, "insert")
    /\ UNCHANGED <<row, expired, manual, auto, early, enabled, forgotten>>

StartInsert(e) ==
    /\ e \in Starts /\ call[e].at = "insert"
    /\ row' = [row EXCEPT ![e] = "active"]
    /\ timers' = timers \cup {<<"row", e>>}
    /\ Goto(e, "done")
    /\ UNCHANGED <<active, expired, manual, auto, early, enabled, forgotten>>

\* The INSERT raised: the signal is cleared.
StartFail(e) ==
    /\ e \in Starts /\ call[e].at = "insert"
    /\ Clear(e)
    /\ Goto(e, "done")
    /\ UNCHANGED <<row, expired, manual, auto, early, enabled, forgotten>>

\* recover_operational_exercise: 404 unless it names the active one.
Recover(c) ==
    /\ c \in Recovers /\ Synced(c)
    /\ active' = Current /\ timers' = TimersAfterCurrent
    /\ call' = [call EXCEPT ![c].at = IF Current = None THEN "done" ELSE "update", ![c].of = Current]
    /\ UNCHANGED <<row, expired, manual, auto, early, enabled, forgotten>>

\* Mutant: the signal is cleared, and the row is left to its timer.
RecoverUpdateLater(c) ==
    /\ call[c].at = "update"
    /\ manual' = manual \cup {call[c].of}
    /\ Goto(c, "clear")
    /\ UNCHANGED <<active, row, expired, timers, auto, early, enabled, forgotten>>

\* UPDATE ... WHERE id = ?, whatever the status is.
RecoverUpdate(c) ==
    /\ call[c].at = "update"
    /\ LET e == call[c].of IN
       /\ row' = [row EXCEPT ![e] = IF @ = "absent" THEN "absent" ELSE "recovered"]
       /\ early' = IF row[e] = "absent" THEN early \cup {e} ELSE early
       /\ manual' = manual \cup {e}
    /\ Goto(c, "clear")
    /\ UNCHANGED <<active, expired, timers, auto, enabled, forgotten>>

\* The UPDATE is refused: a 500, and the signal stays.
RecoverFails(c) ==
    /\ call[c].at = "update"
    /\ Goto(c, "done")
    /\ UNCHANGED <<active, row, expired, timers, enabled, manual, auto, early, forgotten>>

RecoverClear(c) ==
    /\ call[c].at = "clear"
    /\ Clear(call[c].of)
    /\ Goto(c, "done")
    /\ UNCHANGED <<row, expired, manual, auto, early, enabled, forgotten>>

\* The API dies and starts again.  Where the exercises are enabled it reconciles
\* once; where they are not, nothing ends a row but the next request that does.
Restart(b) ==
    /\ b \in Boots /\ call[b].at = "idle"
    /\ active' = None /\ timers' = {} /\ enabled' \in BOOLEAN
    /\ call' = [c \in Calls |->
                  IF c = b THEN [call[c] EXCEPT !.at = IF enabled' THEN "read" ELSE "done"]
                  ELSE IF call[c].at = "idle" THEN call[c] ELSE [call[c] EXCEPT !.at = "done"]]
    /\ forgotten' = IF enabled' THEN forgotten ELSE forgotten \cup ActiveRows
    /\ UNCHANGED <<row, expired, manual, auto, early>>

Step(c) ==
    \/ \E e \in Starts : SyncDue(c, e) \/ SyncRestore(c, e)
    \/ SyncFails(c) \/ Show(c)
    \/ Recover(c) \/ RecoverUpdate(c) \/ RecoverFails(c) \/ RecoverClear(c)
    \/ c \in Starts /\ (Start(c) \/ StartInsert(c))
    \/ c \in Boots /\ SyncRead(c)

Next ==
    \/ \E e \in Starts : Expire(e) \/ SignalTimer(e) \/ RowTimer(e) \/ StartFail(e)
    \/ \E c \in Calls : SyncRead(c) \/ Step(c) \/ Restart(c)

Spec == Init /\ [][Next]_vars

\* Time passes, the event loop runs the tasks that are due, and a request
\* that began goes on.
Fairness ==
    /\ \A e \in Starts : WF_vars(Expire(e)) /\ WF_vars(SignalTimer(e)) /\ WF_vars(RowTimer(e))
    /\ \A c \in Calls : WF_vars(Step(c))

FairSpec == Spec /\ Fairness

-----------------------------------------------------------------------------
(* What the exercises promise.                                             *)

\* The row of an exercise is closed in the end without any request, also when
\* the API restarts, whose reconciliation gives it its timers again: unless that
\* reconciliation was disabled or refused, or the UPDATE of its timer was, or the
\* exercise was recovered while its row was being inserted.  Then the row waits
\* for the next request of an administrator.
RowEnds ==
    \A e \in Starts :
        row[e] = "active" ~> row[e] = "recovered" \/ early # {} \/ e \in forgotten

\* However requests, timers and restarts interleave, the database never says
\* that two exercises run, unless an exercise was recovered while its row was
\* still being inserted, which leaves an active row behind it.
OneRunsAtATime ==
    early = {} =>
        \A e, f \in Starts \ expired : row[e] = "active" /\ row[f] = "active" => e = f

\* A recovery by the administrator that reached the row is not logged as the
\* system's later on.
ManualIsNotAutomatic ==
    [][\A e \in Starts : e \in manual /\ e \notin auto /\ e \notin early => e \notin auto']_vars
=============================================================================
