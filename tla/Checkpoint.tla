------------------------------ MODULE Checkpoint ------------------------------
(***************************************************************************)
(* Checkpoints of a session (agent/loop.go, agent/session.go,              *)
(* interrupter/checkpoint.go).  At three places the loop starts a          *)
(* goroutine that saves a snapshot under the session's run id; nothing     *)
(* orders these goroutines, and each gives up after five seconds.  All     *)
(* Runs of a session have the same run id.                                 *)
(*                                                                         *)
(* A snapshot is kept as JSON.  A step's error is a Go interface value: it *)
(* is written as an object, which cannot be read back into an interface.   *)
(***************************************************************************)
EXTENDS Integers, Sequences, FiniteSets

CONSTANTS
    MaxRuns, MaxIterations, MaxSteps   \* bounds: Runs, iterations and steps of each

ASSUME CheckpointAssumption == {MaxRuns, MaxIterations, MaxSteps} \subseteq Nat

VARIABLES
    run, iteration, stepResults, loopAt,   \* the loop; loopAt is idle between Runs
    started,    \* the number of snapshots taken
    inflight,   \* the snapshots that goroutines are saving
    stored,     \* the bytes under the run id, or NoSnapshot
    loaded,     \* what the latest Load returned
    past,       \* the states in which snapshots were taken
    lost,       \* a save has timed out, or the checkpoint was deleted
    down        \* the store does not answer any more

loopVars == <<run, iteration, stepResults, loopAt>>
checkpointVars == <<loopVars, started, inflight, stored, loaded, past, lost, down>>

NoSnapshot == [no |-> 0]
LoadError == [no |-> -1]

\* Taking a snapshot: the arguments of the goroutine are those of the call.
Snapshot(n) ==
    [no |-> n, run |-> run, iteration |-> iteration, stepResults |-> stepResults, state |-> loopAt]

\* JSON: an error of a step becomes an empty object.
Serialize(s) ==
    [s EXCEPT !.stepResults = [i \in DOMAIN s.stepResults |->
                              IF s.stepResults[i] = "ok" THEN "null" ELSE "{}"]]

Deserialize(b) ==
    IF \E i \in DOMAIN b.stepResults : b.stepResults[i] = "{}" THEN LoadError
    ELSE [b EXCEPT !.stepResults = [i \in DOMAIN b.stepResults |-> "ok"]]

CPInit ==
    /\ run = 0 /\ iteration = 0 /\ stepResults = <<>> /\ loopAt = "idle"
    /\ started = 0 /\ inflight = {} /\ past = {}
    /\ stored = NoSnapshot /\ loaded = NoSnapshot
    /\ lost = FALSE /\ down = FALSE

-------------------------------------------------------------------------------
\* The loop

maybeSaveCheckpoint ==
    /\ started' = started + 1
    /\ inflight' = inflight \cup {Snapshot(started')}
    /\ past' = past \cup {Snapshot(started')}
    /\ UNCHANGED <<stored, loaded, lost, down>>

NoSave == UNCHANGED <<started, inflight, past, stored, loaded, lost, down>>

StartRun ==
    /\ loopAt = "idle" /\ run < MaxRuns
    /\ run' = run + 1
    /\ iteration' = 0 /\ stepResults' = <<>>
    /\ loopAt' = "planning"
    /\ NoSave

Planning ==
    /\ loopAt = "planning" /\ iteration < MaxIterations
    /\ iteration' = iteration + 1
    /\ loopAt' \in {"interrupt", "idle"}
    /\ UNCHANGED <<run, stepResults>>
    /\ NoSave

Interrupt ==
    /\ loopAt = "interrupt"
    /\ maybeSaveCheckpoint
    /\ loopAt' \in {"executing", "planning"}
    /\ UNCHANGED <<run, iteration, stepResults>>

Executing ==
    /\ loopAt = "executing" /\ Len(stepResults) < MaxSteps
    /\ maybeSaveCheckpoint
    /\ \E r \in {"ok", "error"} : stepResults' = Append(stepResults, r)
    /\ loopAt' \in {"planning", "executing", "idle"}
    /\ UNCHANGED <<run, iteration>>

ContextDone ==
    /\ loopAt # "idle"
    /\ maybeSaveCheckpoint
    /\ loopAt' = "idle"
    /\ UNCHANGED <<run, iteration, stepResults>>

-------------------------------------------------------------------------------
\* The goroutines and the store

\* A mutation of Save: the snapshot is put together when it is saved.
SaveLive(s) ==
    /\ s \in inflight
    /\ ~down
    /\ inflight' = inflight \ {s}
    /\ stored' = Serialize([s EXCEPT !.iteration = iteration])
    /\ UNCHANGED <<loopVars, started, loaded, past, lost, down>>

Save(s) ==
    /\ s \in inflight
    /\ ~down
    /\ inflight' = inflight \ {s}
    /\ stored' = Serialize(s)
    /\ UNCHANGED <<loopVars, started, loaded, past, lost, down>>

SaveTimesOut(s) ==
    /\ s \in inflight
    /\ inflight' = inflight \ {s}
    /\ lost' = TRUE
    /\ UNCHANGED <<loopVars, started, stored, loaded, past, down>>

\* MemoryStore.Load.
Lookup == IF stored = NoSnapshot THEN NoSnapshot ELSE Deserialize(stored)

\* Resume, GetState.
Load ==
    /\ ~down
    /\ loaded' = Lookup
    /\ UNCHANGED <<loopVars, started, inflight, stored, past, lost, down>>

DeleteCheckpoint ==
    /\ ~down
    /\ stored # NoSnapshot
    /\ stored' = NoSnapshot
    /\ lost' = TRUE
    /\ UNCHANGED <<loopVars, started, inflight, loaded, past, down>>

StoreFails ==
    /\ ~down
    /\ down' = TRUE
    /\ UNCHANGED <<loopVars, started, inflight, stored, loaded, past, lost>>

Saves == \E s \in inflight : Save(s) \/ SaveTimesOut(s)

CPNext ==
    \/ StartRun \/ Planning \/ Interrupt \/ Executing \/ ContextDone
    \/ \E s \in inflight : Save(s) \/ SaveTimesOut(s)
    \/ Load \/ DeleteCheckpoint \/ StoreFails

\* A save ends after five seconds at the latest.
CPSpec == CPInit /\ [][CPNext]_checkpointVars /\ WF_checkpointVars(Saves)

-------------------------------------------------------------------------------

Failed(s) == \E i \in DOMAIN s.stepResults : s.stepResults[i] = "error"

(* What a caller gets from Resume or GetState was once the state of the    *)
(* loop, all parts of it at the same moment.  A checkpoint that was saved  *)
(* and has no failed step can be loaded, as it was, whatever the           *)
(* goroutines did in between.  (Of those with a failed step: SavedLoads.)  *)
RestoreExact ==
    /\ loaded.no > 0 => loaded \in past
    /\ \A s \in past : s.no = stored.no /\ ~Failed(s) => Lookup = s

(* The design document restores the state of the loop and its history from *)
(* the stored snapshot, so a snapshot that was saved can be loaded.        *)
SavedLoads == stored # NoSnapshot => Lookup # LoadError

(* GetState is commented as returning the current state of the session:    *)
(* once all saves are done, and none was lost, the stored snapshot is the  *)
(* last one taken.                                                         *)
StoredIsLatest == inflight = {} /\ ~lost => stored.no = started
===============================================================================
