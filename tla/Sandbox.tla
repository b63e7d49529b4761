------------------------------- MODULE Sandbox -------------------------------
(***************************************************************************)
(* The runtimes commands run in (runtime/sandbox.go, local.go, e2b.go):    *)
(* the life of a remote E2B sandbox, with requests and answers that may be *)
(* lost and a time to live after which the server removes it, and the      *)
(* local process that all the other types come down to.                    *)
(*                                                                         *)
(* One handle is used by several goroutines.  It has no lock, and Close    *)
(* reads sandboxID twice: when it checks it and when it builds the URL.    *)
(***************************************************************************)
EXTENDS Naturals, FiniteSets

CONSTANTS
    Users,       \* goroutines that use the handle
    MaxCreates,  \* bound: calls of NewSandbox
    MaxOps       \* bound: calls of Exec and Close of one user

ASSUME SandboxAssumption == MaxCreates \in Nat /\ MaxOps \in Nat

NoSandbox == 0
Host == "host"

Sandboxes == 1..MaxCreates

VARIABLES
    kind,       \* config.Type: docker, worktree, or e2b
    handle,     \* the sandbox NewSandbox returned a handle of, or 0
    sandboxID,  \* E2BRuntime.sandboxID
    created,    \* sandboxes the server has made, 1, 2, ...
    alive,      \* those it still runs
    unknown,    \* those of which NewE2B never got the id
    creates,    \* calls of NewSandbox
    op,         \* per user: what it is doing
    target,     \* per user: the sandbox in the URL of its request
    ops,        \* per user: calls made
    ran,        \* per user: places its current command has run in
    closed      \* a Close of the handle has returned nil

sandboxVars == <<kind, handle, sandboxID, created, alive, unknown, creates, op, target,
                 ops, ran, closed>>

SandboxInit ==
    /\ kind \in {"docker", "worktree", "e2b"}
    /\ handle = NoSandbox /\ sandboxID = NoSandbox
    /\ created = 0 /\ alive = {} /\ unknown = {}
    /\ creates = 0
    /\ op = [u \in Users |-> "idle"]
    /\ target = [u \in Users |-> NoSandbox]
    /\ ops = [u \in Users |-> 0]
    /\ ran = [u \in Users |-> {}]
    /\ closed = FALSE

HasHandle == kind # "e2b" \/ handle # NoSandbox

-----------------------------------------------------------------------------
\* NewSandbox and NewE2B

CreateCommon ==
    /\ kind = "e2b" /\ handle = NoSandbox
    /\ creates < MaxCreates
    /\ creates' = creates + 1
    /\ UNCHANGED <<kind, op, target, ops, ran, closed>>

\* No configuration or API key, a request that is not sent, or an answer with a
\* status other than 200 and 201: there is no sandbox.
CreateRefused ==
    /\ CreateCommon
    /\ UNCHANGED <<handle, sandboxID, created, alive, unknown>>

Create ==
    /\ CreateCommon
    /\ created' = created + 1
    /\ alive' = alive \cup {created'}
    /\ handle' = created' /\ sandboxID' = created'
    /\ UNCHANGED unknown

\* The server has made a sandbox, but its answer is lost or cannot be decoded.
CreateLost ==
    /\ CreateCommon
    /\ created' = created + 1
    /\ alive' = alive \cup {created'}
    /\ unknown' = unknown \cup {created'}
    /\ UNCHANGED <<handle, sandboxID>>

-----------------------------------------------------------------------------
\* Exec

BeginOp(u, what) ==
    /\ HasHandle /\ op[u] = "idle" /\ ops[u] < MaxOps
    /\ ops' = [ops EXCEPT ![u] = @ + 1]
    /\ op' = [op EXCEPT ![u] = what]

\* envdBase stays what it was, also after Close.
ExecSend(u) ==
    /\ BeginOp(u, "exec")
    /\ target' = [target EXCEPT ![u] = handle]
    /\ ran' = [ran EXCEPT ![u] = {}]
    /\ UNCHANGED <<kind, handle, sandboxID, created, alive, unknown, creates, closed>>

\* The command runs where there is something to run it; a local one in a
\* process, whose end by a signal or a status is no error.
ExecRuns(u) ==
    /\ op[u] = "exec"
    /\ kind = "e2b" => target[u] \in alive
    /\ ran' = [ran EXCEPT ![u] = @ \cup {IF kind = "e2b" THEN target[u] ELSE Host}]
    /\ op' = [op EXCEPT ![u] = "executed"]
    /\ UNCHANGED <<kind, handle, sandboxID, created, alive, unknown, creates, target, ops,
                   closed>>

\* The output comes back.
ExecReturns(u) ==
    /\ op[u] = "executed"
    /\ op' = [op EXCEPT ![u] = "idle"]
    /\ UNCHANGED <<kind, handle, sandboxID, created, alive, unknown, creates, target, ops,
                   ran, closed>>

\* The request or the answer is lost, the status is an error, the command
\* cannot be started: an error, whether or not the command has run.
ExecFails(u) ==
    /\ op[u] \in {"exec", "executed"}
    /\ op' = [op EXCEPT ![u] = "idle"]
    /\ UNCHANGED <<kind, handle, sandboxID, created, alive, unknown, creates, target, ops,
                   ran, closed>>

-----------------------------------------------------------------------------
\* Close

CloseUnchanged == UNCHANGED <<kind, handle, created, unknown, creates, ran>>

\* Nothing to close: the handle is local, or closed already.
CloseNothing(u) ==
    /\ HasHandle /\ op[u] = "idle" /\ ops[u] < MaxOps
    /\ kind # "e2b" \/ sandboxID = NoSandbox
    /\ ops' = [ops EXCEPT ![u] = @ + 1]
    /\ closed' = (closed \/ kind = "e2b")
    /\ UNCHANGED <<sandboxID, alive, op, target>> /\ CloseUnchanged

CloseCheck(u) ==
    /\ kind = "e2b" /\ sandboxID # NoSandbox
    /\ BeginOp(u, "close")
    /\ UNCHANGED <<sandboxID, alive, target, closed>> /\ CloseUnchanged

\* The URL is built, with the id as it is now.
CloseBuild(u) ==
    /\ op[u] = "close"
    /\ op' = [op EXCEPT ![u] = "delete"]
    /\ target' = [target EXCEPT ![u] = sandboxID]
    /\ UNCHANGED <<sandboxID, alive, ops, closed>> /\ CloseUnchanged

\* The server removes the sandbox; or there is none of that id, which it
\* reports with 404.
CloseDeletes(u) ==
    /\ op[u] = "delete"
    /\ alive' = alive \ {target[u]}
    /\ op' = [op EXCEPT ![u] = "deleted"]
    /\ UNCHANGED <<sandboxID, target, ops, closed>> /\ CloseUnchanged

\* A success or 404 comes back.
CloseReturns(u) ==
    /\ op[u] = "deleted"
    /\ op' = [op EXCEPT ![u] = "idle"]
    /\ sandboxID' = NoSandbox
    /\ closed' = TRUE
    /\ UNCHANGED <<alive, target, ops>> /\ CloseUnchanged

\* A mutation of CloseFails: the id is forgotten, as after a success.
CloseFailsForgets(u) ==
    /\ op[u] \in {"delete", "deleted"}
    /\ op' = [op EXCEPT ![u] = "idle"]
    /\ sandboxID' = NoSandbox
    /\ UNCHANGED <<alive, target, ops, closed>> /\ CloseUnchanged

\* The request or its answer is lost, or the status is an error other than 404:
\* the id stays, for another try.
CloseFails(u) ==
    /\ op[u] \in {"delete", "deleted"}
    /\ op' = [op EXCEPT ![u] = "idle"]
    /\ UNCHANGED <<sandboxID, alive, target, ops, closed>> /\ CloseUnchanged

\* The server: the time to live of a sandbox is over.
TimeToLiveEnds(s) ==
    /\ s \in alive
    /\ alive' = alive \ {s}
    /\ UNCHANGED <<kind, handle, sandboxID, created, unknown, creates, op, target, ops, ran,
                   closed>>

SandboxNext ==
    \/ CreateRefused \/ Create \/ CreateLost
    \/ \E u \in Users :
          \/ ExecSend(u) \/ ExecRuns(u) \/ ExecReturns(u) \/ ExecFails(u)
          \/ CloseNothing(u) \/ CloseCheck(u) \/ CloseBuild(u)
          \/ CloseDeletes(u) \/ CloseReturns(u) \/ CloseFails(u)
    \/ \E s \in Sandboxes : TimeToLiveEnds(s)

SandboxSpec == SandboxInit /\ [][SandboxNext]_sandboxVars

-----------------------------------------------------------------------------

(* Once a Close has returned nil the sandbox is gone, whichever Close it   *)
(* was, whatever was lost, and also if two of them ran into each other and *)
(* one deleted nothing at all.                                             *)
ClosedIsGone == closed => handle \notin alive

(* A sandbox that runs on can still be closed: its id is in the handle.    *)
(* Only an answer to its creation that never came leaves it to its time to *)
(* live.                                                                   *)
NoneForgotten == \A s \in alive : s \in unknown \/ s = sandboxID

(* The two together: what a user of the handle relies on.                  *)
SandboxSafe == ClosedIsGone /\ NoneForgotten

(* No command of the handle runs any more once a Close has returned nil,   *)
(* also one that was sent before.                                          *)
NothingRunsClosed ==
    closed /\ kind = "e2b" => \A u \in Users : ran'[u] \subseteq ran[u]

(* The life of a sandbox, through lost requests and answers, two users and *)
(* the server's time to live: of every step, and of every state a step     *)
(* leads to.  At first there is no sandbox.                                *)
SandboxExact == [][SandboxSafe' /\ NothingRunsClosed]_sandboxVars
=============================================================================
