-------------------------------- MODULE Probe --------------------------------
(***************************************************************************)
(* Exit-IP probes: POST /nodes/{id}/probe creates an operation and starts a    *)
(* goroutine, which runs sing-box with the node's outbound, asks the IP        *)
(* provider through it and stores the answer. At most MaxProbes run at once;   *)
(* the operations table is all a client sees of it.                          *)
(***************************************************************************)
EXTENDS Naturals, FiniteSets

CONSTANTS
    Operations,     \* ids of operations
    MaxProbes,      \* capacity of Server.probeSem
    MaxLosses       \* bound: failed writes, panics and crashes

VARIABLES
    op,         \* operations table: the status; "none" before the row exists
    go,         \* where the handler or goroutine of the operation is
    box,        \* its sing-box process
    node,       \* the row of the probed node exists
    exitIP,     \* exit_ip_checks: the operation whose result the row holds, or 0
    slots,      \* values in the channel probeSem
    losses,
    \* --- history, read by properties only ---
    lost        \* operations whose status write failed, or that a panic or a crash cut off

vars == <<op, go, box, node, exitIP, slots, losses, lost>>

Terminal == {"SUCCEEDED", "FAILED"}
Running == {"start", "launch", "wait", "fetch", "reap", "save", "succeed", "fail", "release"}

Init ==
    /\ op = [o \in Operations |-> "none"]
    /\ go = [o \in Operations |-> "none"]
    /\ box = [o \in Operations |-> "none"]
    /\ node = TRUE /\ exitIP = 0 /\ slots = 0 /\ losses = 0 /\ lost = {}

CanLose == losses < MaxLosses

\* UpdateOperation matches no row once the node is deleted; callers ignore its error.
UpdateOperation(o, status) ==
    \/ op' = [op EXCEPT ![o] = IF @ = "gone" THEN @ ELSE status] /\ UNCHANGED <<losses, lost>>
    \/ /\ CanLose /\ losses' = losses + 1 /\ lost' = lost \cup {o}
       /\ UNCHANGED op

\* The node exists, has an outbound config, and the row is inserted: PENDING.
CreateOperation(o) ==
    /\ op[o] = "none" /\ node
    /\ op' = [op EXCEPT ![o] = "PENDING"] /\ go' = [go EXCEPT ![o] = "acquire"]
    /\ UNCHANGED <<node, box, exitIP, slots, losses, lost>>

\* A free slot starts the goroutine; otherwise the operation fails at once.
Acquire(o) ==
    IF slots < MaxProbes
    THEN go' = [go EXCEPT ![o] = "start"] /\ slots' = slots + 1
    ELSE go' = [go EXCEPT ![o] = "busy"] /\ UNCHANGED slots

SelectSlot(o) ==
    /\ go[o] = "acquire" /\ Acquire(o)
    /\ UNCHANGED <<op, node, box, exitIP, losses, lost>>

\* currentSettings returns nil when the settings cannot be read, and probeRunner
\* dereferences it: the handler panics, and nobody touches the operation again.
SettingsPanic(o) ==
    /\ go[o] = "acquire" /\ CanLose
    /\ losses' = losses + 1 /\ lost' = lost \cup {o}
    /\ go' = [go EXCEPT ![o] = "none"]
    /\ UNCHANGED <<op, node, box, exitIP, slots>>

TooManyProbes(o) ==
    /\ go[o] = "busy" /\ UpdateOperation(o, "FAILED")
    /\ go' = [go EXCEPT ![o] = "none"]
    /\ UNCHANGED <<node, box, exitIP, slots>>

RunProbe(o) ==
    /\ go[o] = "start" /\ UpdateOperation(o, "RUNNING")
    /\ go' = [go EXCEPT ![o] = "launch"]
    /\ UNCHANGED <<node, box, exitIP, slots>>

\* Runner.Probe up to cmd.Start: the provider URL, the binary, the tag, the files and
\* the port may each fail.
Launch(o) ==
    /\ go[o] = "launch"
    /\ \/ go' = [go EXCEPT ![o] = "wait"] /\ box' = [box EXCEPT ![o] = "running"]
       \/ go' = [go EXCEPT ![o] = "fail"] /\ UNCHANGED box
    /\ UNCHANGED <<op, node, exitIP, slots, losses, lost>>

\* sing-box ends by itself, or because it was killed or its context expired.
BoxExits(o) ==
    /\ box[o] \in {"running", "killed"}
    /\ box' = [box EXCEPT ![o] = "exited"]
    /\ UNCHANGED <<op, node, go, exitIP, slots, losses, lost>>

Kill(b) == IF b = "running" THEN "killed" ELSE b

\* waitReachable: the inbound answers, or sing-box has exited or the deadline passes.
WaitReachable(o) ==
    /\ go[o] = "wait"
    /\ \/ box[o] = "running" /\ go' = [go EXCEPT ![o] = "fetch"] /\ UNCHANGED box
       \/ go' = [go EXCEPT ![o] = "fail"] /\ box' = [box EXCEPT ![o] = Kill(box[o])]
    /\ UNCHANGED <<op, node, exitIP, slots, losses, lost>>

\* fetch and parseProviderBody: an address or an error (timeouts included); then sing-box is killed.
Fetch(o) ==
    /\ go[o] = "fetch"
    /\ go' \in {[go EXCEPT ![o] = next] : next \in {"reap", "reapFail"}}
    /\ box' = [box EXCEPT ![o] = Kill(box[o])]
    /\ UNCHANGED <<op, node, exitIP, slots, losses, lost>>

\* <-procExited
Reap(o) ==
    /\ go[o] \in {"reap", "reapFail"} /\ box[o] = "exited"
    /\ go' = [go EXCEPT ![o] = IF @ = "reap" THEN "save" ELSE "fail"]
    /\ UNCHANGED <<op, node, box, exitIP, slots, losses, lost>>

\* UpsertExitIP: the foreign key refuses a node that is gone.
UpsertExitIP(o) ==
    /\ go[o] = "save"
    /\ \/ node /\ exitIP' = o /\ go' = [go EXCEPT ![o] = "succeed"]
       \/ go' = [go EXCEPT ![o] = "fail"] /\ UNCHANGED exitIP
    /\ UNCHANGED <<op, node, box, slots, losses, lost>>

\* Mutant of Finish: an error leaves the status as it is.
FinishSilently(o) ==
    /\ \/ go[o] = "succeed" /\ UpdateOperation(o, "SUCCEEDED")
       \/ go[o] = "fail" /\ UNCHANGED <<op, losses, lost>>
    /\ go' = [go EXCEPT ![o] = "release"]
    /\ UNCHANGED <<node, box, exitIP, slots>>

\* The last status of runProbe.
Finish(o) ==
    /\ \/ go[o] = "succeed" /\ UpdateOperation(o, "SUCCEEDED")
       \/ go[o] = "fail" /\ UpdateOperation(o, "FAILED")
    /\ go' = [go EXCEPT ![o] = "release"]
    /\ UNCHANGED <<node, box, exitIP, slots>>

\* Mutant of Released: only a probe that succeeded gives its slot back.
ReleasedOnSuccess(o) == IF op[o] = "SUCCEEDED" THEN slots - 1 ELSE slots

\* defer func() { <-s.probeSem }()
Released(o) == slots - 1

Release(o) ==
    /\ go[o] = "release"
    /\ slots' = Released(o) /\ go' = [go EXCEPT ![o] = "none"]
    /\ UNCHANGED <<op, node, box, exitIP, losses, lost>>

\* DELETE /nodes/{id} takes the operations and the exit IP of the node along.
DeleteNode ==
    /\ node /\ node' = FALSE /\ exitIP' = 0
    /\ op' = [o \in Operations |-> IF op[o] = "none" THEN "none" ELSE "gone"]
    /\ UNCHANGED <<go, box, slots, losses, lost>>

\* The panel is stopped: its goroutines are gone, the rows and the sing-box processes are not.
Crash ==
    /\ CanLose /\ \E o \in Operations : go[o] # "none"
    /\ losses' = losses + 1
    /\ lost' = lost \cup {o \in Operations : go[o] # "none"}
    /\ go' = [o \in Operations |-> "none"] /\ slots' = 0
    /\ UNCHANGED <<op, node, box, exitIP>>

Step(o) ==
    \/ SelectSlot(o) \/ TooManyProbes(o) \/ RunProbe(o) \/ Launch(o) \/ WaitReachable(o)
    \/ Fetch(o) \/ Reap(o) \/ UpsertExitIP(o) \/ Finish(o) \/ Release(o)

\* A process that was killed exits.
Dies(o) == box[o] = "killed" /\ BoxExits(o)

Next ==
    \/ Crash \/ DeleteNode
    \/ \E o \in Operations : CreateOperation(o) \/ SettingsPanic(o) \/ Step(o) \/ BoxExits(o)

\* Goroutines run, every wait in them has a deadline, and a killed process exits.
Fairness == \A o \in Operations : WF_vars(Step(o)) /\ WF_vars(Dies(o))

Spec == Init /\ [][Next]_vars /\ Fairness
-----------------------------------------------------------------------------
(* Properties.                                                              *)

\* Every variable keeps its type.
TypeOK ==
    /\ op \in [Operations -> {"none", "PENDING", "RUNNING", "gone"} \cup Terminal]
    /\ node \in BOOLEAN
    /\ go \in [Operations -> {"none", "acquire", "busy", "reapFail"} \cup Running]
    /\ box \in [Operations -> {"none", "running", "killed", "exited"}]
    /\ exitIP \in Operations \cup {0} /\ slots \in Nat /\ losses \in 0..MaxLosses
    /\ lost \subseteq Operations

\* probeSem holds one value for each goroutine and never more than its capacity: whichever way
\* a probe ends, its slot is free again, and never freed twice.
SlotsMatchProbes ==
    /\ slots = Cardinality({o \in Operations : go[o] \in Running \cup {"reapFail"}})
    /\ slots <= MaxProbes

\* A probe that is over, on any path of Runner.Probe, has no sing-box left running: it was killed
\* or has exited. (A crash of the panel leaves them behind.)
NoBoxLeft ==
    \A o \in Operations : o \notin lost /\ go[o] \in {"none", "release", "succeed", "fail"}
                             => box[o] # "running"

\* Every operation a client got a 202 for ends, or is deleted with its node, unless its status
\* write failed, its handler panicked or the panel was stopped: then it stays PENDING or RUNNING.
OperationsEnd ==
    \A o \in Operations : op[o] = "PENDING" ~> op[o] \in Terminal \cup {"gone"} \/ o \in lost
==============================================================================
