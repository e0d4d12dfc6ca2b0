--------------------------- MODULE LatencyProber ---------------------------
(* The gap-filling measurements of the panel (live/prober.ts): which nodes   *)
(* each pulse probes, and which delays survive a reload of the engine.       *)
(* One step is one pulse of the live loop: the snapshot is digested and the  *)
(* next batch probed. Times are ages, in pulses, up to a limit past which    *)
(* nothing distinguishes them.                                               *)
EXTENDS Integers, FiniteSets, Sequences, Functions

CONSTANTS
    Nodes,      \* proxies of the PROXY group
    Stale,      \* the check interval, in pulses
    BatchLimit, \* most probes of a pulse
    Grace,      \* MEMORY_GRACE_MS, in pulses
    MaxChanges  \* bound: reloads and changes of the group

VARIABLES
    group,    \* nodes in the engine's PROXY group
    recorded, \* age of the engine's latest measurement on the panel's URL
    alive,    \* nodes whose failed probe or success the engine records
    names, cursor,    \* the rotation
    lastSeen,         \* age of the latest measurement observed
    lastAttempt,      \* age of the latest probe
    lastInView,       \* age of the latest snapshot with the node
    measured,         \* nodes whose delay is remembered
    waiting,          \* history: pulses a node has waited since the group changed
    changes

vars == <<group, recorded, alive, names, cursor, lastSeen, lastAttempt,
          lastInView, measured, waiting, changes>>

Limit == IF Stale > Grace THEN Stale ELSE Grace + 1  \* as old as never
Never == Limit
Ages  == 0..Limit
Older(age) == IF age = Limit THEN Limit ELSE age + 1

NodeSeqs == UNION {[1..n -> Nodes] : n \in 0..Cardinality(Nodes)}

-----------------------------------------------------------------------------
(* observe                                                                   *)

\* The rotation keeps its order, drops what is gone and appends what is new;
\* new nodes come in the order of the snapshot, any order here.
Before(order, a, b) == \E i, j \in DOMAIN order : i < j /\ order[i] = a /\ order[j] = b
Rotations ==
    {order \in [1..Cardinality(group) -> group] :
        /\ Range(order) = group
        /\ \A i, j \in DOMAIN order :
              i < j /\ order[j] \in Range(names) => Before(names, order[i], order[j])}

\* Mutant: it goes with the first snapshot the node is missing from.
ForgottenAtOnce == Nodes \ group

\* The memory of a node goes only when it has been away for longer than Grace.
Forgotten == {n \in Nodes : n \notin group /\ Older(lastInView[n]) > Grace}

-----------------------------------------------------------------------------
(* tick                                                                      *)

Ceil(a, b) == (a + b - 1) \div b
Batch(total) ==
    LET share == Ceil(total, Stale) IN
    IF share > BatchLimit THEN BatchLimit ELSE IF share < 1 THEN 1 ELSE share

\* The first Batch stale names from the cursor on, as offsets from it.
Picked(order, from, old) ==
    LET total     == Len(order)
        At(step)  == order[((from + step) % total) + 1]
        stale     == {step \in 0..(total - 1) : At(step) \in old}
    IN {step \in stale : Cardinality({s \in stale : s < step}) < Batch(total)}

\* Mutant: the cursor does not move past the batch.
CursorStays(order, from, picked) == from

CursorAfter(order, from, picked) ==
    IF picked = {} THEN from
    ELSE (from + (CHOOSE s \in picked : \A t \in picked : t <= s) + 1) % Len(order)

\* pollOnce: observe the snapshot, then probe a batch of the stale nodes. Those
\* that answer, or whose failure the engine records, are measured at once.
Pulse ==
    \E order \in Rotations :
        LET from == IF cursor >= Len(order) THEN 0 ELSE cursor
            seen == [n \in Nodes |-> IF n \in group /\ recorded[n] # Never THEN Older(recorded[n])
                                     ELSE IF n \in Forgotten THEN Never ELSE Older(lastSeen[n])]
            tried == [n \in Nodes |-> IF n \in Forgotten THEN Never ELSE Older(lastAttempt[n])]
            old    == {n \in group : seen[n] >= Stale /\ tried[n] >= Stale}
            picked == IF order = <<>> THEN {} ELSE Picked(order, from, old)
            probed == {order[((from + s) % Len(order)) + 1] : s \in picked}
        IN
        /\ names' = order
        /\ cursor' = CursorAfter(order, from, picked)
        /\ lastSeen' = seen
        /\ lastAttempt' = [n \in Nodes |-> IF n \in probed THEN 0 ELSE tried[n]]
        /\ lastInView' = [n \in Nodes |-> IF n \in group THEN 0 ELSE Older(lastInView[n])]
        /\ measured' = (measured \ Forgotten) \cup {n \in group : recorded[n] # Never}
        /\ recorded' = [n \in Nodes |-> IF n \in probed \cap alive THEN 0 ELSE Older(recorded[n])]
        /\ waiting' = [n \in Nodes |-> IF n \in old \ probed THEN waiting[n] + 1 ELSE 0]
        /\ UNCHANGED <<group, alive, changes>>

-----------------------------------------------------------------------------
(* The engine.                                                               *)

Change ==
    /\ changes < MaxChanges
    /\ changes' = changes + 1
    /\ UNCHANGED <<alive, names, cursor, lastSeen, lastAttempt, lastInView, measured>>

\* A reload wipes every delay it has recorded.
Reload ==
    /\ Change
    /\ recorded' = [n \in Nodes |-> Never]
    /\ UNCHANGED <<group, waiting>>

\* Nodes come and go, or a snapshot is partial during a reload.
GroupChanges ==
    /\ Change
    /\ \E g \in SUBSET Nodes \ {group} :
           /\ group' = g
           /\ recorded' = [n \in Nodes |-> IF n \in g THEN recorded[n] ELSE Never]
    /\ waiting' = [n \in Nodes |-> 0]

\* Another channel, or the engine itself, measures a node on the same URL.
Measured ==
    /\ \E n \in group \cap alive :
           /\ recorded[n] # 0
           /\ recorded' = [recorded EXCEPT ![n] = 0]
    /\ UNCHANGED <<group, waiting>>
    /\ Change

Init ==
    /\ group \in SUBSET Nodes /\ alive \in SUBSET Nodes
    /\ recorded = [n \in Nodes |-> Never]
    /\ names = <<>> /\ cursor = 0
    /\ lastSeen = [n \in Nodes |-> Never] /\ lastAttempt = [n \in Nodes |-> Never]
    /\ lastInView = [n \in Nodes |-> Never] /\ measured = {}
    /\ waiting = [n \in Nodes |-> 0] /\ changes = 0

Next == Pulse \/ Reload \/ GroupChanges \/ Measured
Spec == Init /\ [][Next]_vars

TypeOK ==
    /\ group \subseteq Nodes /\ alive \subseteq Nodes /\ measured \subseteq Nodes
    /\ recorded \in [Nodes -> Ages] /\ lastSeen \in [Nodes -> Ages]
    /\ lastAttempt \in [Nodes -> Ages] /\ lastInView \in [Nodes -> Ages]
    /\ names \in NodeSeqs /\ cursor \in 0..Cardinality(Nodes)
    /\ changes \in 0..MaxChanges

\* The batch after which the rotation has come to every node.
Turn == Ceil(Len(names), Batch(Len(names)))

\* Whatever the engine measures or forgets, a node without a fresh delay is probed
\* within one turn of the rotation, counted anew when the group changes: the cursor
\* may then pass over it.
SweptInTime == \A n \in Nodes : waiting[n] # 0 => waiting[n] < Turn

\* A node in the group that was ever measured has a delay to show, as long as
\* no absence was longer than the grace: fillLastKnown never blanks it.
DelayRemembered ==
    [][\A n \in measured : n \notin measured' => lastInView[n] >= Grace]_vars
=============================================================================
