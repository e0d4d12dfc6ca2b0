----------------------------- MODULE MCChannels -----------------------------
(***************************************************************************)
(* The poll of channels in the three situations of a deployment: one loop  *)
(* and every policy; a first poll that overlaps the loop; two channels that *)
(* share a run, one pinned and one that is removed and comes back. A        *)
(* behaviour is a behaviour in one of them, the part.                       *)
(***************************************************************************)
EXTENDS MCChannelControl

VARIABLE part

Overlap == INSTANCE ChannelControl WITH
    Pollers <- {loop, first}, Policies <- MCStickyOrPinned, MaxFaults <- 1
Pair == INSTANCE ChannelControl WITH
    Channels <- {ch, other}, Policies <- MCStickyOrPinned, Threshold <- 1,
    MaxEdits <- 2, MaxFaults <- 1

partVars == <<vars, part>>

PairInit ==
    /\ Pair!Init
    /\ row[ch] = P("manual", n1, FALSE) /\ row[other] \in MCSticky
    /\ group[ch].stored = NoNode    \* nothing was selected yet

\* Of the edits, those that remove the other channel and bring it back.
PairNext ==
    /\ Pair!Next
    /\ row'[ch] = row[ch] /\ row'[other] \in MCSticky \cup {NoPolicy}
    /\ edits' # edits => row' # row

PartInit ==
    \/ part = "loop"    /\ Init
    \/ part = "overlap" /\ Overlap!Init
    \/ part = "pair"    /\ PairInit

PartNext ==
    /\ part' = part
    /\ \/ part = "loop"    /\ Next
       \/ part = "overlap" /\ Overlap!Next
       \/ part = "pair"    /\ PairNext

\* The fairness of each part: of the polls it has, its channels and its reloads.
PollOf(p) ==
    \/ part = "loop"    /\ p = loop /\ Poll(p)
    \/ part = "overlap" /\ Overlap!Poll(p)
    \/ part = "pair"    /\ p = loop /\ Pair!Poll(p)
ElapseOf(c) ==
    \/ part = "loop"    /\ c = ch /\ Elapse(c)
    \/ part = "overlap" /\ c = ch /\ Overlap!Elapse(c)
    \/ part = "pair"    /\ Pair!Elapse(c)
ReloadOf ==
    \/ part = "loop"    /\ Reload
    \/ part = "overlap" /\ Overlap!Reload
    \/ part = "pair"    /\ Pair!Reload

PartSpec ==
    /\ PartInit /\ [][PartNext]_partVars
    /\ \A p \in {loop, first} : WF_vars(PollOf(p))
    /\ \A c \in {ch, other} : WF_vars(ElapseOf(c))
    /\ WF_vars(ReloadOf)

-----------------------------------------------------------------------------
\* The channels of the part.
Has(c) == c = ch \/ part = "pair"

(* With one loop, a sticky channel nobody reconfigured leaves a node only    *)
(* after as many misses in a row of that very node as its policy says.       *)
FailoversEarned ==
    [][part = "loop" /\ job[loop].pc = "probe" /\ job'[loop].pc = "pickNext"
          /\ session[ch] = 0 => streak'[ch].n = Threshold]_vars

(* However a tick of an older policy was interrupted or overlapped, a        *)
(* channel pinned for good is routed through its pin for good.               *)
PinsConverge ==
    <>[](row[ch] = P("manual", n1, FALSE)) => <>[](group[ch].now = n1)

(* A sticky, optimal or falling back channel ends up on a node that answers, *)
(* when there is one, whatever overlaps its ticks, whatever fails in the     *)
(* ticks of the channel before it, and though it was removed and came back.  *)
DeadNodesLeft ==
    \A c \in {ch, other} :
        <>[](Has(c) /\ row[c] # NoPolicy
                /\ (row[c].kind \in {"sticky", "optimal"} \/ row[c].fallback))
            => <>[](Has(c) /\ alive # {} => group[c].now \in alive)

(* A channel of the speed policy ends up racing, whatever selections earlier *)
(* policies left behind.                                                     *)
SpeedChannelsRace ==
    <>[](row[ch] # NoPolicy /\ row[ch].kind = "speed") => <>[](group[ch].fixed = NoNode)
=============================================================================
