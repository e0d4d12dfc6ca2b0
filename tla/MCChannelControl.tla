-------------------------- MODULE MCChannelControl --------------------------
(***************************************************************************)
(* Two nodes; the policies a channel may be given.                         *)
(***************************************************************************)
EXTENDS ChannelControl, TLC

CONSTANTS n1, n2, ch, other, loop, first

P(kind, pin, fallback) == [kind |-> kind, pin |-> pin, fallback |-> fallback]

MCSticky == {P("sticky", NoNode, FALSE)}
MCStickyOrPinned == MCSticky \cup {P("manual", n1, FALSE)}
MCPolicies ==
    {P("speed", NoNode, FALSE), P("optimal", NoNode, FALSE), P("sticky", NoNode, FALSE),
     P("manual", n1, FALSE), P("manual", n1, TRUE)}

=============================================================================
