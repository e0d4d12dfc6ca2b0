---------------------------- MODULE AgreedConfig ----------------------------
(***************************************************************************)
(* What the recoverable apply promises to the rest of the panel: the saved *)
(* settings, the accepted file and the engine part only while a change is  *)
(* open, and a change is closed only once the three agree, in favour of    *)
(* the change or of what was there before it. ConfigApply implements it.   *)
(***************************************************************************)
CONSTANT Configs  \* configurations, and the absence of one

VARIABLES
    wanted,    \* what the saved settings generate
    accepted,  \* config.yaml
    live,      \* what the engine runs
    open       \* a change is due or in progress, or nobody is there to make it

vars == <<wanted, accepted, live, open>>

\* The server has not started.
Init ==
    /\ wanted \in Configs /\ accepted \in Configs
    /\ live = accepted
    /\ open = TRUE

\* A request arrives, or is taken up, or is undone, or the server stops.
Change ==
    /\ open'
    /\ wanted' \in Configs
    /\ UNCHANGED <<accepted, live>>

\* The engine is back with the accepted file, whatever it ran before.
Restart ==
    /\ open'
    /\ live' = accepted
    /\ UNCHANGED <<wanted, accepted>>

\* The engine takes a configuration.
Load ==
    /\ open /\ open'
    /\ live' \in Configs
    /\ UNCHANGED <<wanted, accepted>>

\* A file is accepted; when it is the file of a redeployment the settings may
\* get their first secret with it.
Accept ==
    /\ open /\ open'
    /\ accepted' \in Configs /\ wanted' \in Configs
    /\ UNCHANGED live

\* The change is made, or taken back in the settings as well.
Close ==
    /\ open /\ ~open'
    /\ live = accepted
    /\ wanted' = accepted
    /\ UNCHANGED <<accepted, live>>

Next == Change \/ Restart \/ Load \/ Accept \/ Close

Spec == Init /\ [][Next]_vars

\* Without an open change the three agree, and they cease to only by opening one.
Agreed == ~open => wanted = accepted /\ live = accepted
=============================================================================
