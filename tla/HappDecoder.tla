----------------------------- MODULE HappDecoder -----------------------------
(* The decoder of happ:// links (happ-decoder/server.py, mitm_capture.py)    *)
(* and its client (clients/happDecoder.ts). One decode at a time runs the    *)
(* Happ binary behind a proxy. What the proxy captures, and whether it adds  *)
(* the device id, passes through two files that all decodes share.           *)
EXTENDS Integers, Sequences, FiniteSets

CONSTANTS
    Calls,     \* calls of the panel, each with its own link
    Bound,     \* those calls whose source sends the device id
    NoCall,
    MaxAsked   \* bound: requests of one run of Happ

VARIABLES
    client,  \* "idle", "waiting", "answered", "failed", "left"
    answer,  \* the link whose subscription the client was given
    queue,   \* handler threads at the lock
    holder,  \* the handler that has it
    pc,      \* its step
    got,     \* what it read
    result,  \* /tmp/happ_result.json: NoCall, a link, or "half" written
    inject,  \* /tmp/inject_hwid is there
    happ,    \* the link the Happ binary runs, and how much it asked
    flows    \* requests in the proxy: [link, device]

vars == <<client, answer, queue, holder, pc, got, result, inject, happ, flows>>

-----------------------------------------------------------------------------
(* The client: 70 seconds for an answer, and no way to withdraw the call.    *)

Send(c) ==
    /\ client[c] = "idle" /\ client' = [client EXCEPT ![c] = "waiting"]
    /\ queue' = queue \cup {c}
    /\ UNCHANGED <<answer, holder, pc, got, result, inject, happ, flows>>

\* A call that waited for the decodes of others runs out of time; its handler
\* goes on all the same.
GivesUp(c) ==
    /\ client[c] = "waiting" /\ client' = [client EXCEPT ![c] = "left"]
    /\ UNCHANGED <<answer, queue, holder, pc, got, result, inject, happ, flows>>

-----------------------------------------------------------------------------
(* decode(), in the lock. A killed Happ takes its requests with it.          *)

Stopped == [link |-> NoCall, asked |-> 0]
Kill    == happ' = Stopped /\ flows' = {}

Lock(c) ==
    /\ holder = NoCall /\ c \in queue
    /\ holder' = c /\ queue' = queue \ {c} /\ pc' = "cleanup"
    /\ UNCHANGED <<client, answer, got, result, inject, happ, flows>>

Cleanup ==
    /\ pc = "cleanup" /\ Kill /\ pc' = "remove"
    /\ UNCHANGED <<client, answer, queue, holder, got, result, inject>>

Remove ==
    /\ pc = "remove" /\ result' = NoCall /\ got' = NoCall /\ pc' = "flag"
    /\ UNCHANGED <<client, answer, queue, holder, inject, happ, flows>>

\* _set_hwid_inject: written when asked for and the id is known, else removed.
Flag == holder \in Bound

SetFlag ==
    /\ pc = "flag" /\ inject' \in {Flag, FALSE} /\ pc' = "launch"
    /\ UNCHANGED <<client, answer, queue, holder, got, result, happ, flows>>

Launch ==
    /\ pc = "launch" /\ happ' = [link |-> holder, asked |-> 0] /\ pc' = "poll"
    /\ UNCHANGED <<client, answer, queue, holder, got, result, inject, flows>>

\* Every half second: a result that is whole ends the wait, as the deadline does.
Poll ==
    /\ pc = "poll"
    /\ \/ result \in Calls /\ got' = result
       \/ got' = NoCall                                   \* the deadline
    /\ pc' = "kill"
    /\ UNCHANGED <<client, answer, queue, holder, result, inject, happ, flows>>

KillAgain ==
    /\ pc = "kill" /\ Kill /\ pc' = "reply"
    /\ UNCHANGED <<client, answer, queue, holder, got, result, inject>>

Reply ==
    /\ pc = "reply" /\ pc' = "free" /\ holder' = NoCall /\ got' = NoCall
    /\ IF client[holder] = "waiting"
       THEN /\ client' = [client EXCEPT ![holder] = IF got = NoCall THEN "failed" ELSE "answered"]
            /\ answer' = [answer EXCEPT ![holder] = got]
       ELSE UNCHANGED <<client, answer>>
    /\ UNCHANGED <<queue, result, inject, happ, flows>>

Server ==
    \/ \E c \in Calls : Lock(c)
    \/ Cleanup \/ Remove \/ SetFlag \/ Launch \/ Poll \/ KillAgain \/ Reply

-----------------------------------------------------------------------------
(* Happ and the proxy (mitm_capture.py).                                     *)

\* request(): the device id is added when the file is there at that moment.
Request ==
    /\ happ.link # NoCall /\ happ.asked < MaxAsked
    /\ happ' = [happ EXCEPT !.asked = @ + 1]
    /\ flows' = flows \cup {[link |-> happ.link, device |-> inject]}
    /\ UNCHANGED <<client, answer, queue, holder, pc, got, result, inject>>

\* response(): what looks like a subscription replaces the result, other
\* answers do not. The file is written in place, and may be read half.
Response ==
    \E f \in flows :
       /\ \/ result' = f.link /\ flows' = flows \ {f}
          \/ result' = "half" /\ flows' = flows
          \/ result' = result /\ flows' = flows \ {f}
       /\ UNCHANGED <<client, answer, queue, holder, pc, got, inject, happ>>

Init ==
    /\ client = [c \in Calls |-> "idle"] /\ answer = [c \in Calls |-> NoCall]
    /\ queue = {} /\ holder = NoCall /\ pc = "free" /\ got = NoCall
    /\ result = NoCall /\ inject = FALSE /\ happ = Stopped /\ flows = {}

Next ==
    \/ \E c \in Calls : Send(c) \/ GivesUp(c)
    \/ Server \/ Request \/ Response

Spec == Init /\ [][Next]_vars

-----------------------------------------------------------------------------
(* An answer is the subscription of the caller's own link, whatever earlier  *)
(* decodes captured late, twice or half; and the device id only ever reaches *)
(* the provider of a source that is bound to it.                             *)
OwnAnswer ==
    /\ \A c \in Calls : client[c] = "answered" => answer[c] = c
    /\ \A f \in flows : f.device => f.link \in Bound
=============================================================================
