----------------------------- MODULE SourceIntake -----------------------------
(* How a source comes into the panel (modules/sources/service.ts, ingest.ts, *)
(* parse.ts, single-node.ts, wireguard.ts): what a pasted value is taken     *)
(* for, the nodes its content has, and the rows the requests store, that     *)
(* overlap at every await. A value is the traits detectKind looks at, in the *)
(* order it does; a content is its form and its entries.                     *)
EXTENDS Integers, Sequences, FiniteSets, SequencesExt, FiniteSetsExt

CONSTANTS
    Pasted,    \* sets of values an administrator may paste:
               \* [id, traits, scheme, url, content]
    Urls,      \* subscriptions at their providers
    Contents,  \* what a provider may answer
    None,      \* no url, no content
    Requests,  \* calls of the administrator in flight
    MaxRows,   \* bound: rows
    MaxChanges \* bound: changes of what providers and decoder answer

VARIABLES
    values,  \* what this administrator pastes
    rows,    \* the sources by id
    nextId,
    calls,   \* what each request is doing
    served,  \* what each provider answers, None when it fails
    leads,   \* the url a happ link decodes to
    file,    \* the nodes the last apply wrote, None once it failed
    strayed, \* history: rows that may share a subscription: refreshed to
             \* another url, or stored while another call was past its checks
    changes

vars == <<values, rows, nextId, calls, served, leads, file, strayed, changes>>

-----------------------------------------------------------------------------
(* parse.ts, single-node.ts, wireguard.ts. An entry is [proto, style, whole, *)
(* n]: whole when the fields its converter needs are there and valid.        *)

SingleLink   == {"vless", "hysteria2", "trojan", "vmess", "ss", "tuic"}
Unsupported  == {"ssr", "hysteria"}
Outbounds    == {"vless", "trojan", "vmess"}                       \* v2ray, xray
SingBox      == {"hysteria2", "trojan", "vmess", "shadowsocks", "tuic", "vless"}
ServiceTypes == {"freedom", "blackhole", "direct", "dns", "block"}
NativeTypes  == SingleLink \cup {"wireguard", "socks5", "http"}

Kind(v) ==
    IF "config" \in v.traits THEN "node"
    ELSE IF v.scheme \in SingleLink THEN v.scheme
    ELSE IF v.scheme = "vpn" THEN "amneziawg"
    ELSE IF "crypt" \in v.traits THEN "happ"
    ELSE IF v.scheme \in Unsupported THEN "error"
    ELSE IF v.url # None THEN "sub"
    ELSE IF v.scheme = "happ" THEN "happ"
    ELSE IF "interface" \in v.traits THEN IF "junk" \in v.traits THEN "amneziawg" ELSE "wireguard"
    ELSE IF "packed" \in v.traits THEN "sub"
    ELSE "error"

FromLink(e)     == e.proto \in SingleLink /\ e.whole
FromOutbound(e) == e.style = "xray" /\ e.proto \in Outbounds /\ e.whole
FromSingBox(e)  == e.style = "singbox" /\ e.proto \in SingBox /\ e.whole
FromNative(e)   == e.style = "native" /\ e.proto \in NativeTypes /\ e.whole

\* The nodes of a content. What it cannot read is only reported to the client.
ParseProxiesFromText(content) ==
    SelectSeq(content.entries, LAMBDA e :
        CASE content.form = "clash" -> e.whole
          [] content.form = "json"  -> FromOutbound(e) \/ FromSingBox(e)
          [] content.form = "links" -> FromLink(e)
          [] OTHER -> FALSE)

\* Exactly one node that is no service, read strictly.
ParseSingleNodeConfig(content) ==
    LET found == SelectSeq(content.entries, LAMBDA e : e.proto \notin ServiceTypes)
    IN  IF Len(found) # 1 THEN <<>>
        ELSE SelectSeq(found, LAMBDA e : FromOutbound(e) \/ FromSingBox(e) \/ FromNative(e))

\* A .conf, or the first inside a vpn:// blob; a hosted blob has none.
ParseWireguard(content) ==
    LET found == SelectSeq(content.entries, LAMBDA e : e.whole /\ e.style # "hosted")
    IN  SubSeq(found, 1, Min({1, Len(found)}))

ParseLocally(v) ==
    CASE Kind(v) = "node" -> ParseSingleNodeConfig(v.content)
      [] Kind(v) \in SingleLink -> SelectSeq(v.content.entries, FromLink)
      [] Kind(v) \in {"wireguard", "amneziawg"} -> ParseWireguard(v.content)
      [] OTHER -> ParseProxiesFromText(v.content)

-----------------------------------------------------------------------------
(* A call: [pc, of, id, nodes, sub, clash]. of is the value it reads, id the *)
(* row of a refresh (0 for an addition), nodes and sub what it has read and  *)
(* the url that identifies it, clash whether another call stored the value   *)
(* after this one checked it.                                                *)

Ids  == DOMAIN rows
Idle == [pc |-> "idle", of |-> None, id |-> 0, nodes |-> <<>>, sub |-> None, clash |-> FALSE]
Applying == [Idle EXCEPT !.pc = "apply"]     \* all that is left is the apply
Value(id) == CHOOSE v \in values : v.id = id

\* ingestSource up to its first await; a failure throws, and ends the call.
Ingest(v, id) ==
    LET call   == [Idle EXCEPT !.of = v.id, !.id = id]
        nodes  == ParseLocally(v)
    IN  CASE Kind(v) = "error" -> Idle
          [] Kind(v) = "happ"  -> [call EXCEPT !.pc = "decode"]
          [] Kind(v) = "sub" /\ v.url # None -> [call EXCEPT !.pc = "fetch", !.sub = v.url]
          [] OTHER -> IF nodes = <<>> THEN Idle ELSE [call EXCEPT !.pc = "store", !.nodes = nodes]

Frame == UNCHANGED <<values, served, leads, changes>>

AddSource(r) ==
    /\ calls[r].pc = "idle" /\ nextId <= MaxRows
    /\ \E v \in values :
         /\ \A i \in Ids : rows[i].value # v.id                      \* else CONFLICT
         /\ calls' = [calls EXCEPT ![r] = Ingest(v, 0)]
    /\ UNCHANGED <<rows, nextId, file, strayed>> /\ Frame

RefreshSource(r) ==
    /\ calls[r].pc = "idle"
    /\ \E i \in Ids : calls' = [calls EXCEPT ![r] = Ingest(Value(rows[i].value), i)]
    /\ UNCHANGED <<rows, nextId, file, strayed>> /\ Frame

\* ingestHapp: the decoder answers with the url and the body, or fails.
Decoded(r) ==
    /\ calls[r].pc = "decode"
    /\ LET url == leads[calls[r].of] IN
       \/ calls' = [calls EXCEPT ![r] = Idle]
       \/ /\ url # None
          /\ \E body \in {served[url]} \ {None} :
               calls' = [calls EXCEPT ![r].pc = "fetch", ![r].sub = url,
                                      ![r].nodes = ParseProxiesFromText(body)]
    /\ UNCHANGED <<rows, nextId, file, strayed>> /\ Frame

\* Mutant: a subscription without nodes is taken.
TakesEmpty(call, fetched) ==
    [call EXCEPT !.pc = "store", !.nodes = IF call.nodes # <<>> THEN call.nodes ELSE fetched]

\* The nodes of the decoder come before those of the fetch; none is an error.
Taken(call, fetched) ==
    LET nodes == IF call.nodes # <<>> THEN call.nodes ELSE fetched
    IN  IF nodes = <<>> THEN Idle ELSE [call EXCEPT !.pc = "store", !.nodes = nodes]

\* fetchSubscription: the answer, or a failure at any moment.
Fetched(r) ==
    /\ calls[r].pc = "fetch"
    /\ \E body \in {served[calls[r].sub], None} :
         calls' = [calls EXCEPT ![r] =
                     Taken(calls[r], IF body = None THEN <<>> ELSE ParseProxiesFromText(body))]
    /\ UNCHANGED <<rows, nextId, file, strayed>> /\ Frame

\* Additions of this value that have passed their first check.
Clashing(r) ==
    [o \in Requests |->
       IF o = r THEN Applying
       ELSE [calls[o] EXCEPT !.clash = @ \/ (calls[o].id = 0 /\ calls[o].of = calls[r].of)]]

\* The second gate, by the subscription the value led to, and the row.
StoreNew(r) ==
    LET call == calls[r]
        last == IF Ids = {} THEN -1 ELSE Max({rows[i].order : i \in Ids})
    IN
    /\ call.pc = "store" /\ call.id = 0
    /\ IF call.sub # None /\ \E i \in Ids : rows[i].sub = call.sub
       THEN /\ calls' = [calls EXCEPT ![r] = Idle]                   \* CONFLICT
            /\ UNCHANGED <<rows, nextId, strayed>>
       ELSE /\ rows' = [i \in Ids \cup {nextId} |->
                           IF i # nextId THEN rows[i]
                           ELSE [value |-> call.of, sub |-> call.sub, nodes |-> call.nodes,
                                 order |-> last + 1]]
            /\ nextId' = nextId + 1
            /\ calls' = Clashing(r)
            /\ strayed' = IF call.clash THEN strayed \cup {nextId} ELSE strayed
    /\ UNCHANGED <<file>> /\ Frame

\* A refresh replaces the snapshot of its row, if it is still there.
StoreRefreshed(r) ==
    LET call == calls[r] IN
    /\ call.pc = "store" /\ call.id # 0
    /\ rows' = IF call.id \in Ids
               THEN [rows EXCEPT ![call.id].sub = call.sub, ![call.id].nodes = call.nodes]
               ELSE rows
    /\ strayed' = IF call.id \in Ids /\ rows[call.id].sub # call.sub
                  THEN strayed \cup {call.id} ELSE strayed
    /\ calls' = [calls EXCEPT ![r] = Applying]
    /\ UNCHANGED <<nextId, file>> /\ Frame

RemoveSource(r) ==
    /\ calls[r].pc = "idle"
    /\ \E i \in Ids :
         /\ rows' = [j \in Ids \ {i} |-> rows[j]]
         /\ calls' = [calls EXCEPT ![r] = Applying]
    /\ UNCHANGED <<nextId, file, strayed>> /\ Frame

\* Only a permutation of all rows is taken, in one transaction.
ReorderSources(r) ==
    /\ calls[r].pc = "idle" /\ Cardinality(Ids) > 1
    /\ \E ids \in SetToSeqs(Ids) :
         rows' = [i \in Ids |-> [rows[i] EXCEPT !.order = (CHOOSE n \in DOMAIN ids : ids[n] = i) - 1]]
    /\ calls' = [calls EXCEPT ![r] = Applying]
    /\ UNCHANGED <<nextId, file, strayed>> /\ Frame

\* collectProxies: the nodes of all rows, by their order.
Collected(all) ==
    LET byOrder == SetToSortSeq(DOMAIN all, LAMBDA i, j : all[i].order < all[j].order)
    IN  FlattenSeq([n \in DOMAIN byOrder |-> all[byOrder[n]].nodes])

\* applyConfig reads the rows at its turn; it may fail.
Apply(r) ==
    /\ calls[r].pc = "apply" /\ calls' = [calls EXCEPT ![r] = Idle]
    /\ file' \in {Collected(rows), None}
    /\ UNCHANGED <<rows, nextId, strayed>> /\ Frame

\* A provider answers otherwise, or a link leads elsewhere.
World ==
    /\ changes < MaxChanges /\ changes' = changes + 1
    /\ \/ \E u \in Urls, c \in Contents \cup {None} : served' = [served EXCEPT ![u] = c] /\ leads' = leads
       \/ \E l \in DOMAIN leads, u \in Urls : leads' = [leads EXCEPT ![l] = u] /\ served' = served
    /\ UNCHANGED <<values, rows, nextId, calls, file, strayed>>

Init ==
    /\ values \in Pasted /\ rows = <<>> /\ nextId = 1 /\ calls = [r \in Requests |-> Idle]
    /\ served \in [Urls -> Contents]
    /\ leads \in [{v.id : v \in {w \in values : Kind(w) = "happ"}} -> Urls]
    /\ file = Collected(rows) /\ strayed = {} /\ changes = 0

Next ==
    \/ World
    \/ \E r \in Requests :
         \/ AddSource(r) \/ RefreshSource(r) \/ RemoveSource(r) \/ ReorderSources(r)
         \/ Decoded(r) \/ Fetched(r) \/ StoreNew(r) \/ StoreRefreshed(r) \/ Apply(r)

Spec == Init /\ [][Next]_vars

-----------------------------------------------------------------------------
(* A subscription is one row, however its link was wrapped and although two  *)
(* additions pass their first check together, unless a refresh found it      *)
(* moved; a value without such an identity is only doubled by additions that *)
(* overlap.                                                                  *)
OnceEach ==
    \A i, j \in Ids : i # j /\ {i, j} \cap strayed = {} =>
       /\ rows[i].value # rows[j].value
       /\ rows[i].sub # None => rows[i].sub # rows[j].sub

(* No failure of a provider or of the decoder, and no content without a node *)
(* it can read, ever empties a source; rows keep a total order; and once     *)
(* nothing is in flight and no apply failed, the configuration has them all. *)
KeepsNodes ==
    /\ \A i \in Ids : rows[i].nodes # <<>> /\ \A j \in Ids \ {i} : rows[i].order # rows[j].order
    /\ (\A r \in Requests : calls[r].pc = "idle") /\ file # None => file = Collected(rows)
=============================================================================
