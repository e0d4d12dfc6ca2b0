------------------------------ MODULE MCSetup ------------------------------
(***************************************************************************)
(* What the administrator sets up, each part on its own: the sources the   *)
(* panel takes in and the decoder it asks, the configuration it generates  *)
(* from its channels, its connection mode, what it calls ready, and the    *)
(* diagnosis of its routes. A behaviour is a behaviour of one of them, the *)
(* part; the variables of the others are off. The mode is GatewayMode as   *)
(* it is, some of whose variables other parts have too.                    *)
(***************************************************************************)
EXTENDS GatewayMode, FiniteSets, TLC

CONSTANTS
    Pasted, Urls, Contents, MaxRows, IntakeChanges,    \* Intake
    Links, Bound, MaxAsked,                            \* Decoder
    Routings, Nodes                                    \* Diagnosis

\* A link is neither the absence of one nor a result that is half written.
ASSUME LinksAssumption == None \notin Links /\ "half" \notin Links

\* The channels of a configuration have names of their own, which are not those the
\* engine has for itself, and one of two targets.
ASSUME RoutingsAssumption ==
    /\ IsFiniteSet(Routings)
    /\ \A config \in Routings :
         LET chans == config.channels IN
         /\ chans \in Seq({chans[n] : n \in DOMAIN chans})
         /\ \A m, n \in DOMAIN chans : chans[m].name = chans[n].name => m = n
         /\ \A n \in DOMAIN chans :
              /\ chans[n].name \notin {"G", "DIRECT"} /\ chans[n].target \in {"proxy", "direct"}

VARIABLES
    part,
    channels, pools, held, denied, order,                               \* Config
    values, rows, nextId, served, leads, strayed,                       \* Intake
    client, holder, pc, got, result, inject, happ, flows,               \* Decoder
    profile, host,                                                      \* Readiness
    saved, apply, run, cache,                                           \* Diagnosis
    answer                                                              \* of several

configVars    == <<channels, pools, held, denied, order>>
intakeVars    == <<values, rows, nextId, served, leads, strayed>>
decoderVars   == <<client, holder, pc, got, result, inject, happ, flows>>
modeVars      == <<form, pending, job, password, site, agreed, faults>>
readinessVars == <<profile, host>>
diagnosisVars == <<saved, apply, run, cache>>
partVars == <<part, configVars, intakeVars, decoderVars, modeVars, readinessVars,
              diagnosisVars, settings, state, engine, file, queue, calls, answer, changes>>

\* Nodes of one name in a subscription and across two, and nodes called as a
\* group, a member of a collapsed group, or a renamed node.
Node(name, id) == [name |-> name, id |-> id]
Subscriptions ==
    { << <<Node(<<"A">>, 1), Node(<<"A">>, 2)>>,
         <<Node(<<"A">>, 1), Node(<<"A", " #", "1">>, 3)>> >>,
      << <<Node(<<"AUTO">>, 1), Node(<<"A", "-", "2">>, 2)>>,
         <<Node(<<"A">>, 3), Node(<<"A">>, 4)>> >> }

\* What is pasted: a link for the decoder, a url as it is and inside a deep
\* link, a share link, a node, a .conf, a packed list, and a scheme refused.
Entry(proto, style, whole) == [proto |-> proto, style |-> style, whole |-> whole]
Holding(as, entries) == [form |-> as, entries |-> entries]
Value(id, traits, scheme, url, content) ==
    [id |-> id, traits |-> traits, scheme |-> scheme, url |-> url, content |-> content]
Nothing == Holding("none", <<>>)
Link    == Value("happ", {"crypt"}, "happ", None, Nothing)
Url     == Value("url", {}, "https", "u1", Nothing)
Deep    == Value("deep", {}, "clash", "u1", Nothing)
Share   == Value("share", {}, "vless", "u2", Holding("links", <<Entry("vless", "link", TRUE)>>))
Single  == Value("node", {"config"}, "none", None,
                  Holding("config", <<Entry("direct", "singbox", TRUE),
                                      Entry("tuic", "singbox", TRUE)>>))
Conf    == Value("conf", {"interface", "junk"}, "none", None,
                  Holding("ini", <<Entry("wireguard", "ini", TRUE)>>))
Packed  == Value("packed", {"packed"}, "none", None,
                  Holding("links", <<Entry("ssr", "link", TRUE), Entry("ss", "link", TRUE)>>))
Refused == Value("ssr", {}, "ssr", "u2", Nothing)

SomePasted == {{Link, Deep}, {Url, Deep}, {Share, Link}, {Single, Packed}, {Conf, Refused}}
SomeContents == {Holding("clash", <<Entry("vless", "clash", FALSE), Entry("trojan", "clash", TRUE)>>),
                 Holding("json", <<Entry("wireguard", "xray", TRUE), Entry("dns", "xray", TRUE)>>)}

Config == INSTANCE RoutingConfig WITH Profiles <- {"proxy", "gateway"}, MaxChanges <- 3
Intake == INSTANCE SourceIntake WITH MaxChanges <- IntakeChanges
Decoder == INSTANCE HappDecoder WITH Calls <- Links, NoCall <- None
Readiness == INSTANCE GatewayReadiness WITH Default <- "G", Other <- "H", Real <- "N",
                 Pseudo <- "COMPATIBLE"

\* Channels of either kind in either order of priority, rules ahead of them, and
\* a default channel that is direct.
Channel(name, target, certain, lists) ==
    [name |-> name, target |-> target, certain |-> certain, lists |-> lists]
Routing(chans, first, direct) == [channels |-> chans, first |-> first, direct |-> direct]
SomeRoutings ==
    { Routing(<<Channel("D", "direct", TRUE, "none"), Channel("W", "proxy", TRUE, "none")>>,
              "none", FALSE),
      Routing(<<Channel("W", "proxy", FALSE, "hit"), Channel("D", "direct", TRUE, "none")>>,
              "none", FALSE),
      Routing(<<Channel("W", "proxy", FALSE, "miss")>>, "hit", TRUE),
      Routing(<<Channel("W", "proxy", TRUE, "none")>>, "none", TRUE) }

Diagnosis == INSTANCE Diagnostics WITH Default <- "G", Group <- "AUTO", Saved <- Routings,
                 MaxChanges <- 1

ConfigOff == channels = 0 /\ pools = 0 /\ held = 0 /\ denied = 0 /\ order = 0
IntakeOff ==
    /\ values = 0 /\ rows = 0 /\ nextId = 0 /\ served = 0 /\ leads = 0
    /\ strayed = 0
DecoderOff ==
    /\ client = 0 /\ holder = 0 /\ pc = 0 /\ got = 0 /\ result = 0 /\ inject = 0
    /\ happ = 0 /\ flows = 0
ModeOff ==
    /\ form = 0 /\ pending = 0 /\ job = 0 /\ password = 0 /\ site = 0 /\ agreed = 0
    /\ faults = 0
ReadinessOff == profile = 0 /\ host = 0
DiagnosisOff == saved = 0 /\ apply = 0 /\ run = 0 /\ cache = 0

PartInit ==
    \/ /\ part = "config" /\ Config!Init
       /\ IntakeOff /\ DecoderOff /\ ModeOff /\ ReadinessOff /\ DiagnosisOff /\ state = 0
       /\ engine = 0 /\ file = 0 /\ queue = 0 /\ calls = 0 /\ answer = 0
    \/ /\ part = "intake" /\ Intake!Init
       /\ ConfigOff /\ DecoderOff /\ ModeOff /\ ReadinessOff /\ DiagnosisOff /\ settings = 0
       /\ state = 0 /\ engine = 0 /\ queue = 0 /\ answer = 0
    \/ /\ part = "decoder" /\ Decoder!Init
       /\ ConfigOff /\ IntakeOff /\ ModeOff /\ ReadinessOff /\ DiagnosisOff /\ settings = 0
       /\ state = 0 /\ engine = 0 /\ file = 0 /\ calls = 0 /\ changes = 0
    \/ /\ part = "mode" /\ Init
       /\ ConfigOff /\ IntakeOff /\ DecoderOff /\ ReadinessOff /\ DiagnosisOff
       /\ answer = 0
    \/ /\ part = "readiness" /\ Readiness!Init
       /\ ConfigOff /\ IntakeOff /\ DecoderOff /\ ModeOff /\ DiagnosisOff /\ settings = 0
       /\ file = 0 /\ queue = 0 /\ calls = 0 /\ changes = 0
    \/ /\ part = "diagnosis" /\ Diagnosis!Init
       /\ ConfigOff /\ IntakeOff /\ DecoderOff /\ ModeOff /\ ReadinessOff /\ settings = 0
       /\ state = 0 /\ file = 0 /\ queue = 0 /\ calls = 0

PartNext ==
    /\ part' = part
    /\ \/ /\ part = "config" /\ Config!Next
          /\ UNCHANGED <<intakeVars, decoderVars, modeVars, readinessVars, diagnosisVars, state,
                         engine, file, queue, calls, answer>>
       \/ /\ part = "intake" /\ Intake!Next
          /\ UNCHANGED <<configVars, decoderVars, modeVars, readinessVars, diagnosisVars,
                         settings, state, engine, queue, answer>>
       \/ /\ part = "decoder" /\ Decoder!Next
          /\ UNCHANGED <<configVars, intakeVars, modeVars, readinessVars, diagnosisVars,
                         settings, state, engine, file, calls, changes>>
       \/ /\ part = "mode" /\ Next
          /\ UNCHANGED <<configVars, intakeVars, decoderVars, readinessVars, diagnosisVars,
                         answer>>
       \/ /\ part = "readiness" /\ Readiness!Next
          /\ UNCHANGED <<configVars, intakeVars, decoderVars, modeVars, diagnosisVars,
                         settings, file, queue, calls, changes>>
       \/ /\ part = "diagnosis" /\ Diagnosis!Next
          /\ UNCHANGED <<configVars, intakeVars, decoderVars, modeVars, readinessVars,
                         settings, state, file, queue, calls>>

PartSpec == PartInit /\ [][PartNext]_partVars

\* Requests are interchangeable.
Symmetry == Permutations(Requests)

-----------------------------------------------------------------------------
(* Whatever the subscriptions call their nodes and whatever the channels and *)
(* their pools are changed to, the engine can load the configuration, every  *)
(* channel leads to its own nodes, and traffic goes to the first proxy       *)
(* channel in the administrator's order that claims it: Direct comes after   *)
(* them wherever the administrator put it, but for what a gateway lets out   *)
(* first. And what the health page calls ready has the chosen route and      *)
(* nodes behind it.                                                          *)
ConfigurationSound ==
    /\ part = "config" => Config!ConfigurationSound
    /\ part = "readiness" => Readiness!ReadinessTrue

(* A subscription is one source, however its link was wrapped, unless two    *)
(* additions overlap or it moved; no failure of a provider or of the decoder *)
(* empties a source; and an answer of the decoder is the subscription of the *)
(* caller's own link, asked with the device id only where it is bound.       *)
IntakeSound ==
    /\ part = "intake"  => Intake!OnceEach /\ Intake!KeepsNodes
    /\ part = "decoder" => Decoder!OwnAnswer

(* Whatever a change of the connection mode meets on its way, the settings,  *)
(* the accepted file and the engine end up agreed, an acknowledged change is *)
(* kept and a failed one undone, and TUN never runs without a password.      *)
ModeSound == part = "mode" => ModeAgrees /\ ChangeKept /\ TunGuarded

(* What the diagnostics page says of routes and nodes is so when it says it, *)
(* whatever is applied before, during and after the run it answers from.     *)
DiagnosticsTrue == part = "diagnosis" => Diagnosis!DiagnosticsTrue
=============================================================================
