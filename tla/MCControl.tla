----------------------------- MODULE MCControl -----------------------------
(* Small instances of the parts of the control connection: Control, the      *)
(* telemetry of its stream, the sequence numbers of its packets, the         *)
(* client's identity, and the log files and speed tests of its commands.     *)
(* They share no state here, so each is explored while the others keep       *)
(* their initial state.                                                      *)
EXTENDS Control, Telemetry, Identity, Logs, Channel, Download, TLC

\* Observations with statistics that may be missing, a leaf, or an object with
\* a generation, and a core nested up to one level too deep, as objects are and
\* as an array is.  A snapshot always has its core.
Nested == INSTANCE NestedDelta
Partial(D, R) == UNION {[S -> R] : S \in SUBSET D}
Bits == {Nested!Leaf(0, 0), Nested!Leaf(1, 0)}
Objects(R) == {Nested!Object(f) : f \in R}
Stats == {Nested!Leaf(0, 0)} \cup Objects(Partial({"generation"}, Bits))
Inner == {Nested!Leaf(0, 1)} \cup Objects(Partial({"p"}, Bits))
Fields ==
    {f \in Partial({"p", "q"}, Inner) :
       "q" \in DOMAIN f => f["q"] \in {Nested!Leaf(0, 1), Nested!Object(<<>>)}}
TooDeep ==
    {[k \in {"p"} |-> Nested!Leaf(0, 2)],
     [k \in {"p"} |-> Nested!Object([j \in {"p"} |-> Nested!Object([i \in {"p"} |-> Nested!Leaf(0, 0)])])]}
MCNested ==
    {o \in Partial({"xray_stats", "core"}, Stats \cup Objects(Fields \cup TooDeep)) :
       /\ "xray_stats" \in DOMAIN o => o["xray_stats"] \in Stats
       /\ "core" \in DOMAIN o /\ o["core"] \notin Stats}

\* An observation as Delta has it.
Flat(o) ==
    [p \in Nested!PathsOf(o) |->
       LET v == Nested!ValueAt(o, p)
       IN IF Nested!IsObject(v) THEN Object ELSE Leaf(v.leaf, v.height)]
MCObservations == {Flat(o) : o \in MCNested}

\* On these observations the operators of Delta are the functions of the code.
ASSUME DeltaAgrees ==
    \A o \in MCNested :
      LET f == Flat(o) IN
      /\ BoundedObservation(f) = Nested!BoundedObservation(o)
      /\ \A p \in UNION {DOMAIN a : a \in MCObservations} :
           /\ Removable(f, {p}) = Nested!HasPath(o, p)
           /\ Removable(f, {p}) => Without(f, {p}) = Flat(Nested!Without(o, p))
      /\ \A n \in MCNested :
           LET g == Flat(n) IN
           /\ Changes(f, g) = Flat(Nested!Changes(o, n))
           /\ Removals(f, g) = Nested!Removals(o, n, <<>>)
           /\ MergeObservation(f, g) = Flat(Nested!MergeObservation(o, n))
           /\ (Generation(f) = Generation(g)) = (Nested!Generation(o) = Nested!Generation(n))

CmdSymmetry == Permutations(Cmds)

VARIABLE part

MCInit ==
    /\ part \in {"control", "telemetry", "identity", "logs", "channel", "download"}
    /\ Init /\ TelemetryInit /\ IdentityInit /\ LogsInit /\ ChannelInit /\ DownloadInit
    /\ part # "control" => mode = "auto"
    /\ part # "identity" => saved.mode = "auto"
    /\ part # "download" => budget = 0
MCNext ==
    \/ /\ part = "control" /\ Next
       /\ UNCHANGED <<part, telemetryVars, identityVars, logVars, channelVars, downloadVars>>
    \/ /\ part = "telemetry" /\ TelemetryNext
       /\ UNCHANGED <<part, vars, identityVars, logVars, channelVars, downloadVars>>
    \/ /\ part = "identity" /\ IdentityNext
       /\ UNCHANGED <<part, vars, telemetryVars, logVars, channelVars, downloadVars>>
    \/ /\ part = "logs" /\ LogsNext
       /\ UNCHANGED <<part, vars, telemetryVars, identityVars, channelVars, downloadVars>>
    \/ /\ part = "channel" /\ ChannelNext
       /\ UNCHANGED <<part, vars, telemetryVars, identityVars, logVars, downloadVars>>
    \/ /\ part = "download" /\ DownloadNext
       /\ UNCHANGED <<part, vars, telemetryVars, identityVars, logVars, channelVars>>
MCSpec ==
    MCInit /\ [][MCNext]_<<part, vars, telemetryVars, identityVars, logVars, channelVars, downloadVars>>
=============================================================================
