---------------------------- MODULE MCServerSetup ----------------------------
EXTENDS ServerSetup

Alphabet == {":", "[", "]", "a", "7", "-", "+"}
Texts(n) == BoundedSeq(Alphabet, n)
Upstream == <<"a", ":", "7">>

Options(mode, authType) ==
    [listen |-> <<>>, upstream |-> Upstream, line1 |-> "", library |-> "unset", binary |-> "unset",
     offline |-> FALSE, overrides |-> Empty, authType |-> authType, mode |-> mode,
     key |-> IF authType = "floodgate" THEN 16 ELSE 0]
Direct(options) == [via |-> "direct", options |-> options]

PlainHost == [env |-> [library |-> "unset", binary |-> "unset"], blob |-> "none", system |-> FALSE, download |-> TRUE]
On(h, requests) == [host |-> h, requests |-> requests]

Modes == {"embedded", "subprocess"}

\* Every text of up to four characters to listen on, of up to three upstream,
\* and ports on either side of the smallest and the largest int (MaxInt = 65535).
Edges == {<<":", "6", "5", "5", "3", "5">>, <<":", "+", "6", "5", "5", "3", "6">>,
          <<":", "-", "6", "5", "5", "3", "6">>, <<":", "-", "6", "5", "5", "3", "7">>}
Addresses == LET o == Options("subprocess", "online")
             IN  {[o EXCEPT !.listen = t] : t \in Texts(4) \cup Edges} \cup {[o EXCEPT !.upstream = t] : t \in Texts(3)}

\* Overrides that replace, extend or remove what they meet, at each depth.
X == Word("override")
Under(key, values) == {Empty} \cup {key :> v : v \in values}
OverrideTrees ==
    {a @@ b @@ c @@ d :
        a \in Under("bedrock", {X, Map(Empty), Map([port |-> X]), Map([compressionLevel |-> X, address |-> X]), Map([fresh |-> X])}),
        b \in Under("advanced", {X, Map([java |-> X]), Map([java |-> Map([useHaproxyProtocol |-> X])]), Map([java |-> Map([fresh |-> X])]),
                             Map([java |-> Map([useHaproxyProtocol |-> Map([fresh |-> X])])])}),
        c \in Under("mtu", {X, Map([fresh |-> X])}),
        d \in Under("floodgateKeyFile", {X})}
Overridden ==
    {[Options("subprocess", auth) EXCEPT !.overrides = t, !.line1 = line] :
        auth \in {"floodgate", "online", "offline", "unknown"}, t \in OverrideTrees, line \in {"", "motd"}}

\* Keys and modes of direct calls.
KeyOptions == {[Options(mode, auth) EXCEPT !.key = k] :
            mode \in Modes \cup {"unknown"}, auth \in {"floodgate", "online", "unknown"}, k \in {0, 8, 16, 32}}

GateConfigs ==
    [enabled : BOOLEAN, authType : {"", "floodgate", "ONLINE", "offline", "xbox"}, mode : {"", "embedded", "subprocess", "thread"},
     floodgateKey : [prefix : {"", "0x", "0X"}, digits : {0, 31, 32, 34}, hex : BOOLEAN],
     listen : {<<>>}, upstream : {<<>>, Upstream}, line1 : {""}, library : {"unset"}, offline : {FALSE},
     overrides : {Empty, [java |-> Map([authType |-> X])]}]
FromGate == {[via |-> "gate", config |-> c] : c \in GateConfigs}

PathHosts == [env : [library : Paths, binary : Paths], blob : {"none", "present", "broken"}, system : BOOLEAN, download : BOOLEAN]
PathOptions ==
    {[Options(mode, "offline") EXCEPT !.library = l, !.binary = b, !.offline = off] :
        mode \in Modes, l \in Paths, b \in Paths, off \in BOOLEAN}

DirectCases == {Direct(o) : o \in Addresses \cup Overridden \cup KeyOptions}
AllCases == {On(PlainHost, DirectCases \cup FromGate)}
            \cup {On(h, {Direct(o) : o \in PathOptions}) : h \in PathHosts}

OneEmbedded == {On(PlainHost, {Direct(Options("embedded", "online"))})}
=============================================================================
