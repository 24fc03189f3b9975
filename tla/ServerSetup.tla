----------------------------- MODULE ServerSetup -----------------------------
(***************************************************************************)
(* From a configuration to a running Geyser and back: Gate's adapter       *)
(* (go/integration/gate), Options.validate and New, locateBinary and       *)
(* locateLibrary, the working directory with key.bin, config.yml and       *)
(* permissions.yml, the change of the process's directory, and the         *)
(* deferred calls that undo it.                                            *)
(*                                                                         *)
(* A value of config.yml carries its YAML type; a map is a function from   *)
(* keys to values.  The tree keeps one key of each kind (typed, baseline,  *)
(* nested twice).  An address is a sequence of characters, because         *)
(* splitHostPort takes it apart; other words are atoms.                    *)
(*                                                                         *)
(* External: files, the environment and the mirror; every system call may  *)
(* fail, except the Chdir back to a directory that exists.  What happens   *)
(* while a server is "running" is EmbeddedLifecycle or                     *)
(* SubprocessSupervisor, and the download is AssetCache.                   *)
(***************************************************************************)
EXTENDS Integers, Sequences, SequencesExt

CONSTANTS
    Servers,        \* the servers of the process
    MaxInt,         \* the largest int of the platform
    Cases           \* hosts, each with what may be asked for there

Home == "home"              \* where the process was started
NoDir == "none"             \* os.Getwd failed
NoOptions == "none"
Empty == [k \in {} |-> 0]

\* What a path may name, for executableAt and fileAt.
Paths == {"unset", "executable", "file", "missing"}

\* Options, and what Gate's Config has in common with it: the addresses are
\* texts; the overrides are any tree.
HasTexts(x) == x.listen \in Seq(STRING) /\ x.upstream \in Seq(STRING) /\ x.offline \in BOOLEAN
IsOptions(o) ==
    /\ o = [listen |-> o.listen, upstream |-> o.upstream, line1 |-> o.line1,
            library |-> o.library, binary |-> o.binary, offline |-> o.offline,
            overrides |-> o.overrides, authType |-> o.authType, mode |-> o.mode, key |-> o.key]
    /\ HasTexts(o)

ASSUME IntAssumption == MaxInt \in Nat
ASSUME ServerAssumption == Servers \cap {Home, NoDir} = {}
ASSUME CaseAssumption ==
    \A x \in Cases :
        /\ x.host.system \in BOOLEAN /\ x.host.download \in BOOLEAN
        /\ \A r \in x.requests :
            \/ r.via = "gate" /\ HasTexts(r.config)
            \/ r.via = "direct" /\ IsOptions(r.options)

VARIABLES
    host,           \* what locate finds on this host
    request,        \* Gate's Config or the Options of a direct call of New
    opts,           \* the Options of the server
    pc,             \* the next step of New and run
    source,         \* where locate found the asset
    workdirs,       \* the servers whose temporary directory exists
    files,          \* what is in it
    prev,           \* embeddedRunner.run's prev
    cwd             \* the working directory of the process

vars == <<host, request, opts, pc, source, workdirs, files, prev, cwd>>

----------------------------------------------------------------------------
Text(t) == <<"text", t>>
Int_(n) == <<"int", n>>
Bool(b) == <<"bool", b>>
Map(f) == <<"map", f>>
Word(w) == Text(<<w>>)
IsMap(v) == v[1] = "map"

\* f with v under k.
Put(f, k, v) == [x \in DOMAIN f \cup {k} |-> IF x = k THEN v ELSE f[x]]

----------------------------------------------------------------------------
(***************************************************************************)
(* Gate's adapter: toOptions and decodeFloodgateKey.  A key's text is its  *)
(* prefix, the number of digits and whether all of them are hex digits; a  *)
(* decoded key is its length.                                              *)
(***************************************************************************)
ToLower(word) == IF word = "ONLINE" THEN "online" ELSE word

Blank(key) == key.prefix = "" /\ key.digits = 0
Decodes(key) == Blank(key) \/ (key.prefix # "0X" /\ key.hex /\ key.digits % 2 = 0)
decodeFloodgateKey(key) == key.digits \div 2

AuthOf(c) == IF c.authType = "" THEN "floodgate" ELSE ToLower(c.authType)
ModeOf(c) == IF c.mode = "" THEN "embedded" ELSE ToLower(c.mode)

Convertible(c) ==
    /\ AuthOf(c) \in {"floodgate", "online", "offline"}
    /\ AuthOf(c) = "floodgate" => Decodes(c.floodgateKey)
    /\ ModeOf(c) \in {"embedded", "subprocess"}

toOptions(c) ==
    [listen |-> c.listen, upstream |-> c.upstream, line1 |-> c.line1,
     library |-> c.library, binary |-> "unset", offline |-> c.offline, overrides |-> c.overrides,
     authType |-> AuthOf(c), mode |-> ModeOf(c),
     key |-> IF AuthOf(c) = "floodgate" THEN decodeFloodgateKey(c.floodgateKey) ELSE 0]

(***************************************************************************)
(* Options.validate.                                                       *)
(***************************************************************************)
Valid(o) ==
    /\ o.upstream # <<>>
    /\ o.authType = "floodgate" => o.key = 16

DefaultListen == <<":", "1", "9", "1", "3", "2">>
WithDefaults(o) == [o EXCEPT !.listen = IF @ = <<>> THEN DefaultListen ELSE @]

----------------------------------------------------------------------------
(***************************************************************************)
(* locateBinary and locateLibrary: kind is the asset the mode needs.       *)
(***************************************************************************)
Usable(kind, p) == p = "executable" \/ (kind = "library" /\ p = "file")

\* What is found when neither the options nor the environment name a path.
Unnamed(o) ==
    CASE host.blob = "present" -> "blob"
      [] host.blob = "none" /\ host.system -> "system"
      [] host.blob = "none" /\ ~host.system /\ ~o.offline /\ host.download -> "download"
      [] OTHER -> "error"

\* Fault: a named path that is not usable is passed over.
locateFallingThrough(kind, o) ==
    IF Usable(kind, o[kind]) THEN "path" ELSE IF Usable(kind, host.env[kind]) THEN "env" ELSE Unnamed(o)

locate(kind, o) ==
    IF o[kind] # "unset" THEN (IF Usable(kind, o[kind]) THEN "path" ELSE "error")
    ELSE IF host.env[kind] # "unset" THEN (IF Usable(kind, host.env[kind]) THEN "env" ELSE "error")
    ELSE Unnamed(o)

----------------------------------------------------------------------------
(***************************************************************************)
(* buildConfigMap.                                                         *)
(***************************************************************************)
Digits == <<"0", "1", "2", "3", "4", "5", "6", "7", "8", "9">>
IsDigit(c) == \E i \in 1 .. 10 : Digits[i] = c
DigitValue(c) == (CHOOSE i \in 1 .. 10 : Digits[i] = c) - 1

\* strconv.Atoi: an optional sign, digits, and a value that is an int.
Negative(t) == t # <<>> /\ t[1] = "-"
Unsigned(t) == IF t # <<>> /\ t[1] \in {"-", "+"} THEN Tail(t) ELSE t
Magnitude(t) == FoldLeft(LAMBDA v, c : 10 * v + DigitValue(c), 0, Unsigned(t))
IsNumber(t) ==
    /\ Unsigned(t) # <<>>
    /\ \A i \in 1 .. Len(Unsigned(t)) : IsDigit(Unsigned(t)[i])
    /\ Magnitude(t) <= IF Negative(t) THEN MaxInt + 1 ELSE MaxInt
Atoi(t) == IF Negative(t) THEN -Magnitude(t) ELSE Magnitude(t)

splitHostPortStr(s) ==
    IF s[1] = "["
    THEN LET end == SelectInSeq(s, LAMBDA c : c = "]")
             rest == SubSeq(s, end + 1, Len(s))
         IN  IF end = 0 THEN [host |-> <<>>, port |-> <<>>]
             ELSE [host |-> SubSeq(s, 2, end - 1),
                   port |-> IF rest # <<>> /\ rest[1] = ":" THEN Tail(rest) ELSE <<>>]
    ELSE LET idx == SelectLastInSeq(s, LAMBDA c : c = ":")
         IN  IF idx = 0 THEN [host |-> s, port |-> <<>>]
             ELSE [host |-> SubSeq(s, 1, idx - 1), port |-> SubSeq(s, idx + 1, Len(s))]

\* Fault: the port is passed on as the string it was.
splitHostPortText(s, defaultHost, defaultPort) ==
    LET parts == splitHostPortStr(s)
    IN  [address |-> Text(IF parts.host = <<>> THEN defaultHost ELSE parts.host),
         port |-> IF parts.port = <<>> THEN Int_(defaultPort) ELSE Text(parts.port)]

\* validate has replaced an empty Listen and refused an empty Upstream.
splitHostPort(s, defaultHost, defaultPort) ==
    LET parts == splitHostPortStr(s)
    IN  [address |-> Text(IF parts.host = <<>> THEN defaultHost ELSE parts.host),
         port |-> Int_(IF IsNumber(parts.port) THEN Atoi(parts.port) ELSE defaultPort)]

\* The loop of mergeMap over one pair of maps; Inner is its call of itself.
mergeLevel(dst, src, Inner(_, _)) ==
    [k \in DOMAIN dst \cup DOMAIN src |->
        IF k \notin DOMAIN src THEN dst[k]
        ELSE IF k \in DOMAIN dst /\ IsMap(dst[k]) /\ IsMap(src[k]) THEN Map(Inner(dst[k][2], src[k][2]))
        ELSE src[k]]

\* mergeMap calls itself where both sides hold a map, and dst, the baseline, is
\* three deep: at the third level dst holds leaves, which src replaces.
mergeLeaves(dst, src) ==
    [k \in DOMAIN dst \cup DOMAIN src |-> IF k \in DOMAIN src THEN src[k] ELSE dst[k]]
mergeSection(dst, src) == mergeLevel(dst, src, mergeLeaves)

\* Fault: a nested map replaces the one it meets.
mergeShallow(dst, src) == mergeLeaves(dst, src)

mergeMap(dst, src) == mergeLevel(dst, src, mergeSection)

ListenHost == <<"0.0.0.0">>
UpstreamHost == <<"127.0.0.1">>

baselineConfigYAML ==
    [bedrock |-> Map([address |-> Text(ListenHost), port |-> Int_(19132), motd1 |-> Word("geyserlite"), compressionLevel |-> Int_(6)]),
     java |-> Map([address |-> Text(UpstreamHost), port |-> Int_(25565), authType |-> Word("floodgate")]),
     advanced |-> Map([java |-> Map([useHaproxyProtocol |-> Bool(FALSE)])]),
     mtu |-> Int_(1400)]

\* AuthType.String: a value outside the enumeration is written as floodgate.
AuthString(authType) == IF authType = "unknown" THEN "floodgate" ELSE authType

Knobs(o) ==
    LET listen == splitHostPort(o.listen, ListenHost, 19132)
        upstream == splitHostPort(o.upstream, UpstreamHost, 25565)
    IN  [bedrock |-> Map([address |-> listen.address, port |-> listen.port,
                          motd1 |-> IF o.line1 = "" THEN Word("geyserlite") ELSE Word(o.line1)]),
         java |-> Map([address |-> upstream.address, port |-> upstream.port, authType |-> Word(AuthString(o.authType))]),
         advanced |-> Map([java |-> Map([useHaproxyProtocol |-> Bool(o.authType = "floodgate")])])]

KeyFile(o, cfg) ==
    IF o.authType = "floodgate" THEN Put(cfg, "floodgateKeyFile", Word("key.bin")) ELSE cfg

buildConfigMap(o) == mergeMap(KeyFile(o, mergeMap(baselineConfigYAML, Knobs(o))), o.overrides)

----------------------------------------------------------------------------
Init ==
    /\ \E x \in Cases : host = x.host /\ request \in [Servers -> x.requests]
    /\ opts = [s \in Servers |-> IF request[s].via = "gate" THEN NoOptions ELSE request[s].options]
    /\ pc = [s \in Servers |-> IF request[s].via = "gate" THEN "config" ELSE "options"]
    /\ source = [s \in Servers |-> "none"]
    /\ workdirs = {}
    /\ files = [s \in Servers |-> Empty]
    /\ prev = [s \in Servers |-> NoDir]
    /\ cwd = Home

Goto(s, step) == pc' = [pc EXCEPT ![s] = step]
Embedded(s) == opts[s].mode # "subprocess"          \* New: the default is embedded

\* gate.New up to newSrv; a disabled configuration has no server.
GateNew(s) ==
    /\ pc[s] = "config"
    /\ LET c == request[s].config
       IN  \/ ~c.enabled /\ Goto(s, "disabled") /\ UNCHANGED opts
           \/ c.enabled /\ ~Convertible(c) /\ Goto(s, "refused") /\ UNCHANGED opts
           \/ c.enabled /\ Convertible(c) /\ Goto(s, "options") /\ opts' = [opts EXCEPT ![s] = toOptions(c)]
    /\ UNCHANGED <<host, request, source, workdirs, files, prev, cwd>>

New(s) ==
    /\ pc[s] = "options"
    /\ \/ Valid(opts[s]) /\ opts' = [opts EXCEPT ![s] = WithDefaults(@)] /\ Goto(s, "locate")
       \/ ~Valid(opts[s]) /\ Goto(s, "refused") /\ UNCHANGED opts
    /\ UNCHANGED <<host, request, source, workdirs, files, prev, cwd>>

Locate(s) ==
    /\ pc[s] = "locate"
    /\ LET found == locate(IF Embedded(s) THEN "library" ELSE "binary", opts[s])
       IN  /\ source' = [source EXCEPT ![s] = found]
           /\ Goto(s, IF found = "error" THEN "returned" ELSE IF Embedded(s) THEN "load" ELSE "mkdir")
    /\ UNCHANGED <<host, request, opts, workdirs, files, prev, cwd>>

\* The library is opened and its exports are bound.
Load(s) ==
    /\ pc[s] = "load"
    /\ Goto(s, "mkdir") \/ Goto(s, "returned")
    /\ UNCHANGED <<host, request, opts, source, workdirs, files, prev, cwd>>

MkdirTemp(s) ==
    /\ pc[s] = "mkdir"
    /\ \/ workdirs' = workdirs \cup {s} /\ Goto(s, "key")
       \/ Goto(s, "returned") /\ UNCHANGED workdirs
    /\ UNCHANGED <<host, request, opts, source, files, prev, cwd>>

WriteFile(s, name, content) == files' = [files EXCEPT ![s] = Put(@, name, content)]

\* A step between MkdirTemp and the return; an error leaves by the deferred
\* RemoveAll.
Prepare(s, step) ==
    /\ pc[s] = step
    /\ UNCHANGED <<host, request, opts, source, workdirs, prev, cwd>>

WriteFloodgateKey(s) ==
    /\ Prepare(s, "key")
    /\ \/ opts[s].authType # "floodgate" /\ Goto(s, "render") /\ UNCHANGED files
       \/ /\ opts[s].authType = "floodgate"
          /\ \/ opts[s].key = 16 /\ WriteFile(s, "key.bin", Int_(opts[s].key)) /\ Goto(s, "render")
             \/ Goto(s, "remove") /\ UNCHANGED files

RenderConfig(s) ==
    /\ Prepare(s, "render")
    /\ \/ WriteFile(s, "config.yml", Map(buildConfigMap(opts[s]))) /\ Goto(s, "permissions")
       \/ Goto(s, "remove") /\ UNCHANGED files

\* A failure is only logged.
CopyPermissionsYML(s) ==
    /\ Prepare(s, "permissions")
    /\ WriteFile(s, "permissions.yml", Word("empty")) \/ UNCHANGED files
    /\ Goto(s, IF Embedded(s) THEN "getwd" ELSE "running")

Exists(dir) == dir = Home \/ dir \in workdirs

\* prev, _ := os.Getwd()
Getwd(s) ==
    /\ pc[s] = "getwd"
    /\ Goto(s, "chdir")
    /\ \/ Exists(cwd) /\ prev' = [prev EXCEPT ![s] = cwd]
       \/ UNCHANGED prev
    /\ UNCHANGED <<host, request, opts, source, workdirs, files, cwd>>

Chdir(s) ==
    /\ pc[s] = "chdir"
    /\ \/ cwd' = s /\ Goto(s, "running")
       \/ Goto(s, "remove") /\ UNCHANGED cwd
    /\ UNCHANGED <<host, request, opts, source, workdirs, files, prev>>

\* The rest of run, until it returns.
RunEnds(s) ==
    /\ pc[s] = "running"
    /\ Goto(s, IF Embedded(s) THEN "restore" ELSE "remove")
    /\ UNCHANGED <<host, request, opts, source, workdirs, files, prev, cwd>>

\* Fault: the deferred call is missing.
RestoreNothing(s) ==
    /\ pc[s] = "restore"
    /\ Goto(s, "remove")
    /\ UNCHANGED <<host, request, opts, source, workdirs, files, prev, cwd>>

\* defer os.Chdir(prev), its error ignored.
RestoreCwd(s) ==
    /\ pc[s] = "restore"
    /\ cwd' = IF Exists(prev[s]) THEN prev[s] ELSE cwd
    /\ Goto(s, "remove")
    /\ UNCHANGED <<host, request, opts, source, workdirs, files, prev>>

\* defer os.RemoveAll(workdir); an error, which is ignored, leaves the
\* directory with some of its files.
RemoveWorkdir(s) ==
    /\ pc[s] = "remove"
    /\ \/ workdirs' = workdirs \ {s} /\ files' = [files EXCEPT ![s] = Empty] /\ Goto(s, "returned")
       \/ /\ \E left \in SUBSET DOMAIN files[s] : files' = [files EXCEPT ![s] = [n \in left |-> files[s][n]]]
          /\ Goto(s, "leftover")
          /\ UNCHANGED workdirs
    /\ UNCHANGED <<host, request, opts, source, prev, cwd>>

Next ==
    \E s \in Servers :
        \/ GateNew(s) \/ New(s) \/ Locate(s) \/ Load(s) \/ MkdirTemp(s)
        \/ WriteFloodgateKey(s) \/ RenderConfig(s) \/ CopyPermissionsYML(s)
        \/ Getwd(s) \/ Chdir(s) \/ RunEnds(s) \/ RestoreCwd(s) \/ RemoveWorkdir(s)

Spec == Init /\ [][Next]_vars

----------------------------------------------------------------------------
(***************************************************************************)
(* Properties.                                                             *)
(***************************************************************************)
Steps == {"config", "options", "locate", "load", "mkdir", "key", "render", "permissions",
          "getwd", "chdir", "running", "restore", "remove", "returned", "leftover", "disabled", "refused"}
WithWorkdir == {"key", "render", "permissions", "getwd", "chdir", "running", "restore", "remove", "leftover"}

Absent == <<"absent", 0>>

\* The value under a key, and at a path of up to three keys.
Keys(v) == IF IsMap(v) THEN DOMAIN v[2] ELSE {}
Child(v, k) == IF k \in Keys(v) THEN v[2][k] ELSE Absent
At(tree, p) ==
    LET one == Child(tree, p[1])
        two == Child(one, p[2])
    IN  IF Len(p) = 1 THEN one ELSE IF Len(p) = 2 THEN two ELSE Child(two, p[3])

\* The paths of a tree that end in a leaf, or three deep in whatever is there.
Plain(v) == {k \in Keys(v) : ~IsMap(Child(v, k))}
Leaves(tree) ==
    {<<a>> : a \in Plain(tree)}
    \cup (UNION {{<<a, b>> : b \in Plain(Child(tree, a))} : a \in Keys(tree)})
    \cup (UNION {UNION {{<<a, b, c>> : c \in Keys(Child(Child(tree, a), b))} : b \in Keys(Child(tree, a))} :
                 a \in Keys(tree)})

ConfigOf(s) == files[s]["config.yml"]
Overrides(s) == Map(opts[s].overrides)

\* The overrides leave path p alone: a map of theirs on the way to it does not
\* have the next key.
Silent(v, k) == IsMap(v) /\ k \notin DOMAIN v[2]
Spares(tree, p) ==
    \/ Silent(tree, p[1])
    \/ Len(p) > 1 /\ Silent(Child(tree, p[1]), p[2])
    \/ Len(p) > 2 /\ Silent(Child(Child(tree, p[1]), p[2]), p[3])
Inherited(s, p) == Spares(Overrides(s), p)

\* Every variable has its type, the temporary directory exists exactly while
\* run owns it or if it could not be removed, and a port that no override replaced is an int: "a string
\* would still parse but stir up type confusion" (go/config.go).
TypeOK ==
    /\ pc \in [Servers -> Steps]
    /\ source \in [Servers -> {"none", "path", "env", "blob", "system", "download", "error"}]
    /\ workdirs = {s \in Servers : pc[s] \in WithWorkdir}
    /\ prev \in [Servers -> Servers \cup {Home, NoDir}]
    /\ cwd \in Servers \cup {Home}
    /\ \A s \in Servers :
        /\ DOMAIN files[s] \subseteq {"key.bin", "config.yml", "permissions.yml"}
        /\ "config.yml" \in DOMAIN files[s] =>
            \A p \in {<<"bedrock", "port">>, <<"java", "port">>} : Inherited(s, p) => At(ConfigOf(s), p)[1] = "int"

\* What config.yml says about a path besides the addresses when no override
\* does: the typed option, else the baseline.
DefaultPaths(o) ==
    {<<"bedrock", "motd1">>, <<"bedrock", "compressionLevel">>, <<"java", "authType">>,
     <<"advanced", "java", "useHaproxyProtocol">>, <<"mtu">>}
    \cup (IF o.authType = "floodgate" THEN {<<"floodgateKeyFile">>} ELSE {})
Default(o, p) ==
    CASE p = <<"bedrock", "motd1">> -> Word(IF o.line1 = "" THEN "geyserlite" ELSE o.line1)
      [] p = <<"bedrock", "compressionLevel">> -> Int_(6)
      [] p = <<"java", "authType">> -> Word(IF o.authType = "unknown" THEN "floodgate" ELSE o.authType)
      [] p = <<"advanced", "java", "useHaproxyProtocol">> -> Bool(o.authType = "floodgate")
      [] p = <<"mtu">> -> Int_(1400)
      [] p = <<"floodgateKeyFile">> -> Word("key.bin")
AddressPaths == {"bedrock", "java"} \X {"address", "port"}

\* text is host and port in the form "host", "host:port", "[host]" or
\* "[host]:port"; an empty port is a missing one.
Has(t, c) == \E i \in 1 .. Len(t) : t[i] = c
Reads(text, h, p) ==
    \/ /\ ~Has(h, ":") /\ ~Has(h, "[") /\ ~Has(p, ":")
       /\ text = h \o <<":">> \o p \/ (p = <<>> /\ text = h)
    \/ /\ ~Has(h, "]")
       /\ text = <<"[">> \o h \o <<"]", ":">> \o p \/ (p = <<>> /\ text = <<"[">> \o h \o <<"]">>)
Parts(t) == {SubSeq(t, i, j) : i \in 1 .. Len(t) + 1, j \in 0 .. Len(t)}

\* The address and the port under key are the ones text gives, each with its
\* own default.
Addressed(s, key, text, defaultHost, defaultPort) ==
    \A h, p \in Parts(text) : Reads(text, h, p) =>
        /\ Inherited(s, <<key, "address">>) => At(ConfigOf(s), <<key, "address">>) = Text(IF h = <<>> THEN defaultHost ELSE h)
        /\ Inherited(s, <<key, "port">>) => At(ConfigOf(s), <<key, "port">>) = Int_(IF IsNumber(p) THEN Atoi(p) ELSE defaultPort)

\* The config.yml a server runs with holds every override, the typed option
\* or the baseline wherever no override speaks, and nothing else: merging
\* loses no sibling of an overridden key (buildConfigMap, mergeMap), and an
\* address is split at the right place (splitHostPort).
ConfigPrecedence ==
    \A s \in Servers : pc[s] = "running" =>
        LET o == opts[s]
        IN  /\ \A p \in Leaves(Overrides(s)) : At(ConfigOf(s), p) = At(Overrides(s), p)
            /\ \A p \in DefaultPaths(o) : Inherited(s, p) => At(ConfigOf(s), p) = Default(o, p)
            /\ \A p \in Leaves(ConfigOf(s)) \ Leaves(Overrides(s)) :
                    Inherited(s, p) /\ p \in DefaultPaths(o) \cup AddressPaths
            /\ Addressed(s, "bedrock", IF o.listen = <<>> THEN DefaultListen ELSE o.listen, ListenHost, 19132)
            /\ Addressed(s, "java", o.upstream, UpstreamHost, 25565)

\* What the caller asked for.
Asked(s) ==
    IF request[s].via = "direct" THEN [authType |-> request[s].options.authType, mode |-> request[s].options.mode]
    ELSE LET c == request[s].config
         IN  [authType |-> IF c.authType = "" THEN "floodgate" ELSE ToLower(c.authType),
              mode |-> IF c.mode = "" THEN "embedded" ELSE ToLower(c.mode)]

Rank == [path |-> 1, env |-> 2, blob |-> 3, system |-> 4, download |-> 5]

\* The ways to the asset that are given for a server, usable or not.
Given(s) ==
    LET kind == IF Asked(s).mode = "subprocess" THEN "binary" ELSE "library"
    IN  {x \in DOMAIN Rank :
            \/ x = "path" /\ opts[s][kind] # "unset"
            \/ x = "env" /\ host.env[kind] # "unset"
            \/ x = "blob" /\ host.blob # "none"
            \/ x = "system" /\ host.system
            \/ x = "download" /\ ~opts[s].offline}

\* A server runs in the mode and with the authentication it was asked for;
\* with the first asset of the documented order that was given (one that is
\* given and unusable is an error, never a reason to run something else); and
\* key.bin is in its directory, whole, exactly if it needs it.
RunsAsConfigured ==
    \A s \in Servers : pc[s] = "running" =>
        /\ opts[s].authType = Asked(s).authType
        /\ opts[s].mode = Asked(s).mode
        /\ source[s] \in Given(s)
        /\ \A x \in Given(s) : Rank[source[s]] <= Rank[x]
        /\ "key.bin" \in DOMAIN files[s] <=> opts[s].authType = "floodgate"
        /\ opts[s].authType = "floodgate" => files[s]["key.bin"] = Int_(16)

\* However the runs ended, and at whichever step they failed, their
\* directories are gone with the keys, except one that os.RemoveAll could not
\* remove; and if only one of the servers was embedded, the process is back
\* where it was, if Getwd could tell.
Over(s) == pc[s] \in {"returned", "leftover"}
SetupUndone ==
    (\A s \in Servers : Over(s) \/ pc[s] \in {"disabled", "refused"}) =>
        /\ workdirs = {s \in Servers : pc[s] = "leftover"}
        /\ \A s \in Servers \ workdirs : files[s] = Empty
        /\ (\A s, t \in Servers : Over(s) /\ Over(t) /\ Embedded(s) /\ Embedded(t) => s = t)
           => cwd = Home \/ \E s \in Servers : cwd = s /\ prev[s] = NoDir

\* "We don't rely on global state -- Geyser inside the isolate sees this
\* cwd" (go/embedded.go): an embedded server runs in its own directory.
OwnWorkingDirectory ==
    \A s \in Servers : pc[s] = "running" /\ Embedded(s) => cwd = s
=============================================================================
