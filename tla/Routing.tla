------------------------------ MODULE Routing ------------------------------
(***************************************************************************)
(* How a client is led to the proxy: `spillover route on` and `off` in     *)
(* cli.py, which edit the settings file of Claude Code, the wrappers,      *)
(* which start a client in an environment of their own, and the requests   *)
(* of the client, which the proxy files under a project.                   *)
(*                                                                         *)
(* Several commands, and the client itself, read, change and replace the   *)
(* one settings file without a lock; one action is one access to the file  *)
(* system.  Files are inodes: a command that still writes into its         *)
(* temporary file does so wherever another one has moved it.  The client's *)
(* way to save its settings is not in this repository: it is taken to      *)
(* write in place.                                                         *)
(***************************************************************************)
EXTENDS Identity, Naturals, FiniteSets

CONSTANTS
    Commands,     \* processes that run `spillover route`
    Inodes,       \* inodes of the directory ~/.claude
    NoFile,       \* a path that leads nowhere
    Partial,      \* the content of a file that does not parse
    OwnUrl,       \* a base URL the user had set before
    OwnKeys,      \* entries of "env" that are the user's own
    Dirs,         \* directories wrappers are started in
    Clients,      \* what is started: "claude" itself, or a wrapper
    MaxRuns,      \* bound: runs of route on and off
    MaxSaves,     \* bound: times the client saves its settings
    MaxCrashes,   \* bound: commands that are killed
    MaxEarlier    \* bound: runs and saves before a client is started

VARIABLES
    disk,      \* the content of each inode
    file,      \* the inode of settings.json
    tmp,       \* the inode of settings.json.tmp
    pc,        \* the next step of each command
    ask,       \* what its command line says
    data,      \* the settings it has in memory
    fd,        \* the inode it has open
    client,    \* the client's save in progress: its step and its settings
    proxy,     \* the running proxy: its port and its environment
    session,   \* a client that has been started: the project its wrapper has
               \* announced, the URL it goes by and whose that is
    filed,     \* the project its request was filed under
    alone,     \* the command's settings are what the file still has
    clashed,   \* two commands have had the temporary file open at once
    runs, saves, crashes

commands == <<pc, ask, data, fd, alone>>
files == <<disk, file, tmp, clashed>>
sessions == <<session, filed>>
counters == <<runs, saves, crashes>>
vars == <<disk, file, tmp, pc, ask, data, fd, client, proxy, session, filed,
          alone, clashed, runs, saves, crashes>>

Flags == {"DISABLE_AUTO_COMPACT", "CLAUDE_AUTOCOMPACT_PCT_OVERRIDE"}
Legacy == {"CLAUDE_CODE_AUTO_COMPACT", "CLAUDE_CODE_DISABLE_COMPACT",
           "CLAUDE_CODE_DISABLE_AUTO_COMPACT", "DISABLE_AUTOCOMPACT",
           "CLAUDE_CODE_MAX_CONTEXT_TOKENS"}
Passive == "SPILLOVER_PASSIVE"

\* _ROUTE_KEYS but ANTHROPIC_BASE_URL, which has a field of its own.
RouteKeys == Flags \union Legacy \union {Passive}

\* Settings: "env" as its base URL and its other keys, and the rest of the
\* file, numbered by the client's saves.  0 is a file without a rest.
Settings == [base : Ports \union {OwnUrl, NoUrl},
             keys : SUBSET (RouteKeys \union OwnKeys), rest : 0..MaxSaves + 1]
Content == Settings \union {Partial}
Nothing == [base |-> NoUrl, keys |-> {}, rest |-> 0]
Asks == [op : {"on"}, port : Ports, passive : BOOLEAN] \union [op : {"off"}]
Proxies == [port : Ports, project : {NoName} \union HexNames, fallback : {DefaultName}]
\* What --proxy of a wrapper may say: a URL with a project in it or without.
Given == [port : Ports, project : SlugNames \union {NoName}]

ASSUME RoutingAssumption ==
    /\ NoFile \notin Inodes
    /\ Partial \notin Settings
    /\ OwnUrl \notin Ports
    /\ OwnKeys \cap RouteKeys = {}
    /\ Dirs \subseteq Names \ SlugNames
    /\ Clients \subseteq {"claude", "cc", "codex", "cursor", "continue"}
    /\ NoUrl \notin Given
    /\ {MaxRuns, MaxSaves, MaxCrashes, MaxEarlier} \subseteq Nat

NoAsk == [op |-> "none"]
NoSession == [by |-> "nobody"]
NotFiled == [project |-> NoName]

Read(f) == IF f = NoFile THEN Nothing ELSE disk[f]
Others(d) == [keys |-> d.keys \ RouteKeys, rest |-> d.rest]
Unused == Inodes \ ({file, tmp} \union {fd[c] : c \in Commands} \union {client.fd})

\* What an inode holds when a writer that has truncated it writes d: d, or a
\* mixture, when somebody else has written there in between.
Written(i, d) == {d} \union (IF disk[i] = Partial THEN {} ELSE {Partial})

---------------------------------------------------------------------------
(* The commands *)

\* _load_settings: what is missing or does not parse is empty.
_load_settings == IF Read(file) = Partial THEN Nothing ELSE Read(file)

\* A mutation of route_on: a new "env" in place of the one there is.
RouteOnNewEnv(d, port, passive) ==
    [d EXCEPT !.base = port, !.keys = Flags \union (IF passive THEN {Passive} ELSE {})]

\* route_on: the URL and the flags; legacy and passive keys are set right.
route_on(d, port, passive) ==
    [d EXCEPT !.base = port,
              !.keys = ((@ \union Flags) \ (Legacy \union {Passive}))
                       \union (IF passive THEN {Passive} ELSE {})]

\* A mutation of route_off: only what makes the routing work is removed.
RouteOffUnhooking(d) == [d EXCEPT !.base = NoUrl, !.keys = @ \ Flags]

\* route_off: every route key goes, whoever set it.
route_off(d) == [d EXCEPT !.base = NoUrl, !.keys = @ \ RouteKeys]

Changed(d, a) == IF a.op = "on" THEN route_on(d, a.port, a.passive) ELSE route_off(d)

\* A user runs route on or off: the command reads the file and changes what
\* it has read.
Load(c) ==
    /\ pc[c] = "idle" /\ runs < MaxRuns
    /\ \E a \in Asks :
        /\ ask' = [ask EXCEPT ![c] = a]
        /\ data' = [data EXCEPT ![c] = Changed(_load_settings, a)]
    /\ pc' = [pc EXCEPT ![c] = "open"]
    /\ alone' = [alone EXCEPT ![c] = Read(file) # Partial]
    /\ runs' = runs + 1
    /\ UNCHANGED <<files, fd, client, proxy, sessions, saves, crashes>>

\* A mutation of OpenTmp: write_text on the settings file itself.
OpenInPlace(c) ==
    /\ pc[c] = "open"
    /\ \E i \in IF file = NoFile THEN Unused ELSE {file} :
        /\ file' = i
        /\ fd' = [fd EXCEPT ![c] = i]
        /\ disk' = [disk EXCEPT ![i] = Partial]
    /\ pc' = [pc EXCEPT ![c] = "write"]
    /\ UNCHANGED <<tmp, ask, data, client, proxy, sessions, alone, clashed, counters>>

\* write_text opens the temporary file, which all commands share, and
\* truncates it.
OpenTmp(c) ==
    /\ pc[c] = "open"
    /\ \E i \in IF tmp = NoFile THEN Unused ELSE {tmp} :
        /\ tmp' = i
        /\ fd' = [fd EXCEPT ![c] = i]
        /\ disk' = [disk EXCEPT ![i] = Partial]
        /\ clashed' = (clashed \/ \E d \in Commands : fd[d] = i)
        /\ alone' = [d \in Commands |->
                        alone[d] /\ fd[d] # i /\ (d = c => \A e \in Commands : fd[e] # i)]
    /\ pc' = [pc EXCEPT ![c] = "write"]
    /\ UNCHANGED <<file, ask, data, client, proxy, sessions, counters>>

WriteTmp(c) ==
    /\ pc[c] = "write"
    /\ \E d \in Written(fd[c], data[c]) : disk' = [disk EXCEPT ![fd[c]] = d]
    /\ pc' = [pc EXCEPT ![c] = "replace"]
    /\ alone' = [d \in Commands |-> alone[d] /\ (d = c \/ fd[c] # file)]
    /\ UNCHANGED <<file, tmp, ask, data, fd, client, proxy, sessions, clashed, counters>>

Exit(c) ==
    /\ pc' = [pc EXCEPT ![c] = "idle"]
    /\ ask' = [ask EXCEPT ![c] = NoAsk]
    /\ data' = [data EXCEPT ![c] = Nothing]
    /\ fd' = [fd EXCEPT ![c] = NoFile]

\* os.replace; there is nothing to move when another command has done so.
\* What has no name any more and is not open is gone.
Replace(c) ==
    /\ pc[c] = "replace"
    /\ file' = IF tmp = NoFile THEN file ELSE tmp
    /\ tmp' = NoFile
    /\ Exit(c)
    /\ disk' = [i \in Inodes |-> IF i \in {file', client.fd} \union {fd'[d] : d \in Commands}
                                 THEN disk[i] ELSE Partial]
    /\ alone' = [d \in Commands |-> alone[d] /\ d # c /\ tmp = NoFile]
    /\ UNCHANGED <<client, proxy, sessions, clashed, counters>>

\* The command is killed; its temporary file stays as it is.
Killed(c) ==
    /\ pc[c] # "idle" /\ crashes < MaxCrashes
    /\ Exit(c)
    /\ crashes' = crashes + 1
    /\ alone' = [alone EXCEPT ![c] = FALSE]
    /\ UNCHANGED <<files, client, proxy, sessions, runs, saves>>

---------------------------------------------------------------------------
(* The client saves its settings: external *)

Touch == alone' = [c \in Commands |-> FALSE]

ClientLoad ==
    /\ client.pc = "idle" /\ saves < MaxSaves
    /\ Read(file) # Partial
    /\ client' = [pc |-> "open", data |-> [Read(file) EXCEPT !.rest = saves + 2], fd |-> NoFile]
    /\ saves' = saves + 1
    /\ UNCHANGED <<files, commands, proxy, sessions, runs, crashes>>

ClientTruncate ==
    /\ client.pc = "open"
    /\ \E i \in IF file = NoFile THEN Unused ELSE {file} :
        /\ file' = i
        /\ disk' = [disk EXCEPT ![i] = Partial]
        /\ client' = [client EXCEPT !.pc = "write", !.fd = i]
    /\ Touch
    /\ UNCHANGED <<tmp, pc, ask, data, fd, proxy, sessions, clashed, counters>>

ClientWrite ==
    /\ client.pc = "write"
    /\ \E d \in Written(client.fd, client.data) : disk' = [disk EXCEPT ![client.fd] = d]
    /\ client' = [pc |-> "idle", data |-> Nothing, fd |-> NoFile]
    /\ Touch
    /\ UNCHANGED <<file, tmp, pc, ask, data, fd, proxy, sessions, clashed, counters>>

---------------------------------------------------------------------------
(* Sessions *)

\* The URLs a client may use: that of its environment, and, for Claude Code,
\* that of the settings file.  Which of the two wins is up to the client.
SettingsUrls(cli) ==
    IF cli \in {"claude", "cc"} /\ Read(file) # Partial /\ Read(file).base # NoUrl
    THEN {Read(file).base} ELSE {}

\* A wrapper, or the user, starts a client.  A wrapper prints the project it
\* announces, whichever URL the client then goes by.
StartSession ==
    /\ session = NoSession /\ runs + saves <= MaxEarlier
    /\ \E cli \in Clients, project \in (Names \ Dirs) \union {NoName}, cwd \in Dirs,
          given \in Given \union {NoUrl} :
        LET env == CASE cli = "cc" -> cc_main(project, cwd, given, proxy.port)
                     [] cli = "codex" -> codex_main(project, cwd, given, proxy.port)
                     [] cli = "cursor" -> cursor_main(project, cwd, given, proxy.port)
                     [] OTHER -> continue_main(project, cwd, given, proxy.port)
        IN \/ /\ cli # "claude"
              /\ session' = [by |-> IF given = NoUrl THEN "wrapper" ELSE "option", id |-> env.id,
                             url |-> IF cli = "cc" THEN env.anthropic ELSE env.openai]
           \/ \E u \in SettingsUrls(cli) \cap Ports :
              session' = [by |-> "settings", id |-> IF cli = "claude" THEN NoName ELSE env.id,
                          url |-> [port |-> u, project |-> NoName]]
    /\ filed' = NotFiled
    /\ UNCHANGED <<files, commands, client, proxy, counters>>

\* A request reaches the middleware, and a handler when there is a route.
Request ==
    /\ session # NoSession /\ filed = NotFiled
    /\ session.url.port = proxy.port
    /\ HasRoute(session.url)
    /\ \E header \in SlugNames \union {NoName} :
        filed' = [project |-> dispatch(session.url, header, proxy)]
    /\ UNCHANGED <<files, commands, client, proxy, session, counters>>

EndSession ==
    /\ session # NoSession
    /\ session' = NoSession
    /\ filed' = NotFiled
    /\ UNCHANGED <<files, commands, client, proxy, counters>>

---------------------------------------------------------------------------

\* Routed by an older version, with the keys it took for the right ones.
Outdated(d) == d.base \in Ports /\ d.keys \cap RouteKeys = Legacy

\* What a user has in the settings file before, if there is one.
Before ==
    {[base |-> NoUrl, keys |-> {}, rest |-> 1],
     [base |-> OwnUrl, keys |-> OwnKeys \union {"DISABLE_AUTOCOMPACT"}, rest |-> 1]}
    \union {[base |-> p, keys |-> OwnKeys \union Legacy, rest |-> 1] : p \in Ports}

\* The proxy has been started by `spillover up`.
Init ==
    /\ file \in Inodes \union {NoFile}
    /\ \E d \in Before :
        disk = [i \in Inodes |-> IF i = file THEN d ELSE Partial]
    /\ tmp = NoFile
    /\ pc = [c \in Commands |-> "idle"]
    /\ ask = [c \in Commands |-> NoAsk]
    /\ data = [c \in Commands |-> Nothing]
    /\ fd = [c \in Commands |-> NoFile]
    /\ client = [pc |-> "idle", data |-> Nothing, fd |-> NoFile]
    /\ proxy \in Proxies
    /\ session = NoSession
    /\ filed = NotFiled
    /\ alone = [c \in Commands |-> FALSE]
    /\ clashed = FALSE
    /\ runs = 0 /\ saves = 0 /\ crashes = 0

Next ==
    \/ \E c \in Commands : \/ Load(c) \/ OpenTmp(c) \/ WriteTmp(c)
                           \/ Replace(c) \/ Killed(c)
    \/ ClientLoad \/ ClientTruncate \/ ClientWrite
    \/ StartSession \/ Request \/ EndSession

Spec == Init /\ [][Next]_vars

---------------------------------------------------------------------------
(* Properties *)

FilesOK ==
    /\ disk \in [Inodes -> Content]
    /\ {file, tmp} \subseteq Inodes \union {NoFile}
    /\ clashed \in BOOLEAN

CommandsOK ==
    /\ pc \in [Commands -> {"idle", "open", "write", "replace"}]
    /\ ask \in [Commands -> Asks \union {NoAsk}]
    /\ data \in [Commands -> Settings]
    /\ fd \in [Commands -> Inodes \union {NoFile}]
    /\ \A c \in Commands : pc[c] \in {"write", "replace"} <=> fd[c] # NoFile
    /\ alone \in [Commands -> BOOLEAN]

ClientOK ==
    /\ client \in [pc : {"idle", "open", "write"}, data : Settings, fd : Inodes \union {NoFile}]
    /\ client.pc = "write" <=> client.fd # NoFile

SessionsOK ==
    /\ proxy \in Proxies
    /\ session = NoSession \/ session.url \in Urls
    /\ filed = NotFiled \/ filed.project \in ProjectIds

CountersOK == runs \in 0..MaxRuns /\ saves \in 0..MaxSaves /\ crashes \in 0..MaxCrashes

\* Every variable keeps its type; a command at a write has a file open.
TypeOK == FilesOK /\ CommandsOK /\ ClientOK /\ SessionsOK /\ CountersOK

\* A client that is routed does not compact, unless it still is as an older
\* version routed it, and nothing is left of the routing of one that is not,
\* whatever commands and saves crossed (route_on and route_off, cli.py:291).
RoutedIsWhole ==
    Read(file) # Partial =>
        LET d == Read(file)
        IN /\ d.base \in Ports => Outdated(d) \/ (Flags \subseteq d.keys /\ d.keys \cap Legacy = {})
           /\ Passive \in d.keys => d.base \in Ports

\* A command that is killed at any point leaves settings that parse
\* (_save_settings, cli.py:272), unless two commands had the one temporary
\* file open at once.
SettingsStayWhole ==
    Read(file) = Partial => client.fd = file \/ clashed

\* A command puts its own keys right and loses nothing of what it found,
\* when nobody has changed the file since it read it.
CommandKeepsOthers ==
    [][\A c \in Commands : Replace(c) /\ alone[c] =>
        LET now == disk'[file']
        IN /\ Others(now) = Others(Read(file))
           /\ ask[c].op = "on" => now.base = ask[c].port
                                  /\ (Passive \in now.keys <=> ask[c].passive)
           /\ ask[c].op = "off" => now.base = NoUrl /\ now.keys \cap RouteKeys = {}]_vars

\* A request is filed under the project its URL names, whatever the environment
\* of the proxy and the headers of the client, and so where `spillover stats`,
\* `query` and `purge` look for the project a wrapper has announced, unless
\* --proxy or the settings file has led the client to a URL that names no project
\* or another one.
SameProject ==
    filed # NotFiled =>
        /\ session.url.project # NoName => filed.project = _resolve_pid(session.url.project)
        /\ session.id # NoName =>
            \/ filed.project = _resolve_pid(session.id)
            \/ session.by \in {"option", "settings"} /\ session.url.project # session.id

---------------------------------------------------------------------------
(* What the documentation says of the wrappers *)

\* wrappers/cc.py:25: a wrapper sets X-Project; README.md:285: the wrappers set the
\* variable the proxy goes by.  Then a request is filed under the project that
\* was announced.
AnnouncedIsFiled ==
    filed # NotFiled /\ session.id # NoName => filed.project = _resolve_pid(session.id)
=============================================================================
