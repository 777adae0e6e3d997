--------------------------- MODULE RoutingProofs ---------------------------
(***************************************************************************)
(* Proofs about Identity and Routing for any names, projects and ports,    *)
(* any number of commands and inodes, and any number of runs, saves and    *)
(* commands that are killed.                                               *)
(***************************************************************************)
EXTENDS Routing, TLAPS

---------------------------------------------------------------------------
(* Names *)

\* The proxy files a request that says where to under the id the command
\* line looks for, whatever its header and the proxy's environment say.
LEMMA FiledWhereNamed ==
    ASSUME NEW url, url.project \in Raws, HasRoute(url), NEW header, NEW env
    PROVE  dispatch(url, header, env) = _resolve_pid(url.project)
<1>1. url.project # NoName
  BY IdentityAssumption DEF Raws, Digests
<1>2. url.project \in Segments
  BY <1>1 DEF HasRoute
<1>3. RawName(url, header, env) = url.project
  BY <1>2 DEF RawName
<1> QED BY <1>3 DEF dispatch, _resolve_project_id, _resolve_pid

\* Whatever it says, it gets an id.
LEMMA FiledUnderId ==
    ASSUME NEW url \in Urls, NEW header \in SlugNames \union {NoName}, NEW env \in Proxies
    PROVE  dispatch(url, header, env) \in ProjectIds
<1>1. SlugNames \subseteq Names /\ HexNames \subseteq SlugNames /\ DefaultName \in SlugNames
  BY IdentityAssumption
<1>2. env.fallback = DefaultName /\ env.project \in {NoName} \union HexNames
  BY DEF Proxies
<1>3. RawName(url, header, env) \in SlugNames \union Digests
  BY <1>1, <1>2 DEF RawName, Segments
<1>4. \A n \in SlugNames : Digest(n) \in Digests
  BY <1>1 DEF Digest, Digests
<1> QED BY <1>3, <1>4 DEF dispatch, _resolve_project_id, ProjectIds

\* A wrapper starts its client with the id it prints in the URL, or with the
\* URL it was given.
LEMMA WrapperSaysItsId ==
    ASSUME NEW cli \in {"cc", "codex", "cursor", "continue"},
           NEW project \in (Names \ Dirs) \union {NoName}, NEW cwd \in Dirs, NEW given, NEW port
    PROVE  LET env == ChildEnv(cli, project, cwd, given, port)
               url == IF cli = "cc" THEN env.anthropic ELSE env.openai
           IN  /\ url = IF given = NoUrl THEN [port |-> port, project |-> env.id] ELSE given
               /\ env.id \in Raws
<1>1. cwd \in Names
  BY RoutingAssumption
<1> QED BY <1>1 DEF ChildEnv, Raws, Digests, Digest

\* Whose URL a client goes by, and what it says.
SessionLed ==
    /\ session.by \in {"wrapper", "option", "settings"}
    /\ session.url \in Urls
    /\ session.id \in Raws \union {NoName}
    /\ session.by = "wrapper" => session.url.project = session.id /\ session.id \in Raws

LEMMA Started ==
    ASSUME SessionsOK, StartSession
    PROVE  SessionLed'
<1>1. proxy.port \in Ports
  BY DEF SessionsOK, Proxies
<1>2. PICK cli \in Clients, project \in (Names \ Dirs) \union {NoName}, cwd \in Dirs,
           given \in Given \union {NoUrl} :
        LET env == CASE cli = "cc" -> cc_main(project, cwd, given, proxy.port)
                     [] cli = "codex" -> codex_main(project, cwd, given, proxy.port)
                     [] cli = "cursor" -> cursor_main(project, cwd, given, proxy.port)
                     [] OTHER -> continue_main(project, cwd, given, proxy.port)
        IN \/ /\ cli # "claude"
              /\ session' = [by |-> IF given = NoUrl THEN "wrapper" ELSE "option", id |-> env.id,
                             url |-> IF cli = "cc" THEN env.anthropic ELSE env.openai]
           \/ \E u \in SettingsUrls(cli) \cap Ports :
              session' = [by |-> "settings", id |-> IF cli = "claude" THEN NoName ELSE env.id,
                          url |-> [port |-> u, project |-> NoName]]
  BY DEF StartSession
<1>3. ASSUME NEW id \in Raws \union {NoName}, NEW u \in Ports,
             session' = [by |-> "settings", id |-> id, url |-> [port |-> u, project |-> NoName]]
      PROVE  SessionLed'
  BY <1>3 DEF SessionLed, Urls
<1>4. Given \subseteq Urls
  BY IdentityAssumption DEF Given, Urls, Raws
<1>5. ASSUME NEW c \in {"cc", "codex", "cursor", "continue"}
      PROVE  LET env == ChildEnv(c, project, cwd, given, proxy.port)
             IN /\ env.id \in Raws
                /\ session' = [by |-> IF given = NoUrl THEN "wrapper" ELSE "option", id |-> env.id,
                               url |-> IF c = "cc" THEN env.anthropic ELSE env.openai]
                   => SessionLed'
  <2> DEFINE env == ChildEnv(c, project, cwd, given, proxy.port)
             url == IF c = "cc" THEN env.anthropic ELSE env.openai
  <2>1. /\ url = IF given = NoUrl THEN [port |-> proxy.port, project |-> env.id] ELSE given
        /\ env.id \in Raws
    BY WrapperSaysItsId
  <2> HIDE DEF env, url
  <2>2. url \in Urls /\ (given = NoUrl => url.project = env.id)
    BY <1>1, <1>4, <2>1 DEF Urls
  <2>3. session' = [by |-> IF given = NoUrl THEN "wrapper" ELSE "option", id |-> env.id, url |-> url]
        => SessionLed'
    BY <2>1, <2>2 DEF SessionLed
  <2> QED BY <2>1, <2>3 DEF env, url
<1>6. cli \in {"claude", "cc", "codex", "cursor", "continue"}
  BY RoutingAssumption
<1> QED
  BY <1>2, <1>3, <1>5, <1>6 DEF cc_main, codex_main, cursor_main, continue_main

---------------------------------------------------------------------------
(* What the commands write *)

\* Settings that route a client to the proxy keep it from compacting, and
\* settings that do not route it have no passive mark left.
Whole(d) ==
    /\ d.base \in Ports => Outdated(d) \/ (Flags \subseteq d.keys /\ d.keys \cap Legacy = {})
    /\ Passive \in d.keys => d.base \in Ports

\* What a command writes is whole, whatever it has read, and keeps what is
\* not its own.
LEMMA ChangedRight ==
    ASSUME NEW d \in Settings, NEW a \in Asks
    PROVE  /\ Changed(d, a) \in Settings
           /\ Whole(Changed(d, a))
           /\ Others(Changed(d, a)) = Others(d)
           /\ a.op = "on" => /\ Changed(d, a).base = a.port
                             /\ Passive \in Changed(d, a).keys <=> a.passive
           /\ a.op = "off" => /\ Changed(d, a).base = NoUrl
                              /\ Changed(d, a).keys \cap RouteKeys = {}
<1>1. /\ d.base \in Ports \union {OwnUrl, NoUrl}
      /\ d.keys \subseteq RouteKeys \union OwnKeys
      /\ d.rest \in 0..MaxSaves + 1
      /\ d = [base |-> d.base, keys |-> d.keys, rest |-> d.rest]
  BY DEF Settings
<1>2. NoUrl \notin Ports
  BY IdentityAssumption
<1>3. CASE a.op = "on"
  <2>1. a.port \in Ports /\ a.passive \in BOOLEAN
    BY <1>3 DEF Asks
  <2> DEFINE keys == ((d.keys \union Flags) \ (Legacy \union {Passive}))
                     \union (IF a.passive THEN {Passive} ELSE {})
  <2>2. Changed(d, a) = [base |-> a.port, keys |-> keys, rest |-> d.rest]
    BY <1>1, <1>3 DEF Changed, route_on
  <2>3. /\ keys \subseteq RouteKeys \union OwnKeys
        /\ Flags \subseteq keys /\ keys \cap Legacy = {}
        /\ Passive \in keys <=> a.passive
        /\ keys \ RouteKeys = d.keys \ RouteKeys
    BY <1>1, <2>1 DEF RouteKeys, Flags, Legacy, Passive
  <2> HIDE DEF keys
  <2>4. Changed(d, a).base = a.port /\ Changed(d, a).keys = keys /\ Changed(d, a).rest = d.rest
    BY <2>2
  <2>5. Changed(d, a) \in Settings
    BY <1>1, <2>1, <2>2, <2>3 DEF Settings
  <2>6. Whole(Changed(d, a)) /\ Others(Changed(d, a)) = Others(d)
    BY <2>1, <2>3, <2>4 DEF Whole, Others
  <2> QED BY <1>3, <2>3, <2>4, <2>5, <2>6
<1>4. CASE a.op = "off"
  <2>1. Changed(d, a) = [base |-> NoUrl, keys |-> d.keys \ RouteKeys, rest |-> d.rest]
    BY <1>1, <1>4 DEF Changed, route_off
  <2>2. Passive \in RouteKeys
    BY DEF RouteKeys
  <2>3. Changed(d, a).base = NoUrl /\ Changed(d, a).keys = d.keys \ RouteKeys
        /\ Changed(d, a).rest = d.rest
    BY <2>1
  <2>4. Changed(d, a) \in Settings
    BY <1>1, <2>1 DEF Settings
  <2>5. Whole(Changed(d, a)) /\ Others(Changed(d, a)) = Others(d)
    BY <1>2, <2>2, <2>3 DEF Whole, Others
  <2> QED BY <1>4, <2>2, <2>3, <2>4, <2>5
<1> QED BY <1>3, <1>4 DEF Asks

---------------------------------------------------------------------------
(* The invariant *)

\* The URL a wrapper has made names the project the wrapper has printed.
NamesAgree == session # NoSession => SessionLed

\* All settings there are, on disk and in memory, are whole.
AllWhole ==
    /\ \A i \in Inodes : disk[i] # Partial => Whole(disk[i])
    /\ \A c \in Commands : Whole(data[c])
    /\ Whole(client.data)

\* The temporary file is not the settings file, nor one the client writes.
PlacesApart == tmp # NoFile => tmp # file /\ tmp # client.fd

\* What c has open is the temporary file, and nobody else has it open: it
\* holds nothing, and then all that c wrote.
Sole(c) ==
    fd[c] # NoFile =>
        /\ fd[c] = tmp
        /\ \A e \in Commands : fd[e] = fd[c] => e = c
        /\ pc[c] = "write" => disk[fd[c]] = Partial
        /\ pc[c] = "replace" => disk[fd[c]] = data[c]

OnesOwn == \A c \in Commands : alone[c] \/ ~clashed => Sole(c)

\* Nobody writes where the client does.
ClientPartial == ~clashed /\ client.fd # NoFile => disk[client.fd] = Partial

\* What a command is about to write is what it makes of the file as it is.
Basis(c) ==
    alone[c] => /\ ask[c] \in Asks
                /\ Read(file) # Partial
                /\ data[c] = Changed(Read(file), ask[c])

OnTheFile == \A c \in Commands : Basis(c)

FileInv == PlacesApart /\ OnesOwn /\ ClientPartial /\ SettingsStayWhole /\ OnTheFile
RoutingInv == TypeOK /\ NamesAgree /\ SameProject /\ AllWhole /\ FileInv

---------------------------------------------------------------------------
(* Types *)

LEMMA SmallFacts ==
    /\ NoFile \notin Inodes
    /\ Partial \notin Settings
    /\ Nothing \in Settings
    /\ MaxRuns \in Nat /\ MaxSaves \in Nat /\ MaxCrashes \in Nat
    /\ NoUrl \notin Ports /\ OwnUrl \notin Ports
    /\ OwnKeys \cap RouteKeys = {}
BY RoutingAssumption, IdentityAssumption DEF Settings, Nothing

\* What a user had before parses, and is whole.
LEMMA BeforeRight == \A d \in Before : d \in Settings /\ Whole(d)
<1> SUFFICES ASSUME NEW d \in Before PROVE d \in Settings /\ Whole(d)
  OBVIOUS
<1>1. 1 \in 0..MaxSaves + 1
  BY SmallFacts
<1>2. OwnKeys \cap RouteKeys = {} /\ NoUrl \notin Ports /\ OwnUrl \notin Ports
  BY SmallFacts
<1>3. /\ "DISABLE_AUTOCOMPACT" \in RouteKeys /\ "DISABLE_AUTOCOMPACT" # Passive
      /\ Legacy \subseteq RouteKeys /\ Passive \in RouteKeys /\ Passive \notin Legacy
  BY DEF RouteKeys, Legacy, Passive
<1> HIDE DEF RouteKeys, Legacy, Passive
<1>4. CASE d = [base |-> NoUrl, keys |-> {}, rest |-> 1]
  BY <1>1, <1>2, <1>4 DEF Settings, Whole
<1>5. CASE d = [base |-> OwnUrl, keys |-> OwnKeys \union {"DISABLE_AUTOCOMPACT"}, rest |-> 1]
  BY <1>1, <1>2, <1>3, <1>5 DEF Settings, Whole
<1>6. ASSUME NEW p \in Ports, d = [base |-> p, keys |-> OwnKeys \union Legacy, rest |-> 1]
      PROVE  d \in Settings /\ Whole(d)
  <2>1. d.base = p /\ d.keys = OwnKeys \union Legacy /\ d.rest = 1
    BY <1>6
  <2>2. d.keys \cap RouteKeys = Legacy /\ Passive \notin d.keys /\ d.keys \subseteq RouteKeys \union OwnKeys
    BY <1>2, <1>3, <2>1
  <2>3. Whole(d)
    BY <2>1, <2>2 DEF Whole, Outdated
  <2>4. d \in Settings
    BY <1>1, <1>6, <2>1, <2>2 DEF Settings
  <2> QED BY <2>3, <2>4
<1> QED BY <1>4, <1>5, <1>6 DEF Before

LEMMA InitialTypes == Init => TypeOK
<1> SUFFICES ASSUME Init PROVE TypeOK
  OBVIOUS
<1>1. FilesOK
  <2>1. PICK d \in Before :
          disk = [i \in Inodes |-> IF i = file THEN d ELSE Partial]
    BY DEF Init
  <2>2. d \in Settings
    BY BeforeRight
  <2> QED BY <2>1, <2>2 DEF Init, FilesOK, Content
<1>2. CommandsOK /\ ClientOK /\ SessionsOK /\ CountersOK
  BY SmallFacts DEF Init, CommandsOK, ClientOK, SessionsOK, CountersOK
<1> QED BY <1>1, <1>2 DEF TypeOK

\* What is read is a file's content, or nothing.
LEMMA ReadTypes ==
    ASSUME FilesOK
    PROVE  Read(file) \in Content /\ _load_settings \in Settings
BY SmallFacts DEF FilesOK, Read, Content, _load_settings

LEMMA CountersKept == CountersOK /\ UNCHANGED counters => CountersOK'
BY DEF CountersOK, counters

LEMMA SessionsKept == SessionsOK /\ UNCHANGED <<proxy, session, filed>> => SessionsOK'
BY DEF SessionsOK

LEMMA LoadTypes ==
    ASSUME TypeOK, NEW c \in Commands, Load(c)
    PROVE  TypeOK'
<1>1. PICK a \in Asks : /\ ask' = [ask EXCEPT ![c] = a]
                        /\ data' = [data EXCEPT ![c] = Changed(_load_settings, a)]
  BY DEF Load
<1>2. Changed(_load_settings, a) \in Settings
  BY ChangedRight, ReadTypes DEF TypeOK
<1>3. FilesOK' /\ ClientOK' /\ SessionsOK'
  BY DEF TypeOK, FilesOK, ClientOK, SessionsOK, Load, files, sessions
<1>4. CommandsOK'
  BY <1>1, <1>2 DEF TypeOK, CommandsOK, Load
<1>5. CountersOK'
  BY SmallFacts DEF TypeOK, CountersOK, Load
<1> QED BY <1>3, <1>4, <1>5 DEF TypeOK

LEMMA OpenTmpTypes ==
    ASSUME TypeOK, NEW c \in Commands, OpenTmp(c)
    PROVE  TypeOK'
<1>1. PICK i \in IF tmp = NoFile THEN Unused ELSE {tmp} :
        /\ tmp' = i
        /\ fd' = [fd EXCEPT ![c] = i]
        /\ disk' = [disk EXCEPT ![i] = Partial]
        /\ clashed' = (clashed \/ \E d \in Commands : fd[d] = i)
        /\ alone' = [d \in Commands |->
                        alone[d] /\ fd[d] # i /\ (d = c => \A e \in Commands : fd[e] # i)]
  BY DEF OpenTmp
<1>2. i \in Inodes
  BY DEF TypeOK, FilesOK, Unused
<1>3. FilesOK'
  BY <1>1, <1>2 DEF TypeOK, FilesOK, OpenTmp, Content
<1>4. CommandsOK'
  BY <1>1, <1>2, SmallFacts DEF TypeOK, CommandsOK, OpenTmp
<1> QED
  BY <1>3, <1>4, CountersKept, SessionsKept DEF TypeOK, ClientOK, OpenTmp, sessions

LEMMA WriteTmpTypes ==
    ASSUME TypeOK, NEW c \in Commands, WriteTmp(c)
    PROVE  TypeOK'
<1>1. PICK d \in Written(fd[c], data[c]) : disk' = [disk EXCEPT ![fd[c]] = d]
  BY DEF WriteTmp
<1>2. d \in Content
  BY DEF TypeOK, CommandsOK, Written, Content
<1>3. FilesOK'
  BY <1>1, <1>2 DEF TypeOK, FilesOK, WriteTmp
<1>4. CommandsOK'
  BY DEF TypeOK, CommandsOK, WriteTmp
<1> QED
  BY <1>3, <1>4, CountersKept, SessionsKept DEF TypeOK, ClientOK, WriteTmp, sessions

LEMMA ExitTypes ==
    ASSUME CommandsOK, NEW c \in Commands, Exit(c), alone' \in [Commands -> BOOLEAN]
    PROVE  CommandsOK'
BY SmallFacts DEF CommandsOK, Exit

LEMMA ReplaceTypes ==
    ASSUME TypeOK, NEW c \in Commands, Replace(c)
    PROVE  TypeOK'
<1>1. FilesOK'
  BY DEF TypeOK, FilesOK, Replace, Content
<1>2. CommandsOK'
  <2>1. alone' \in [Commands -> BOOLEAN]
    BY DEF TypeOK, CommandsOK, Replace
  <2> QED BY <2>1, ExitTypes DEF TypeOK, Replace
<1> QED
  BY <1>1, <1>2, CountersKept, SessionsKept DEF TypeOK, ClientOK, Replace, sessions

LEMMA KilledTypes ==
    ASSUME TypeOK, NEW c \in Commands, Killed(c)
    PROVE  TypeOK'
<1>1. FilesOK' /\ ClientOK' /\ SessionsOK'
  BY DEF TypeOK, FilesOK, ClientOK, SessionsOK, Killed, files, sessions
<1>2. CommandsOK'
  <2>1. alone' \in [Commands -> BOOLEAN]
    BY DEF TypeOK, CommandsOK, Killed
  <2> QED BY <2>1, ExitTypes DEF TypeOK, Killed
<1>3. CountersOK'
  BY SmallFacts DEF TypeOK, CountersOK, Killed
<1> QED BY <1>1, <1>2, <1>3 DEF TypeOK

\* What the client reads differs from the file in the number of the save.
LEMMA SavedTypes ==
    ASSUME TypeOK, Read(file) # Partial, saves < MaxSaves
    PROVE  /\ [Read(file) EXCEPT !.rest = saves + 2] \in Settings
           /\ [Read(file) EXCEPT !.rest = saves + 2].base = Read(file).base
           /\ [Read(file) EXCEPT !.rest = saves + 2].keys = Read(file).keys
<1>1. Read(file) \in Settings
  BY ReadTypes DEF TypeOK, Content
<1>2. saves + 2 \in 0..MaxSaves + 1
  BY SmallFacts DEF TypeOK, CountersOK
<1> QED BY <1>1, <1>2 DEF Settings

LEMMA ClientTypes ==
    ASSUME TypeOK, ClientLoad \/ ClientTruncate \/ ClientWrite
    PROVE  TypeOK'
<1>1. CASE ClientLoad
  <2>1. ClientOK'
    BY <1>1, SavedTypes, SmallFacts DEF ClientLoad, ClientOK
  <2>2. FilesOK' /\ CommandsOK' /\ SessionsOK'
    BY <1>1 DEF TypeOK, FilesOK, CommandsOK, SessionsOK, ClientLoad, files, commands, sessions
  <2>3. CountersOK'
    BY <1>1, SmallFacts DEF TypeOK, CountersOK, ClientLoad
  <2> QED BY <2>1, <2>2, <2>3 DEF TypeOK
<1>2. CASE ClientTruncate
  <2>1. PICK i \in IF file = NoFile THEN Unused ELSE {file} :
          /\ file' = i
          /\ disk' = [disk EXCEPT ![i] = Partial]
          /\ client' = [client EXCEPT !.pc = "write", !.fd = i]
    BY <1>2 DEF ClientTruncate
  <2>2. i \in Inodes
    BY DEF TypeOK, FilesOK, Unused
  <2>3. FilesOK'
    BY <1>2, <2>1, <2>2 DEF TypeOK, FilesOK, ClientTruncate, Content
  <2>4. ClientOK'
    BY <2>1, <2>2, SmallFacts DEF TypeOK, ClientOK
  <2>5. CommandsOK'
    BY <1>2 DEF TypeOK, CommandsOK, ClientTruncate, Touch
  <2> QED
    BY <1>2, <2>3, <2>4, <2>5, CountersKept, SessionsKept DEF TypeOK, ClientTruncate, sessions
<1>3. CASE ClientWrite
  <2>1. PICK d \in Written(client.fd, client.data) : disk' = [disk EXCEPT ![client.fd] = d]
    BY <1>3 DEF ClientWrite
  <2>2. d \in Content
    BY DEF TypeOK, ClientOK, Written, Content
  <2>3. FilesOK'
    BY <1>3, <2>1, <2>2 DEF TypeOK, FilesOK, ClientWrite
  <2>4. ClientOK'
    BY <1>3, SmallFacts DEF ClientOK, ClientWrite
  <2>5. CommandsOK'
    BY <1>3 DEF TypeOK, CommandsOK, ClientWrite, Touch
  <2> QED
    BY <1>3, <2>3, <2>4, <2>5, CountersKept, SessionsKept DEF TypeOK, ClientWrite, sessions
<1> QED BY <1>1, <1>2, <1>3

\* Nothing about the files changes when clients start, ask and end.
LEMMA SessionsAside ==
    ASSUME StartSession \/ Request \/ EndSession \/ UNCHANGED vars
    PROVE  UNCHANGED <<disk, file, tmp, clashed, pc, ask, data, fd, alone, client, proxy, counters>>
BY DEF StartSession, Request, EndSession, vars, files, commands, counters

LEMMA SessionTypes ==
    ASSUME TypeOK, StartSession \/ Request \/ EndSession \/ UNCHANGED vars
    PROVE  TypeOK'
<1>1. FilesOK' /\ CommandsOK' /\ ClientOK'
  BY SessionsAside DEF TypeOK, FilesOK, CommandsOK, ClientOK
<1>2. CountersOK'
  BY SessionsAside, CountersKept DEF TypeOK
<1>3. SessionsOK'
  <2>1. proxy' = proxy
    BY SessionsAside
  <2>2. CASE StartSession
    BY <2>1, <2>2, Started DEF TypeOK, SessionsOK, SessionLed, StartSession
  <2>3. CASE Request
    <3>1. PICK header \in SlugNames \union {NoName} :
            filed' = [project |-> dispatch(session.url, header, proxy)]
      BY <2>3 DEF Request
    <3>2. filed'.project \in ProjectIds
      BY <2>3, <3>1, FiledUnderId DEF TypeOK, SessionsOK, Request
    <3> QED BY <2>1, <2>3, <3>2 DEF TypeOK, SessionsOK, Request
  <2>4. CASE EndSession \/ UNCHANGED vars
    BY <2>1, <2>4 DEF TypeOK, SessionsOK, EndSession, vars
  <2> QED BY <2>2, <2>3, <2>4
<1> QED BY <1>1, <1>2, <1>3 DEF TypeOK

LEMMA TypesStep == TypeOK /\ [Next]_vars => TypeOK'
BY LoadTypes, OpenTmpTypes, WriteTmpTypes, ReplaceTypes, KilledTypes, ClientTypes, SessionTypes
   DEF Next

\* Every variable keeps its type: a command or a client at a write has a
\* file open, and no other has.
THEOREM TypeCorrect == Spec => []TypeOK
BY InitialTypes, TypesStep, PTL DEF Spec

---------------------------------------------------------------------------
(* Names agree *)

LEMMA NamesStep ==
    ASSUME TypeOK, NamesAgree, SameProject, [Next]_vars
    PROVE  NamesAgree' /\ SameProject'
<1>1. CASE StartSession
  BY <1>1, Started DEF TypeOK, NamesAgree, SameProject, StartSession
<1>2. CASE Request
  <2>1. PICK header \in SlugNames \union {NoName} :
          filed' = [project |-> dispatch(session.url, header, proxy)]
    BY <1>2 DEF Request
  <2>2. session' = session /\ HasRoute(session.url)
    BY <1>2 DEF Request
  <2>3. SessionLed /\ session # NoSession
    BY <1>2 DEF Request, NamesAgree
  <2>4. session.url.project # NoName => filed'.project = _resolve_pid(session.url.project)
    BY <2>1, <2>2, <2>3, FiledWhereNamed DEF SessionLed, Urls
  <2>5. session.id \in Raws => session.id # NoName
    BY IdentityAssumption DEF Raws, Digests
  <2> QED BY <2>2, <2>3, <2>4, <2>5 DEF NamesAgree, SessionLed, SameProject
<1>3. CASE EndSession
  BY <1>3 DEF EndSession, NamesAgree, SameProject
<1>4. CASE UNCHANGED sessions
  BY <1>4 DEF sessions, NamesAgree, SessionLed, SameProject
<1>5. CASE UNCHANGED vars
  BY <1>5 DEF vars, NamesAgree, SessionLed, SameProject
<1> QED
  BY <1>1, <1>2, <1>3, <1>4, <1>5
     DEF Next, Load, OpenTmp, WriteTmp, Replace, Killed, ClientLoad, ClientTruncate, ClientWrite

---------------------------------------------------------------------------
(* Settings are whole *)

LEMMA InitialWhole == Init => AllWhole
<1> SUFFICES ASSUME Init PROVE AllWhole
  OBVIOUS
<1>1. PICK d \in Before :
        disk = [i \in Inodes |-> IF i = file THEN d ELSE Partial]
  BY DEF Init
<1>2. Whole(d)
  BY BeforeRight
<1>3. Whole(Nothing)
  BY SmallFacts DEF Whole, Nothing
<1> QED BY <1>1, <1>2, <1>3 DEF Init, AllWhole

LEMMA WholeStep ==
    ASSUME TypeOK, AllWhole, [Next]_vars
    PROVE  AllWhole'
<1>0. Whole(Nothing)
  BY SmallFacts DEF Whole, Nothing
<1>1. ASSUME NEW c \in Commands, Load(c) PROVE AllWhole'
  <2>1. PICK a \in Asks : data' = [data EXCEPT ![c] = Changed(_load_settings, a)]
    BY <1>1 DEF Load
  <2>2. Whole(Changed(_load_settings, a))
    BY ChangedRight, ReadTypes DEF TypeOK
  <2> QED BY <1>1, <2>1, <2>2 DEF TypeOK, CommandsOK, AllWhole, Load, files
<1>2. ASSUME NEW c \in Commands, OpenTmp(c) PROVE AllWhole'
  BY <1>2 DEF TypeOK, FilesOK, AllWhole, OpenTmp
<1>3. ASSUME NEW c \in Commands, WriteTmp(c) PROVE AllWhole'
  BY <1>3 DEF TypeOK, FilesOK, CommandsOK, AllWhole, WriteTmp, Written
<1>4. ASSUME NEW c \in Commands, Exit(c) PROVE \A e \in Commands : Whole(data'[e])
  BY <1>0, <1>4 DEF TypeOK, CommandsOK, AllWhole, Exit
<1>5. ASSUME NEW c \in Commands, Replace(c) PROVE AllWhole'
  BY <1>4, <1>5 DEF AllWhole, Replace
<1>6. ASSUME NEW c \in Commands, Killed(c) PROVE AllWhole'
  BY <1>4, <1>6 DEF AllWhole, Killed, files
<1>7. CASE ClientLoad
  <2> DEFINE d == [Read(file) EXCEPT !.rest = saves + 2]
  <2>1. Whole(Read(file))
    BY <1>0, <1>7 DEF TypeOK, FilesOK, AllWhole, Read, ClientLoad
  <2>2. d.base = Read(file).base /\ d.keys = Read(file).keys
    BY <1>7, SavedTypes DEF ClientLoad
  <2>3. client'.data = d
    BY <1>7 DEF ClientLoad
  <2> HIDE DEF d
  <2>4. Whole(client'.data)
    BY <2>1, <2>2, <2>3 DEF Whole, Outdated
  <2> QED BY <1>7, <2>4 DEF AllWhole, ClientLoad, files, commands
<1>8. CASE ClientTruncate
  BY <1>8 DEF TypeOK, FilesOK, ClientOK, AllWhole, ClientTruncate
<1>9. CASE ClientWrite
  BY <1>0, <1>9 DEF TypeOK, FilesOK, AllWhole, ClientWrite, Written
<1>10. CASE StartSession \/ Request \/ EndSession \/ UNCHANGED vars
  BY <1>10, SessionsAside DEF AllWhole
<1> QED BY <1>1, <1>2, <1>3, <1>5, <1>6, <1>7, <1>8, <1>9, <1>10 DEF Next

---------------------------------------------------------------------------
(* The file *)

LEMMA InitialFile == Init => FileInv
<1> SUFFICES ASSUME Init PROVE FileInv
  OBVIOUS
<1>1. Read(file) # Partial
  <2>1. PICK d \in Before :
          disk = [i \in Inodes |-> IF i = file THEN d ELSE Partial]
    BY DEF Init
  <2>2. d # Partial
    BY BeforeRight, SmallFacts
  <2> QED BY <2>1, <2>2, SmallFacts DEF Init, Read
<1> QED
  BY <1>1 DEF Init, FileInv, PlacesApart, OnesOwn, Sole, ClientPartial, SettingsStayWhole,
              OnTheFile, Basis

\* Nothing of a command but its request and its settings goes by the file.
LEMMA LoadFile ==
    ASSUME TypeOK, FileInv, NEW c \in Commands, Load(c)
    PROVE  FileInv'
<1>1. PICK a \in Asks : /\ ask' = [ask EXCEPT ![c] = a]
                        /\ data' = [data EXCEPT ![c] = Changed(_load_settings, a)]
  BY DEF Load
<1>2. /\ UNCHANGED <<disk, file, tmp, clashed, fd, client>>
      /\ fd[c] = NoFile
      /\ alone' = [alone EXCEPT ![c] = Read(file) # Partial]
      /\ pc' = [pc EXCEPT ![c] = "open"]
  BY DEF TypeOK, CommandsOK, Load, files
<1>3. PlacesApart' /\ ClientPartial' /\ SettingsStayWhole'
  BY <1>2 DEF FileInv, PlacesApart, ClientPartial, SettingsStayWhole, Read
<1>4. ASSUME NEW e \in Commands, alone'[e] \/ ~clashed' PROVE Sole(e)'
  <2>1. CASE e = c
    BY <1>2, <2>1 DEF Sole
  <2>2. CASE e # c
    BY <1>1, <1>2, <1>4, <2>2 DEF TypeOK, CommandsOK, FileInv, OnesOwn, Sole
  <2> QED BY <2>1, <2>2
<1>5. ASSUME NEW e \in Commands PROVE Basis(e)'
  <2>1. Read(file)' = Read(file)
    BY <1>2 DEF Read
  <2>2. CASE e = c
    BY <1>1, <1>2, <2>1, <2>2 DEF TypeOK, CommandsOK, Basis, _load_settings
  <2>3. CASE e # c
    BY <1>1, <1>2, <2>1, <2>3 DEF TypeOK, CommandsOK, FileInv, OnTheFile, Basis
  <2> QED BY <2>2, <2>3
<1> QED BY <1>3, <1>4, <1>5 DEF FileInv, OnesOwn, OnTheFile

LEMMA OpenTmpFile ==
    ASSUME TypeOK, FileInv, NEW c \in Commands, OpenTmp(c)
    PROVE  FileInv'
<1>1. PICK i \in IF tmp = NoFile THEN Unused ELSE {tmp} :
        /\ tmp' = i
        /\ fd' = [fd EXCEPT ![c] = i]
        /\ disk' = [disk EXCEPT ![i] = Partial]
        /\ clashed' = (clashed \/ \E d \in Commands : fd[d] = i)
        /\ alone' = [d \in Commands |->
                        alone[d] /\ fd[d] # i /\ (d = c => \A e \in Commands : fd[e] # i)]
  BY DEF OpenTmp
<1>2. /\ pc' = [pc EXCEPT ![c] = "write"]
      /\ UNCHANGED <<file, ask, data, client>>
  BY DEF OpenTmp
<1>3. i \in Inodes /\ i # file /\ i # client.fd
  BY DEF TypeOK, FilesOK, Unused, FileInv, PlacesApart
<1>4. Read(file)' = Read(file)
  BY <1>1, <1>2, <1>3 DEF TypeOK, FilesOK, Read
<1>5. PlacesApart' /\ ClientPartial' /\ SettingsStayWhole'
  BY <1>1, <1>2, <1>3, <1>4
     DEF TypeOK, FilesOK, ClientOK, FileInv, PlacesApart, ClientPartial, SettingsStayWhole
<1>6. ASSUME NEW e \in Commands, alone'[e] \/ ~clashed' PROVE Sole(e)'
  <2>1. fd[e] = NoFile
    <3>1. fd[e] # i /\ Sole(e)
      BY <1>1, <1>6 DEF FileInv, OnesOwn
    <3>2. fd[e] # NoFile => tmp = NoFile
      BY <1>1, <3>1 DEF Sole
    <3> QED BY <3>1, <3>2 DEF Sole
  <2>2. CASE e # c
    BY <1>1, <2>1, <2>2 DEF TypeOK, CommandsOK, Sole
  <2>3. CASE e = c
    <3>1. \A d \in Commands : fd[d] # i
      BY <1>1, <1>6, <2>3
    <3>2. fd'[e] = i /\ \A d \in Commands : fd'[d] = i => d = e
      BY <1>1, <2>3, <3>1 DEF TypeOK, CommandsOK
    <3>3. pc'[e] = "write" /\ disk'[i] = Partial
      BY <1>1, <1>2, <1>3, <2>3 DEF TypeOK, FilesOK, CommandsOK
    <3> QED BY <1>1, <3>2, <3>3 DEF Sole
  <2> QED BY <2>2, <2>3
<1>7. OnTheFile'
  BY <1>1, <1>2, <1>4 DEF TypeOK, CommandsOK, FileInv, OnTheFile, Basis
<1> QED BY <1>5, <1>6, <1>7 DEF FileInv, OnesOwn

\* A command that is alone, or as long as no two clashed, writes nothing
\* but its own settings, and nowhere but in the temporary file.
LEMMA WriteTmpFile ==
    ASSUME TypeOK, FileInv, NEW c \in Commands, WriteTmp(c)
    PROVE  FileInv'
<1>1. PICK d \in Written(fd[c], data[c]) : disk' = [disk EXCEPT ![fd[c]] = d]
  BY DEF WriteTmp
<1>2. /\ pc[c] = "write" /\ pc' = [pc EXCEPT ![c] = "replace"]
      /\ alone' = [e \in Commands |-> alone[e] /\ (e = c \/ fd[c] # file)]
      /\ UNCHANGED <<file, tmp, ask, data, fd, client, clashed>>
  BY DEF WriteTmp
<1>3. fd[c] \in Inodes
  BY <1>2 DEF TypeOK, CommandsOK
<1>4. Sole(c) => fd[c] = tmp /\ fd[c] # file /\ fd[c] # client.fd /\ d = data[c]
  BY <1>2, <1>3, SmallFacts DEF Sole, FileInv, PlacesApart, Written
<1>5. fd[c] # file => Read(file)' = Read(file)
  BY <1>1, <1>2 DEF TypeOK, FilesOK, Read
<1>6. ~clashed => Sole(c)
  BY DEF FileInv, OnesOwn
<1>7. PlacesApart' /\ ClientPartial' /\ SettingsStayWhole'
  BY <1>1, <1>2, <1>4, <1>5, <1>6
     DEF TypeOK, FilesOK, ClientOK, FileInv, PlacesApart, ClientPartial, SettingsStayWhole
<1>8. ASSUME NEW e \in Commands, alone'[e] \/ ~clashed' PROVE Sole(e)'
  <2>1. Sole(e)
    BY <1>2, <1>8 DEF FileInv, OnesOwn
  <2>2. CASE e # c
    BY <1>1, <1>2, <1>3, <2>1, <2>2 DEF TypeOK, FilesOK, CommandsOK, Sole
  <2>3. CASE e = c
    <3>1. disk'[fd[c]] = data[c]
      BY <1>1, <1>3, <1>4, <2>1, <2>3 DEF TypeOK, FilesOK
    <3> QED BY <1>2, <2>1, <2>3, <3>1 DEF TypeOK, CommandsOK, Sole
  <2> QED BY <2>2, <2>3
<1>9. ASSUME NEW e \in Commands PROVE Basis(e)'
  <2> SUFFICES ASSUME alone'[e] PROVE Basis(e)'
    BY DEF Basis
  <2>1. alone[e] /\ fd[c] # file
    BY <1>2, <1>4 DEF FileInv, OnesOwn
  <2> QED BY <1>2, <1>5, <2>1 DEF FileInv, OnTheFile, Basis
<1> QED BY <1>7, <1>8, <1>9 DEF FileInv, OnesOwn, OnTheFile

\* A command that is alone, or as long as no two clashed, puts in place what
\* it has made of the settings.
LEMMA ReplacedByOwn ==
    ASSUME TypeOK, FileInv, NEW c \in Commands, Replace(c), alone[c] \/ ~clashed
    PROVE  /\ file' = tmp /\ file' \in Inodes /\ fd[c] = tmp
           /\ disk'[file'] = data[c]
           /\ \A e \in Commands : e # c /\ Sole(e) => fd[e] = NoFile
<1>1. Sole(c) /\ fd[c] \in Inodes
  BY DEF TypeOK, CommandsOK, FileInv, OnesOwn, Replace
<1>2. fd[c] = tmp /\ disk[tmp] = data[c] /\ \A e \in Commands : fd[e] = tmp => e = c
  BY <1>1, SmallFacts DEF Sole, Replace
<1>3. file' = tmp /\ disk'[file'] = disk[tmp]
  BY <1>1, <1>2, SmallFacts DEF Replace
<1> QED BY <1>1, <1>2, <1>3 DEF Sole

LEMMA ReplaceFile ==
    ASSUME TypeOK, FileInv, NEW c \in Commands, Replace(c)
    PROVE  FileInv'
<1>1. /\ tmp' = NoFile
      /\ alone' = [d \in Commands |-> alone[d] /\ d # c /\ tmp = NoFile]
      /\ UNCHANGED <<client, clashed>>
      /\ file' = IF tmp = NoFile THEN file ELSE tmp
  BY DEF Replace
<1>2. \A e \in Commands : /\ fd'[e] = IF e = c THEN NoFile ELSE fd[e]
                          /\ e # c => data'[e] = data[e] /\ ask'[e] = ask[e]
  BY DEF TypeOK, CommandsOK, Replace, Exit
<1>3. \A i \in Inodes : i = file' \/ i = client.fd => disk'[i] = disk[i]
  BY DEF Replace
<1>4. PlacesApart'
  BY <1>1 DEF PlacesApart
<1>5. ClientPartial'
  BY <1>1, <1>3 DEF TypeOK, ClientOK, FileInv, ClientPartial
<1>6. SettingsStayWhole'
  <2> SUFFICES ASSUME ~clashed PROVE Read(file)' # Partial
    BY <1>1 DEF SettingsStayWhole
  <2>1. Read(file)' = data[c]
    BY ReplacedByOwn, SmallFacts DEF Read
  <2> QED BY <2>1, SmallFacts DEF TypeOK, CommandsOK
<1>7. ASSUME NEW e \in Commands, alone'[e] \/ ~clashed' PROVE Sole(e)'
  <2>1. CASE e = c
    BY <1>2, <2>1 DEF Sole
  <2>2. CASE e # c
    <3>1. Sole(e)
      BY <1>1, <1>7 DEF FileInv, OnesOwn
    <3>2. alone'[e] => tmp = NoFile
      BY <1>1
    <3>3. fd[e] = NoFile
      BY <1>1, <1>7, <2>2, <3>1, <3>2, ReplacedByOwn DEF Sole
    <3> QED BY <1>2, <2>2, <3>3 DEF Sole
  <2> QED BY <2>1, <2>2
<1>8. ASSUME NEW e \in Commands, alone'[e] PROVE Basis(e)'
  <2>1. alone[e] /\ e # c /\ file' = file
    BY <1>1, <1>8
  <2>2. Read(file)' = Read(file)
    BY <1>3, <2>1 DEF TypeOK, FilesOK, Read
  <2> QED BY <1>2, <2>1, <2>2 DEF FileInv, OnTheFile, Basis
<1> QED BY <1>4, <1>5, <1>6, <1>7, <1>8 DEF FileInv, OnesOwn, OnTheFile, Basis

LEMMA KilledFile ==
    ASSUME TypeOK, FileInv, NEW c \in Commands, Killed(c)
    PROVE  FileInv'
<1>1. /\ UNCHANGED <<disk, file, tmp, clashed, client>>
      /\ alone' = [alone EXCEPT ![c] = FALSE]
  BY DEF Killed, files
<1>2. \A e \in Commands :
        /\ fd'[e] = IF e = c THEN NoFile ELSE fd[e]
        /\ e # c => data'[e] = data[e] /\ ask'[e] = ask[e] /\ pc'[e] = pc[e]
  BY DEF TypeOK, CommandsOK, Killed, Exit
<1>3. PlacesApart' /\ ClientPartial' /\ SettingsStayWhole'
  BY <1>1 DEF FileInv, PlacesApart, ClientPartial, SettingsStayWhole, Read
<1>4. ASSUME NEW e \in Commands, alone'[e] \/ ~clashed' PROVE Sole(e)'
  <2>1. CASE e = c
    BY <1>2, <2>1 DEF Sole
  <2>2. CASE e # c
    <3>1. Sole(e)
      BY <1>1, <1>4, <2>2 DEF TypeOK, CommandsOK, FileInv, OnesOwn
    <3>2. \A d \in Commands : fd'[d] = fd'[e] /\ fd'[e] # NoFile => fd[d] = fd[e]
      BY <1>2, <2>2
    <3> QED BY <1>1, <1>2, <2>2, <3>1, <3>2 DEF Sole
  <2> QED BY <2>1, <2>2
<1>5. ASSUME NEW e \in Commands, alone'[e] PROVE Basis(e)'
  <2>1. alone[e] /\ e # c
    BY <1>1, <1>5 DEF TypeOK, CommandsOK
  <2> QED BY <1>1, <1>2, <2>1 DEF FileInv, OnTheFile, Basis, Read
<1> QED BY <1>3, <1>4, <1>5 DEF FileInv, OnesOwn, OnTheFile, Basis

\* The client writes in place, and then no command goes by the file it read.
LEMMA ClientFile ==
    ASSUME TypeOK, FileInv, ClientLoad \/ ClientTruncate \/ ClientWrite
    PROVE  FileInv'
<1>1. CASE ClientLoad
  <2>1. UNCHANGED <<disk, file, tmp, clashed, pc, ask, data, fd, alone>> /\ client'.fd = NoFile
    BY <1>1 DEF ClientLoad, files, commands
  <2>2. client.fd = NoFile
    BY <1>1 DEF TypeOK, ClientOK, ClientLoad
  <2> QED
    BY <2>1, <2>2 DEF FileInv, PlacesApart, OnesOwn, Sole, ClientPartial,
                      SettingsStayWhole, OnTheFile, Basis, Read
<1>2. CASE ClientTruncate
  <2>1. PICK i \in IF file = NoFile THEN Unused ELSE {file} :
          /\ file' = i
          /\ disk' = [disk EXCEPT ![i] = Partial]
          /\ client' = [client EXCEPT !.pc = "write", !.fd = i]
    BY <1>2 DEF ClientTruncate
  <2>2. UNCHANGED <<tmp, pc, ask, data, fd, clashed>> /\ \A c \in Commands : ~alone'[c]
    BY <1>2 DEF ClientTruncate, Touch
  <2>3. i \in Inodes /\ i # tmp
    BY SmallFacts DEF TypeOK, FilesOK, Unused, FileInv, PlacesApart
  <2>4. client'.fd = i /\ disk'[i] = Partial
    BY <2>1, <2>3 DEF TypeOK, FilesOK, ClientOK
  <2>5. PlacesApart' /\ ClientPartial' /\ SettingsStayWhole'
    BY <2>1, <2>2, <2>3, <2>4 DEF PlacesApart, ClientPartial, SettingsStayWhole
  <2>6. OnesOwn'
    BY <2>1, <2>2, <2>3 DEF TypeOK, FilesOK, CommandsOK, FileInv, OnesOwn, Sole
  <2> QED BY <2>2, <2>5, <2>6 DEF FileInv, OnTheFile, Basis
<1>3. CASE ClientWrite
  <2>1. PICK d \in Written(client.fd, client.data) : disk' = [disk EXCEPT ![client.fd] = d]
    BY <1>3 DEF ClientWrite
  <2>2. /\ UNCHANGED <<file, tmp, pc, ask, data, fd, clashed>>
        /\ client'.fd = NoFile
        /\ \A c \in Commands : ~alone'[c]
    BY <1>3 DEF ClientWrite, Touch
  <2>3. client.fd \in Inodes
    BY <1>3 DEF TypeOK, ClientOK, ClientWrite
  <2>4. PlacesApart' /\ ClientPartial'
    BY <2>2 DEF FileInv, PlacesApart, ClientPartial
  <2>5. SettingsStayWhole'
    <3> SUFFICES ASSUME ~clashed PROVE Read(file)' # Partial
      BY <2>2 DEF SettingsStayWhole
    <3>1. d = client.data /\ d # Partial
      BY <2>1, <2>3, SmallFacts DEF TypeOK, ClientOK, FileInv, ClientPartial, Written
    <3>2. CASE file = client.fd
      BY <2>1, <2>2, <2>3, <3>1, <3>2, SmallFacts DEF TypeOK, FilesOK, Read
    <3>3. CASE file # client.fd
      <4>1. Read(file) # Partial
        BY <3>3 DEF FileInv, SettingsStayWhole
      <4> QED BY <2>1, <2>2, <3>3, <4>1 DEF TypeOK, FilesOK, Read
    <3> QED BY <3>2, <3>3
  <2>6. ASSUME NEW c \in Commands, ~clashed PROVE Sole(c)'
    <3>1. Sole(c)
      BY <2>6 DEF FileInv, OnesOwn
    <3>2. fd[c] # NoFile => fd[c] # client.fd
      BY <3>1, SmallFacts DEF Sole, FileInv, PlacesApart
    <3> QED BY <2>1, <2>2, <3>1, <3>2 DEF TypeOK, FilesOK, CommandsOK, Sole
  <2> QED BY <2>2, <2>4, <2>5, <2>6 DEF FileInv, OnesOwn, OnTheFile, Basis
<1> QED BY <1>1, <1>2, <1>3

LEMMA FileStep ==
    ASSUME TypeOK, FileInv, [Next]_vars
    PROVE  FileInv'
<1>1. CASE StartSession \/ Request \/ EndSession \/ UNCHANGED vars
  BY <1>1, SessionsAside
     DEF FileInv, PlacesApart, OnesOwn, Sole, ClientPartial, SettingsStayWhole,
         OnTheFile, Basis, Read
<1> QED
  BY <1>1, LoadFile, OpenTmpFile, WriteTmpFile, ReplaceFile, KilledFile, ClientFile DEF Next

---------------------------------------------------------------------------
(* Theorems *)

LEMMA RoutingAlways == Spec => []RoutingInv
<1>1. Init => RoutingInv
  <2>1. Init => NamesAgree /\ SameProject
    BY DEF Init, NamesAgree, SameProject
  <2> QED BY <2>1, InitialTypes, InitialWhole, InitialFile DEF RoutingInv
<1>2. RoutingInv /\ [Next]_vars => RoutingInv'
  BY TypesStep, NamesStep, WholeStep, FileStep DEF RoutingInv
<1> QED BY <1>1, <1>2, PTL DEF Spec

\* A request is filed under the project its URL names, whatever the proxy's
\* environment and the client's headers, and so where the commands of the command
\* line look for the project its wrapper has announced, as long as neither --proxy
\* nor the settings file has put another URL in place of the wrapper's.
THEOREM WrapperAndCommandsAgree == Spec => []SameProject
BY RoutingAlways, PTL DEF RoutingInv

\* Settings that route the client keep it from compacting, and no passive
\* mark outlives the routing: after any crossing of commands and saves.
THEOREM RoutingIsWhole == Spec => []RoutedIsWhole
<1>1. RoutingInv => RoutedIsWhole
  BY SmallFacts DEF RoutingInv, TypeOK, FilesOK, AllWhole, RoutedIsWhole, Whole, Read, Nothing
<1> QED BY <1>1, RoutingAlways, PTL

\* However many commands are killed, and wherever, the settings parse, until
\* two of them have had the temporary file open at once.
THEOREM CrashLeavesSettings == Spec => []SettingsStayWhole
BY RoutingAlways, PTL DEF RoutingInv, FileInv

\* A command that replaces the file nobody has changed since it read it has
\* set its own keys as it was asked to, and kept all others.
THEOREM OthersAreKept == Spec => CommandKeepsOthers
<1>1. ASSUME TypeOK, FileInv, NEW c \in Commands, Replace(c), alone[c]
      PROVE  LET now == disk'[file']
             IN /\ Others(now) = Others(Read(file))
                /\ ask[c].op = "on" => now.base = ask[c].port
                                       /\ (Passive \in now.keys <=> ask[c].passive)
                /\ ask[c].op = "off" => now.base = NoUrl /\ now.keys \cap RouteKeys = {}
  <2>1. disk'[file'] = data[c]
    BY <1>1, ReplacedByOwn
  <2>2. ask[c] \in Asks /\ Read(file) # Partial /\ data[c] = Changed(Read(file), ask[c])
    BY <1>1 DEF FileInv, OnTheFile, Basis
  <2>3. Read(file) \in Settings
    BY <1>1, <2>2, ReadTypes DEF TypeOK, Content
  <2> QED BY <2>1, <2>2, <2>3, ChangedRight
<1>2. RoutingInv /\ [Next]_vars =>
        [\A c \in Commands : Replace(c) /\ alone[c] =>
          LET now == disk'[file']
          IN /\ Others(now) = Others(Read(file))
             /\ ask[c].op = "on" => now.base = ask[c].port
                                    /\ (Passive \in now.keys <=> ask[c].passive)
             /\ ask[c].op = "off" => now.base = NoUrl /\ now.keys \cap RouteKeys = {}]_vars
  BY <1>1 DEF RoutingInv
<1> QED BY <1>2, RoutingAlways, PTL DEF Spec, CommandKeepsOthers
=============================================================================
