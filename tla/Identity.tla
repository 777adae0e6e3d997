------------------------------ MODULE Identity ------------------------------
(***************************************************************************)
(* How a project is named on its way from a wrapper's command line         *)
(* (wrappers/*.py) through a URL to the proxy (proxy/middleware.py), and by *)
(* the commands that look at a project (`_resolve_pid` in cli.py).         *)
(*                                                                         *)
(* A name is what somebody typed, or the path of a directory.  sha1 is     *)
(* taken to be injective: Digest(n) is a value of its own, and one of the  *)
(* 40 hex digits that pass for an id.                                      *)
(***************************************************************************)
CONSTANTS
    Names,        \* project names, and the directories wrappers start in
    HexNames,     \* names that match _HEX_ID
    SlugNames,    \* names that match the segment of _PATH_PROJECT
    DefaultName,  \* the name "default"
    NoName,       \* no name given
    Ports,        \* TCP ports of this host
    NoUrl         \* no base URL set

ASSUME IdentityAssumption ==
    /\ HexNames \subseteq SlugNames
    /\ SlugNames \subseteq Names
    /\ DefaultName \in SlugNames \ HexNames
    /\ NoName \notin Names /\ \A n \in Names : NoName # [sha1 |-> n]
    /\ NoUrl \notin Ports

Digest(n) == [sha1 |-> n]
Digests == [sha1 : Names]
Raws == Names \union Digests
ProjectIds == HexNames \union Digests

\* A base URL: the proxy's address, with /p/<project> or without.
Urls == [port : Ports, project : Raws \union {NoName}]

---------------------------------------------------------------------------
(* The proxy *)

\* _resolve_project_id: what looks like an id is one.
_resolve_project_id(raw) == IF raw \in ProjectIds THEN raw ELSE Digest(raw)

\* A segment that _PATH_PROJECT takes.
Segments == SlugNames \union Digests

\* A mutation of RawName: a header wins over the path.
RawNameHeaderFirst(url, header, env) ==
    IF header # NoName THEN header
    ELSE IF url.project \in Segments THEN url.project
    ELSE IF env.project # NoName THEN env.project ELSE env.fallback

\* The name dispatch finds for a request: in the path, else in the header,
\* else in the environment of the proxy.  env.fallback is
\* SPILLOVER_DEFAULT_PROJECT_ID, or "default".
RawName(url, header, env) ==
    CASE url.project \in Segments -> url.project
      [] url.project \notin Segments /\ header # NoName -> header
      [] url.project \notin Segments /\ header = NoName /\ env.project # NoName -> env.project
      [] OTHER -> env.fallback

dispatch(url, header, env) == _resolve_project_id(RawName(url, header, env))

\* A handler answers only when the prefix could be cut off the path: any
\* other /p/... is a path without a route.
HasRoute(url) == url.project \in Segments \union {NoName}

---------------------------------------------------------------------------
(* The command line *)

\* _resolve_pid of `spillover stats`, `query` and `purge`.
_resolve_pid(raw) == IF raw \in ProjectIds THEN raw ELSE Digest(raw)

---------------------------------------------------------------------------
(* The wrappers *)

\* counter_compact/env_vars.py: what keeps each CLI from compacting.
env_for(cli) ==
    CASE cli = "cc" -> {"CLAUDE_CODE_AUTO_COMPACT", "CLAUDE_CODE_DISABLE_COMPACT",
                        "CLAUDE_CODE_DISABLE_AUTO_COMPACT"}
      [] cli = "codex" -> {"CODEX_DISABLE_COMPACT"}
      [] OTHER -> {}

\* The environment a wrapper starts its CLI in: --project or the sha1 of the
\* directory, --proxy or the proxy's port with the project in the path.
ChildEnv(cli, project, cwd, proxy, port) ==
    LET id == IF project # NoName THEN project ELSE Digest(cwd)
        url == IF proxy # NoUrl THEN proxy ELSE [port |-> port, project |-> id]
    IN [anthropic |-> url,
        openai |-> IF cli = "cc" THEN NoUrl ELSE url,
        flags |-> env_for(cli),
        id |-> id]

cc_main(project, cwd, proxy, port) == ChildEnv("cc", project, cwd, proxy, port)
codex_main(project, cwd, proxy, port) == ChildEnv("codex", project, cwd, proxy, port)
cursor_main(project, cwd, proxy, port) == ChildEnv("cursor", project, cwd, proxy, port)
continue_main(project, cwd, proxy, port) == ChildEnv("continue", project, cwd, proxy, port)
=============================================================================
