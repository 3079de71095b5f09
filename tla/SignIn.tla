------------------------------- MODULE SignIn -------------------------------
(***************************************************************************)
(* Which server is sent which token.  Three files decide it: the project's *)
(* config.json and credentials.json under .contexo/, and the credentials   *)
(* in the user's home directory.  `ctx auth login` writes all three, one   *)
(* after the other; a config.json may also come with a clone.  A server is *)
(* named by its URL and a token by the server that issued it; a dashboard  *)
(* is named by the server it mints tokens for.                             *)
(***************************************************************************)
EXTENDS Naturals

CONSTANTS
    Servers,   \* the deployments; a token is named by the one that issued it
    Hosted,    \* the one whose URL is DefaultServerURL
    Unset,     \* an empty setting
    Absent,    \* a file that does not exist
    Torn,      \* a file that a write cut short left unreadable
    Faults     \* which of "crash", "io" and "swap" may happen

ASSUME ServersAssumption == Hosted \in Servers /\ Unset \notin Servers
ASSUME FaultsAssumption ==
    Faults \subseteq {"crash",  \* a command ends between, or inside, two writes
                      "io",     \* a write fails half way, the command is told
                      "swap"}   \* config.json changes while the browser is open

VARIABLES
    config,    \* <root>/.contexo/config.json
    project,   \* <root>/.contexo/credentials.json
    home,      \* ~/.contexo/credentials.json
    linked,    \* the project's file is the home directory's
    cmd,       \* the command of more than one step that runs, if any
    stray,     \* the dashboard of a tab that an abandoned login left open
    told,      \* history: the servers the user named for a hosted token
    last       \* the request of the step just taken

signIn == <<config, project, home, linked, cmd, stray, told, last>>

Maybe == Servers \cup {Unset}
Configs == [server : Maybe, dash : Maybe, repo : BOOLEAN]
Credentials == [token : Maybe, server : Maybe]
Files == Credentials \cup {Absent, Torn}

ASSUME FilesAssumption ==
    Absent # Torn /\ {Absent, Torn} \cap (Configs \cup Credentials) = {}

None == [token |-> Unset, server |-> Unset, loose |-> FALSE]
Idle == [step |-> "idle", kind |-> "none", dash |-> Unset, token |-> Unset,
         server |-> Unset, dashFlag |-> Unset, cfg |-> Absent]

SignInTypeOK ==
    /\ config \in Configs \cup {Absent, Torn}
    /\ project \in Files /\ home \in Files /\ linked \in BOOLEAN
    /\ cmd.step \in {"idle", "wait", "save", "project", "home", "ask", "pick"}
    /\ cmd.token \in Maybe /\ cmd.cfg \in Configs \cup {Absent}
    /\ cmd.step \in {"project", "home"} => cmd.cfg.server # Unset
    /\ told \subseteq Servers /\ stray \in Maybe
    /\ last.server = Unset <=> last.token = Unset

-----------------------------------------------------------------------------
(* Reading the files *)

DefaultConfig == [server |-> Unset, dash |-> Unset, repo |-> FALSE]
Loads == config # Torn
Loaded == IF config = Absent THEN DefaultConfig ELSE config

SameServer(a, b) == a # Unset /\ a = b
Or(a, b) == IF a # Unset THEN a ELSE b

ProjectFile == IF linked THEN home ELSE project

SourceOfPath ==
    IF ProjectFile # Absent THEN "project"
    ELSE IF home # Absent THEN "global" ELSE "none"

\* The file the credentials come from; a project file that is the home
\* directory's counts as that one.
Source ==
    IF ProjectFile # Absent THEN IF linked THEN "global" ELSE "project"
    ELSE IF home # Absent THEN "global" ELSE "none"

ReadHomeFirst == IF home # Absent THEN home ELSE ProjectFile
Read == IF ProjectFile # Absent THEN ProjectFile ELSE home

CredsLoad == Loads /\ Read # Torn
Creds == IF Read = Absent THEN [token |-> Unset, server |-> Unset] ELSE Read

BorrowsAlways == Creds.server = Unset
Borrows == Creds.server = Unset /\ Source = "project"

ResolveRemote ==
    IF Creds.token = Unset THEN Or(Loaded.server, Hosted)
    ELSE IF Borrows THEN Loaded.server ELSE Creds.server

RequireAuth == Creds.token # Unset /\ ResolveRemote # Unset

Connects(needRepo) == CredsLoad /\ RequireAuth /\ (needRepo => Loaded.repo)

\* A request; it is loose when the project's own credentials name no server.
Request == [token |-> Creds.token, server |-> ResolveRemote,
            loose |-> ~linked /\ project # Absent /\ Creds.server = Unset]

-----------------------------------------------------------------------------
(* Writing them *)

\* What a save may leave: the content, or a torn file.
Saved(content) == {content} \cup IF "io" \in Faults THEN {Torn} ELSE {}

\* The project's file is written through its link.
WriteProject(f) ==
    IF linked THEN home' = f /\ UNCHANGED project
    ELSE project' = f /\ UNCHANGED home

-----------------------------------------------------------------------------
(* ctx auth login *)

LoginDashboard(flag) ==
    Or(flag, IF Loads THEN Or(Loaded.dash, Hosted) ELSE Hosted)

RefusalByDefaultOnly(serverFlag, dashFlag) ==
    /\ serverFlag = Unset /\ Loads /\ Loaded.server # Unset
    /\ ~SameServer(Loaded.server, Hosted)
    /\ dashFlag = Unset /\ Loaded.dash = Unset
Refusal(serverFlag, dashFlag) ==
    /\ serverFlag = Unset /\ Loads /\ Loaded.server # Unset
    /\ ~SameServer(Loaded.server, Hosted)
    /\ SameServer(LoginDashboard(dashFlag), Hosted)

BrowserLogin(serverFlag, dashFlag) ==
    /\ cmd = Idle
    /\ ~Refusal(serverFlag, dashFlag)
    /\ cmd' = [Idle EXCEPT !.step = "wait", !.kind = "browser",
                           !.dash = LoginDashboard(dashFlag),
                           !.server = serverFlag, !.dashFlag = dashFlag]
    /\ last' = None
    /\ UNCHANGED <<config, project, home, linked, stray, told>>

\* --token, --api-key or the prompt; an invite key is refused.
TokenLogin(token, serverFlag, dashFlag) ==
    /\ cmd = Idle
    /\ cmd' = [Idle EXCEPT !.step = "save", !.kind = "given", !.token = token,
                           !.server = serverFlag, !.dashFlag = dashFlag]
    /\ last' = None
    /\ UNCHANGED <<config, project, home, linked, stray, told>>

\* The callback is taken only with the state this login sent.
StateIgnored(tab) == tab \in {"own", "stray"}
StateMatches(tab) == tab = "own"

\* A tab of this login or of an abandoned one answers, or nobody does.
Callback(tab) ==
    /\ cmd.step = "wait"
    /\ tab = "stray" => stray # Unset
    /\ IF StateMatches(tab)
       THEN /\ cmd' = [cmd EXCEPT !.step = "save",
                           !.token = IF tab = "own" THEN cmd.dash ELSE stray]
            /\ UNCHANGED stray
       ELSE cmd' = Idle /\ stray' = cmd.dash
    /\ last' = None
    /\ UNCHANGED <<config, project, home, linked, told>>

LoginConfigNoDefault ==
    [server |-> Or(cmd.server, Loaded.server),
     dash   |-> Or(cmd.dashFlag, Loaded.dash), repo |-> Loaded.repo]
LoginConfig ==
    [server |-> Or(Or(cmd.server, Loaded.server), Hosted),
     dash   |-> Or(cmd.dashFlag, Loaded.dash), repo |-> Loaded.repo]

Named == cmd.kind = "given" \/ cmd.server # Unset

LoginSave ==
    /\ cmd.step = "save"
    /\ last' = None
    /\ IF ~Loads THEN cmd' = Idle /\ UNCHANGED <<config, told>>
       ELSE \E f \in Saved(LoginConfig) :
              /\ config' = f
              /\ cmd' = IF f = Torn THEN Idle
                        ELSE [Idle EXCEPT !.step = "project", !.token = cmd.token,
                                          !.cfg = LoginConfig]
              /\ told' = IF cmd.token = Hosted /\ Named
                         THEN told \cup {LoginConfig.server} ELSE told
    /\ UNCHANGED <<project, home, linked, stray>>

LoginCreds == [token |-> cmd.token, server |-> cmd.cfg.server]

LoginProject ==
    /\ cmd.step = "project"
    /\ \E f \in Saved(LoginCreds) :
         /\ WriteProject(f)
         /\ cmd' = IF f = Torn THEN Idle ELSE [cmd EXCEPT !.step = "home"]
    /\ last' = None
    /\ UNCHANGED <<config, linked, stray, told>>

\* Best effort: a failure here is a warning.
LoginHome ==
    /\ cmd.step = "home"
    /\ home' \in Saved(LoginCreds)
    /\ cmd' = [cmd EXCEPT !.step = "ask"]
    /\ last' = None
    /\ UNCHANGED <<config, project, linked, stray, told>>

\* The repository is asked for only when none is configured.
LoginAsk ==
    /\ cmd.step = "ask"
    /\ IF cmd.cfg.repo \/ ~Connects(FALSE)
       THEN cmd' = Idle /\ last' = None
       ELSE cmd' = [cmd EXCEPT !.step = "pick"] /\ last' = Request
    /\ UNCHANGED <<config, project, home, linked, stray, told>>

-----------------------------------------------------------------------------
(* The other commands *)

\* ctx join and ctx remote set-repo: config.json is read, the server is asked,
\* and the config that was read is saved with the repository.
AskRepo ==
    /\ cmd = Idle /\ Connects(FALSE)
    /\ cmd' = [Idle EXCEPT !.step = "pick", !.kind = "ask", !.cfg = Loaded]
    /\ last' = Request
    /\ UNCHANGED <<config, project, home, linked, stray, told>>

PickRepo(chosen) ==
    /\ cmd.step = "pick"
    /\ config' \in IF chosen THEN Saved([cmd.cfg EXCEPT !.repo = TRUE]) ELSE {config}
    /\ cmd' = Idle /\ last' = None
    /\ UNCHANGED <<project, home, linked, stray, told>>

\* config.json does not change between the refusal and the save of a browser
\* login, which reads it again, unless Faults says so.
Changeable == cmd.kind = "browser" /\ cmd.step \in {"wait", "save"} => "swap" \in Faults

\* ctx remote set.
RemoteSet(server) ==
    /\ Changeable /\ Loads
    /\ config' \in Saved([Loaded EXCEPT !.server = server])
    /\ last' = None
    /\ UNCHANGED <<project, home, linked, cmd, stray, told>>

\* ctx remote set-repo with the repository given.
SetRepo ==
    /\ Changeable /\ Loads
    /\ config' \in Saved([Loaded EXCEPT !.repo = TRUE])
    /\ last' = None
    /\ UNCHANGED <<project, home, linked, cmd, stray, told>>

\* Any command that talks to the server about this repository.
Use ==
    /\ Connects(TRUE)
    /\ last' = Request
    /\ UNCHANGED <<config, project, home, linked, cmd, stray, told>>

\* ctx init writes a config only where no file is.
InitConfig ==
    /\ config = Absent
    /\ config' \in Saved(DefaultConfig)
    /\ last' = None
    /\ UNCHANGED <<project, home, linked, cmd, stray, told>>

\* ctx detach deletes .contexo/; a link goes, what it named stays.
RemoveDir ==
    /\ cmd = Idle
    /\ config' = Absent /\ project' = Absent /\ linked' = FALSE
    /\ last' = None
    /\ UNCHANGED <<home, cmd, stray, told>>

\* A clone or a checkout brings another config.json.
Checkout(c) ==
    /\ Changeable
    /\ config' = c /\ last' = None
    /\ UNCHANGED <<project, home, linked, cmd, stray, told>>

\* A command ends, between two writes or inside one.
KillCommand ==
    /\ "crash" \in Faults /\ cmd.step # "idle"
    /\ cmd' = Idle /\ last' = None
    /\ stray' = IF cmd.step = "wait" THEN cmd.dash ELSE stray
    /\ \/ UNCHANGED <<config, project, home>>
       \/ cmd.step \in {"save", "pick"} /\ config' = Torn /\ UNCHANGED <<project, home>>
       \/ cmd.step = "project" /\ WriteProject(Torn) /\ UNCHANGED config
       \/ cmd.step = "home" /\ home' = Torn /\ UNCHANGED <<config, project>>
    /\ UNCHANGED <<linked, told>>

-----------------------------------------------------------------------------
\* Credentials that older versions wrote: without a server, or empty.
OldCreds == [token : Maybe, server : {Unset}]

SignInInit ==
    /\ config \in {Absent} \cup [server : Maybe, dash : Maybe, repo : {TRUE}]
    /\ project \in {Absent} \cup OldCreds
    /\ home \in {Absent} \cup OldCreds
    /\ linked \in BOOLEAN /\ (linked => project = Absent)
    /\ cmd = Idle /\ stray = Unset /\ told = {} /\ last = None

SignInNext ==
    \/ \E s, d \in Maybe : BrowserLogin(s, d)
    \/ \E t \in Servers, s, d \in Maybe : TokenLogin(t, s, d)
    \/ \E tab \in {"own", "stray", "none"} : Callback(tab)
    \/ LoginSave \/ LoginProject \/ LoginHome \/ LoginAsk
    \/ AskRepo
    \/ \E chosen \in BOOLEAN : PickRepo(chosen)
    \/ \E s \in Servers : RemoteSet(s)
    \/ SetRepo \/ Use \/ InitConfig \/ RemoveDir
    \/ \E c \in [server : Maybe, dash : Maybe, repo : {TRUE}] : Checkout(c)
    \/ KillCommand

SignInSpec == SignInInit /\ [][SignInNext]_signIn

-----------------------------------------------------------------------------
(* Properties *)

(***************************************************************************)
(* A token of the hosted server is sent to another server only when the    *)
(* user named that server for it, with --server or by handing over the     *)
(* token itself, or when the project's own old credentials name none: no   *)
(* sequence of logins, checkouts, cut writes and links lets a config.json  *)
(* direct the user's token (ResolveRemote, browserLoginRefusal).           *)
(***************************************************************************)
HostedStaysHome ==
    last.token = Hosted /\ last.server # Hosted
        => last.server \in told \/ last.loose

(***************************************************************************)
(* A login that has written its files is the one that counts: whatever     *)
(* they held before, and although the home directory's may have failed,    *)
(* the next request carries the new token to the server it was saved with  *)
(* (RunE of newAuthLoginCmd, LoadCredentialsWithSource).  A link to a home *)
(* file that could not be written is the exception.                        *)
(***************************************************************************)
LoginSticks ==
    cmd.step = "ask" /\ Loads /\ ~(linked /\ home = Torn)
        => /\ Connects(FALSE)
           /\ Request = [token |-> cmd.token, server |-> cmd.cfg.server, loose |-> FALSE]

(***************************************************************************)
(* The token a browser login accepts was minted on the dashboard it        *)
(* opened, whichever tabs of earlier logins still answer (the state check  *)
(* of runBrowserLogin's callback).                                         *)
(***************************************************************************)
ReplyIsOwn ==
    [][cmd.step = "wait" /\ cmd'.step = "save" => cmd'.token = cmd.dash]_signIn

(* The files are what logins, checkouts and cuts can make of them, and the *)
(* last login that has written them counts.                                *)
LoginSound ==
    /\ SignInTypeOK
    /\ LoginSticks
=============================================================================
