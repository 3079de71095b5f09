-------------------------- MODULE WorkstationProofs --------------------------
(***************************************************************************)
(* Theorems about what ctx does on a workstation: SignIn and Wiring, the   *)
(* two parts of MCWorkstation; what status and the state table say of      *)
(* pages; and what becomes of a failure's code (ClassifyCheck, StatusCheck *)
(* and ErrorCheck, three of the tables of MCAnswers).                      *)
(*                                                                         *)
(* SignIn, for any set of deployments: a token of the hosted one is not    *)
(* sent to another because of what a config.json says, and a browser login *)
(* takes no other login's token.                                           *)
(*                                                                         *)
(* Wiring, for every set of files, agents and mishaps and any number of    *)
(* edits by others: what init and detach leave in the agents' files.       *)
(*                                                                         *)
(* The state of a page, for every set of shas and of hashes, and status,   *)
(* for every set of pages and every answer of the server.                  *)
(*                                                                         *)
(* The codes of failures, for chains of errors of any length.              *)
(***************************************************************************)
EXTENDS SignIn, Wiring, ClassifyCheck, StatusCheck, ErrorCheck, WellFoundedInduction, TLAPS

(***************************************************************************)
(* SignIn                                                                  *)
(***************************************************************************)

\* config.json does not change between a login's refusal and its save.
Steady == "swap" \notin Faults

-----------------------------------------------------------------------------
(* The inductive invariant *)

Steps == {"idle", "wait", "save", "project", "home", "ask", "pick"}
Commands == [step : Steps, kind : {"none", "browser", "given", "ask"}, dash : Maybe,
             token : Maybe, server : Maybe, dashFlag : Maybe, cfg : Configs \cup {Absent}]

\* The files and the command are of their types, and a save has read a config.
KindsOK ==
    /\ config \in Configs \cup {Absent, Torn}
    /\ project \in Files /\ home \in Files /\ linked \in BOOLEAN
    /\ cmd \in Commands /\ told \subseteq Servers /\ stray \in Maybe
    /\ cmd.step \in {"project", "home", "ask", "pick"} => cmd.cfg \in Configs

\* Where a hosted token may go by its own file: home, or where the user said.
Home == {Hosted, Unset} \cup told

\* Credentials that hold a hosted token name a server that may have it.
CredsOK(f) == Steady /\ f \in Credentials /\ f.token = Hosted => f.server \in Home

\* A browser login that waits for a hosted token, or has it, and was told no
\* server will find none in config.json but the hosted one.
BrowserOK ==
    /\ Steady /\ cmd.kind = "browser" /\ cmd.server = Unset /\ config \in Configs
    /\ \/ cmd.step = "wait" /\ cmd.dash = Hosted
       \/ cmd.step = "save" /\ cmd.token = Hosted
    => config.server \in {Unset, Hosted}

\* A login about to write its credentials has a server that may have them.
SavingOK ==
    Steady /\ cmd.step \in {"project", "home"} /\ cmd.token = Hosted => cmd.cfg.server \in Home

\* Only the browser waits, and what saves came by the browser or was given.
StepsOK ==
    /\ cmd.step = "wait" => cmd.kind = "browser"
    /\ cmd.step = "save" => cmd.kind \in {"browser", "given"}

SignInInv ==
    /\ KindsOK /\ StepsOK
    /\ CredsOK(project) /\ CredsOK(home)
    /\ BrowserOK /\ SavingOK
    /\ Steady => HostedStaysHome

-----------------------------------------------------------------------------
(* What a command sends: the lemma that HostedStaysHome rests on.          *)
LEMMA RequestIsHome ==
    ASSUME Steady, KindsOK, CredsOK(project), CredsOK(home), CredsLoad, RequireAuth,
           Request.token = Hosted, Request.server # Hosted
    PROVE  Request.server \in told \/ Request.loose
<1>1. Request.token = Creds.token /\ Request.server = ResolveRemote
  BY DEF Request
<1>2. Request.loose = (~linked /\ project # Absent /\ Creds.server = Unset)
  BY DEF Request
<1>3. Creds.token = Hosted /\ ResolveRemote # Unset /\ ResolveRemote # Hosted
  BY <1>1 DEF RequireAuth
<1>4. Hosted # Unset
  BY ServersAssumption
<1>5. Read \in Credentials
  <2>1. Read # Absent
    <3>1. SUFFICES ASSUME Read = Absent PROVE FALSE
      OBVIOUS
    <3>2. Creds.token = Unset
      BY <3>1 DEF Creds
    <3> QED BY <3>2, <1>3, <1>4
  <2>2. Read # Torn
    BY DEF CredsLoad
  <2>3. Read \in Files
    BY DEF Read, ProjectFile, KindsOK
  <2> QED BY <2>1, <2>2, <2>3 DEF Files
<1>6. Creds = Read
  BY <1>5, FilesAssumption DEF Creds
<1>7. Creds.server \in Home
  BY <1>3, <1>5, <1>6 DEF Read, ProjectFile, CredsOK
<1>8. CASE Borrows
  <2>1. ~linked /\ project # Absent
    BY <1>8 DEF Borrows, Source, ProjectFile
  <2> QED BY <2>1, <1>2, <1>8 DEF Borrows
<1>9. CASE ~Borrows
  <2>1. ResolveRemote = Creds.server
    BY <1>9, <1>3, <1>4 DEF ResolveRemote
  <2> QED BY <2>1, <1>1, <1>3, <1>7 DEF Home
<1> QED BY <1>8, <1>9

(* A login's credentials, which it writes after its config.                *)
LEMMA LoginCredsAreHome ==
    ASSUME KindsOK, SavingOK, cmd.step \in {"project", "home"}
    PROVE  LoginCreds \in Credentials /\ CredsOK(LoginCreds)
BY DEF KindsOK, SavingOK, LoginCreds, Credentials, Configs, Commands, CredsOK

(* A torn file holds no token.                                             *)
LEMMA TornIsSafe == CredsOK(Torn) /\ CredsOK(Absent)
BY FilesAssumption DEF CredsOK

-----------------------------------------------------------------------------
(* The invariant holds initially and is kept by every action.              *)
LEMMA SignInInitInv == SignInInit => SignInInv
<1> SUFFICES ASSUME SignInInit PROVE SignInInv
  OBVIOUS
<1> USE ServersAssumption, FilesAssumption DEF SignInInit
<1>1. KindsOK
  BY DEF KindsOK, Files, Credentials, Configs, OldCreds, Commands, Idle, Maybe, Steps
<1>2. StepsOK /\ BrowserOK /\ SavingOK
  BY DEF StepsOK, BrowserOK, SavingOK, Idle
<1>3. CredsOK(project) /\ CredsOK(home)
  BY DEF CredsOK, Credentials, OldCreds, Home
<1>4. HostedStaysHome
  BY DEF HostedStaysHome, None
<1> QED BY <1>1, <1>2, <1>3, <1>4 DEF SignInInv

\* A step whose request is none.
LEMMA QuietIsHome == last' = None => HostedStaysHome'
BY ServersAssumption DEF HostedStaysHome, None

LEMMA BrowserLoginInv ==
    ASSUME SignInInv, NEW s \in Maybe, NEW d \in Maybe, BrowserLogin(s, d)
    PROVE  SignInInv'
<1> USE DEF SignInInv, BrowserLogin
<1>1. LoginDashboard(d) \in Maybe
  BY ServersAssumption, FilesAssumption DEF KindsOK, LoginDashboard, Or, Loads, Loaded, DefaultConfig, Maybe, Configs
<1>2. KindsOK' /\ StepsOK' /\ SavingOK'
  BY <1>1 DEF KindsOK, StepsOK, SavingOK, Commands, Idle, Steps, Maybe
<1>3. BrowserOK'
  <2> SUFFICES ASSUME s = Unset, config \in Configs, LoginDashboard(d) = Hosted
               PROVE  config.server \in {Unset, Hosted}
    BY DEF BrowserOK, Idle
  <2>1. Loads /\ Loaded = config
    BY FilesAssumption DEF Loads, Loaded
  <2>2. SameServer(LoginDashboard(d), Hosted)
    BY ServersAssumption DEF SameServer
  <2>3. CASE config.server = Unset
    BY <2>3
  <2>4. CASE config.server # Unset
    BY <2>1, <2>2, <2>4 DEF Refusal, SameServer
  <2> QED BY <2>3, <2>4
<1>4. CredsOK(project)' /\ CredsOK(home)'
  BY DEF CredsOK, Home
<1> QED BY <1>2, <1>3, <1>4, QuietIsHome

LEMMA TokenLoginInv ==
    ASSUME SignInInv, NEW t \in Servers, NEW s \in Maybe, NEW d \in Maybe, TokenLogin(t, s, d)
    PROVE  SignInInv'
<1> USE DEF SignInInv, TokenLogin
<1>1. KindsOK' /\ StepsOK' /\ SavingOK'
  BY DEF KindsOK, StepsOK, SavingOK, Commands, Idle, Steps, Maybe
<1>2. BrowserOK'
  BY DEF BrowserOK, Idle
<1>3. CredsOK(project)' /\ CredsOK(home)'
  BY DEF CredsOK, Home
<1> QED BY <1>1, <1>2, <1>3, QuietIsHome

LEMMA CallbackInv ==
    ASSUME SignInInv, NEW tab \in {"own", "stray", "none"}, Callback(tab)
    PROVE  SignInInv'
<1> USE DEF SignInInv, Callback
<1>1. CredsOK(project)' /\ CredsOK(home)'
  BY DEF CredsOK, Home
<1>2. CASE tab = "own"
  <2>1. cmd' = [cmd EXCEPT !.step = "save", !.token = cmd.dash] /\ stray' = stray
    BY <1>2 DEF StateMatches
  <2>2. cmd \in Commands /\ cmd.dash \in Maybe
    BY DEF KindsOK, Commands
  <2>3. cmd' \in Commands /\ cmd'.step = "save" /\ cmd'.kind = "browser" /\ cmd'.token = cmd.dash
        /\ cmd'.server = cmd.server
    BY <2>1, <2>2 DEF Commands, Steps, StepsOK
  <2>4. KindsOK' /\ StepsOK' /\ SavingOK'
    BY <2>1, <2>3 DEF KindsOK, StepsOK, SavingOK
  <2>5. BrowserOK'
    BY <2>3 DEF BrowserOK, StepsOK
  <2> QED BY <1>1, <2>4, <2>5, QuietIsHome
<1>3. CASE tab # "own"
  <2>1. cmd' = Idle /\ stray' = cmd.dash
    BY <1>3 DEF StateMatches
  <2>2. cmd.dash \in Maybe /\ Idle \in Commands
    BY DEF KindsOK, Commands, Idle, Maybe, Steps
  <2>3. KindsOK' /\ StepsOK' /\ SavingOK' /\ BrowserOK'
    BY <2>1, <2>2 DEF KindsOK, StepsOK, SavingOK, BrowserOK, Idle
  <2> QED BY <1>1, <2>3, QuietIsHome
<1> QED BY <1>2, <1>3

\* What is said of a file holds on when the user names another server.
LEMMA CredsKept ==
    ASSUME NEW f, CredsOK(f), told \subseteq told'
    PROVE  Steady /\ f \in Credentials /\ f.token = Hosted => f.server \in Home'
BY DEF CredsOK, Home

\* A command that ends asks nothing more of its steps.
LEMMA IdleKeeps ==
    ASSUME KindsOK, cmd' = Idle, config' \in Configs \cup {Absent, Torn},
           project' \in Files, home' \in Files, linked' \in BOOLEAN,
           told' \subseteq Servers, stray' \in Maybe
    PROVE  KindsOK' /\ StepsOK' /\ SavingOK' /\ BrowserOK'
<1>1. Idle \in Commands
  BY DEF Idle, Commands, Steps, Maybe
<1>2. cmd'.step = "idle" /\ cmd'.kind = "none"
  BY DEF Idle
<1> QED BY <1>1, <1>2 DEF KindsOK, StepsOK, SavingOK, BrowserOK

LEMMA LoginSaveInv ==
    ASSUME SignInInv, LoginSave
    PROVE  SignInInv'
<1> USE DEF SignInInv, LoginSave
<1>1. told \subseteq told' /\ UNCHANGED <<project, home>>
  OBVIOUS
<1>2. CredsOK(project)' /\ CredsOK(home)'
  BY <1>1, CredsKept DEF CredsOK
<1>3. CASE ~Loads
  <2>1. cmd' = Idle /\ UNCHANGED <<config, told, project, home, linked, stray>>
    BY <1>3
  <2>2. KindsOK' /\ StepsOK' /\ SavingOK' /\ BrowserOK'
    BY <2>1, IdleKeeps DEF KindsOK
  <2> QED BY <1>2, <2>2, QuietIsHome
<1>4. CASE Loads
  <2>1. LoginConfig \in Configs /\ LoginConfig.server # Unset
    BY <1>4, ServersAssumption DEF KindsOK, Loads, Loaded, DefaultConfig, LoginConfig, Or, Configs, Maybe, Commands
  <2>2. PICK f \in Saved(LoginConfig) :
          /\ config' = f
          /\ cmd' = IF f = Torn THEN Idle
                  ELSE [Idle EXCEPT !.step = "project", !.token = cmd.token, !.cfg = LoginConfig]
    BY <1>4
  <2>3. f \in Configs \cup {Torn}
    BY <2>1, <2>2 DEF Saved
  <2>4. told' \subseteq Servers
    BY <1>4, <2>1 DEF KindsOK, Configs, Maybe
  <2>5. CASE f = Torn
    <3>1. cmd' = Idle
      BY <2>2, <2>5
    <3>2. /\ config' \in Configs \cup {Absent, Torn} /\ told' \subseteq Servers
          /\ project' \in Files /\ home' \in Files /\ linked' \in BOOLEAN /\ stray' \in Maybe
      BY <2>2, <2>3, <2>4 DEF KindsOK
    <3>3. KindsOK' /\ StepsOK' /\ SavingOK' /\ BrowserOK'
      BY <3>1, <3>2, IdleKeeps
    <3> QED BY <1>2, <3>3, QuietIsHome
  <2>6. CASE f # Torn
    <3>1. cmd' = [Idle EXCEPT !.step = "project", !.token = cmd.token, !.cfg = LoginConfig] /\ cmd \in Commands
      BY <2>2, <2>6 DEF KindsOK
    <3>2. cmd' \in Commands /\ cmd'.step = "project" /\ cmd'.cfg = LoginConfig /\ cmd'.token = cmd.token
      BY <2>1, <3>1 DEF Commands, Steps, Idle, Maybe
    <3>3. KindsOK' /\ StepsOK' /\ BrowserOK'
      BY <2>1, <2>2, <2>3, <2>4, <3>2 DEF KindsOK, StepsOK, BrowserOK
    <3>4. ASSUME Steady, cmd.token = Hosted
          PROVE  LoginConfig.server \in Home'
      <4>1. CASE Named
        BY <1>4, <3>4, <4>1 DEF Home
      <4>2. CASE ~Named
        <5>1. cmd.kind = "browser" /\ cmd.server = Unset
          BY <4>2 DEF Named, StepsOK
        <5>2. config \in Configs => config.server \in {Unset, Hosted}
          BY <3>4, <5>1 DEF BrowserOK
        <5>3. Loaded.server \in {Unset, Hosted}
          BY <1>4, <5>2 DEF KindsOK, Loads, Loaded, DefaultConfig
        <5>4. LoginConfig.server = Hosted
          BY <5>1, <5>3, ServersAssumption DEF LoginConfig, Or
        <5> QED BY <5>4 DEF Home
      <4> QED BY <4>1, <4>2
    <3>5. SavingOK'
      BY <3>2, <3>4 DEF SavingOK
    <3> QED BY <1>2, <3>3, <3>5, QuietIsHome
  <2> QED BY <2>5, <2>6
<1> QED BY <1>3, <1>4

\* The two writes of credentials leave the login's own, or a torn file.
LEMMA SavedCreds ==
    ASSUME SignInInv, cmd.step \in {"project", "home"}, NEW f \in Saved(LoginCreds)
    PROVE  f \in Files /\ CredsOK(f)
BY LoginCredsAreHome, TornIsSafe DEF SignInInv, Saved, Files

LEMMA LoginProjectInv ==
    ASSUME SignInInv, LoginProject
    PROVE  SignInInv'
<1> USE DEF SignInInv, LoginProject
<1>1. PICK f \in Saved(LoginCreds) :
        WriteProject(f) /\ cmd' = IF f = Torn THEN Idle ELSE [cmd EXCEPT !.step = "home"]
  OBVIOUS
<1>2. f \in Files /\ CredsOK(f)
  BY SavedCreds
<1>3. project' \in {project, f} /\ home' \in {home, f}
  BY <1>1 DEF WriteProject
<1>4. project' \in Files /\ home' \in Files
  BY <1>2, <1>3 DEF KindsOK
<1>5. CredsOK(project)' /\ CredsOK(home)'
  BY <1>2, <1>3 DEF CredsOK, Home
<1>6. CASE f = Torn
  <2>1. KindsOK' /\ StepsOK' /\ SavingOK' /\ BrowserOK'
    BY <1>1, <1>4, <1>6, IdleKeeps DEF KindsOK
  <2> QED BY <1>5, <2>1, QuietIsHome
<1>7. CASE f # Torn
  <2>1. cmd' = [cmd EXCEPT !.step = "home"] /\ cmd \in Commands
    BY <1>1, <1>7 DEF KindsOK
  <2>2. cmd' \in Commands /\ cmd'.step = "home" /\ cmd'.cfg = cmd.cfg /\ cmd'.token = cmd.token
    BY <2>1 DEF Commands, Steps
  <2>3. KindsOK' /\ StepsOK' /\ BrowserOK'
    BY <1>4, <2>2 DEF KindsOK, StepsOK, BrowserOK
  <2>4. SavingOK'
    BY <2>2 DEF SavingOK, Home
  <2> QED BY <1>5, <2>3, <2>4, QuietIsHome
<1> QED BY <1>6, <1>7

LEMMA LoginHomeInv ==
    ASSUME SignInInv, LoginHome
    PROVE  SignInInv'
<1> USE DEF SignInInv, LoginHome
<1>1. home' \in Files /\ CredsOK(home)'
  <2>1. home' \in Files /\ CredsOK(home')
    BY SavedCreds
  <2> QED BY <2>1 DEF CredsOK, Home
<1>2. CredsOK(project)'
  BY DEF CredsOK, Home
<1>3. cmd' = [cmd EXCEPT !.step = "ask"] /\ cmd \in Commands
  BY DEF KindsOK
<1>4. cmd' \in Commands /\ cmd'.step = "ask" /\ cmd'.cfg = cmd.cfg
  BY <1>3 DEF Commands, Steps
<1>5. KindsOK' /\ StepsOK' /\ BrowserOK' /\ SavingOK'
  BY <1>1, <1>4 DEF KindsOK, StepsOK, BrowserOK, SavingOK
<1> QED BY <1>1, <1>2, <1>5, QuietIsHome

\* A step that sends a request, or none.
LEMMA SentIsHome ==
    ASSUME SignInInv, told' = told,
           last' = None \/ (CredsLoad /\ RequireAuth /\ last' = Request)
    PROVE  Steady => HostedStaysHome'
<1>1. CASE last' = None
  BY <1>1, QuietIsHome
<1>2. CASE CredsLoad /\ RequireAuth /\ last' = Request
  <2>1. Steady /\ Request.token = Hosted /\ Request.server # Hosted
          => Request.server \in told \/ Request.loose
    BY <1>2, RequestIsHome DEF SignInInv
  <2> QED BY <1>2, <2>1 DEF HostedStaysHome
<1> QED BY <1>1, <1>2

LEMMA LoginAskInv ==
    ASSUME SignInInv, LoginAsk
    PROVE  SignInInv'
<1> USE DEF SignInInv, LoginAsk
<1>1. CredsOK(project)' /\ CredsOK(home)'
  BY DEF CredsOK, Home
<1>2. Steady => HostedStaysHome'
  BY SentIsHome DEF Connects
<1>3. CASE cmd.cfg.repo \/ ~Connects(FALSE)
  <2>1. KindsOK' /\ StepsOK' /\ SavingOK' /\ BrowserOK'
    BY <1>3, IdleKeeps DEF KindsOK
  <2> QED BY <1>1, <1>2, <2>1
<1>4. CASE ~(cmd.cfg.repo \/ ~Connects(FALSE))
  <2>1. cmd' = [cmd EXCEPT !.step = "pick"] /\ cmd \in Commands
    BY <1>4 DEF KindsOK
  <2>2. cmd' \in Commands /\ cmd'.step = "pick" /\ cmd'.cfg = cmd.cfg
    BY <2>1 DEF Commands, Steps
  <2>3. KindsOK' /\ StepsOK' /\ SavingOK' /\ BrowserOK'
    BY <2>2 DEF KindsOK, StepsOK, SavingOK, BrowserOK
  <2> QED BY <1>1, <1>2, <2>3
<1> QED BY <1>3, <1>4

LEMMA AskRepoInv ==
    ASSUME SignInInv, AskRepo
    PROVE  SignInInv'
<1> USE DEF SignInInv, AskRepo
<1>1. CredsOK(project)' /\ CredsOK(home)'
  BY DEF CredsOK, Home
<1>2. Steady => HostedStaysHome'
  BY SentIsHome DEF Connects
<1>3. Loaded \in Configs
  BY DEF Connects, CredsLoad, Loads, Loaded, DefaultConfig, KindsOK, Configs, Maybe
<1>4. cmd' \in Commands /\ cmd'.step = "pick" /\ cmd'.cfg = Loaded
  BY <1>3 DEF Commands, Idle, Steps, Maybe
<1>5. KindsOK' /\ StepsOK' /\ SavingOK' /\ BrowserOK'
  BY <1>3, <1>4 DEF KindsOK, StepsOK, SavingOK, BrowserOK
<1> QED BY <1>1, <1>2, <1>5

LEMMA PickInv ==
    ASSUME SignInInv, NEW chosen \in BOOLEAN, PickRepo(chosen)
    PROVE  SignInInv'
<1> USE DEF SignInInv, PickRepo
<1>1. CredsOK(project)' /\ CredsOK(home)'
  BY DEF CredsOK, Home
<1>2. [cmd.cfg EXCEPT !.repo = TRUE] \in Configs
  BY DEF KindsOK, Configs
<1>3. config' \in Configs \cup {Absent, Torn}
  BY <1>2 DEF Saved, KindsOK
<1>4. KindsOK' /\ StepsOK' /\ SavingOK' /\ BrowserOK'
  BY <1>3, IdleKeeps DEF KindsOK
<1> QED BY <1>1, <1>4, QuietIsHome

\* Another config.json while no login is between its refusal and its save,
\* or one that names no server.
LEMMA ConfigChanges ==
    ASSUME SignInInv, last' = None,
           UNCHANGED <<project, home, linked, cmd, stray, told>>,
           config' \in Configs \cup {Absent, Torn},
           Changeable \/ config' \notin Configs \/ config'.server = Unset
    PROVE  SignInInv'
<1>1. CredsOK(project)' /\ CredsOK(home)'
  BY DEF SignInInv, CredsOK, Home
<1>2. KindsOK' /\ StepsOK' /\ SavingOK'
  BY DEF SignInInv, KindsOK, StepsOK, SavingOK, Home
<1>3. BrowserOK'
  BY DEF SignInInv, BrowserOK, Changeable, Steady
<1> QED BY <1>1, <1>2, <1>3, QuietIsHome DEF SignInInv

LEMMA ConfigInv ==
    ASSUME SignInInv,
           \/ \E s \in Servers : RemoteSet(s)
           \/ SetRepo
           \/ InitConfig
           \/ \E c \in [server : Maybe, dash : Maybe, repo : {TRUE}] : Checkout(c)
    PROVE  SignInInv'
<1>1. ASSUME Loads
      PROVE  Loaded \in Configs
  BY <1>1 DEF SignInInv, KindsOK, Loads, Loaded, DefaultConfig, Configs, Maybe
<1>2. ASSUME NEW s \in Servers, RemoteSet(s)
      PROVE  SignInInv'
  <2>1. [Loaded EXCEPT !.server = s] \in Configs
    BY <1>1, <1>2 DEF RemoteSet, Configs, Maybe
  <2> QED BY <1>2, <2>1, ConfigChanges DEF RemoteSet, Saved
<1>3. ASSUME SetRepo
      PROVE  SignInInv'
  <2>1. [Loaded EXCEPT !.repo = TRUE] \in Configs
    BY <1>1, <1>3 DEF SetRepo, Configs
  <2> QED BY <1>3, <2>1, ConfigChanges DEF SetRepo, Saved
<1>4. ASSUME InitConfig
      PROVE  SignInInv'
  <2>1. DefaultConfig \in Configs /\ DefaultConfig.server = Unset
    BY DEF DefaultConfig, Configs, Maybe
  <2>2. Torn \notin Configs
    BY FilesAssumption
  <2> QED BY <1>4, <2>1, <2>2, ConfigChanges DEF InitConfig, Saved
<1>5. ASSUME NEW c \in [server : Maybe, dash : Maybe, repo : {TRUE}], Checkout(c)
      PROVE  SignInInv'
  BY <1>5, ConfigChanges DEF Checkout, Configs
<1> QED BY <1>2, <1>3, <1>4, <1>5

LEMMA UseInv ==
    ASSUME SignInInv, Use
    PROVE  SignInInv'
<1>1. Steady => HostedStaysHome'
  BY SentIsHome DEF Use, Connects
<1>2. CredsOK(project)' /\ CredsOK(home)'
  BY DEF SignInInv, Use, CredsOK, Home
<1>3. KindsOK' /\ StepsOK' /\ SavingOK' /\ BrowserOK'
  BY DEF SignInInv, Use, KindsOK, StepsOK, SavingOK, BrowserOK, Home
<1> QED BY <1>1, <1>2, <1>3 DEF SignInInv

LEMMA RemoveDirInv ==
    ASSUME SignInInv, RemoveDir
    PROVE  SignInInv'
<1>1. CredsOK(project)' /\ CredsOK(home)'
  BY TornIsSafe DEF SignInInv, RemoveDir, CredsOK, Home
<1>2. KindsOK' /\ StepsOK' /\ SavingOK' /\ BrowserOK'
  BY IdleKeeps DEF SignInInv, RemoveDir, KindsOK, Files
<1> QED BY <1>1, <1>2, QuietIsHome DEF SignInInv, RemoveDir

LEMMA KillInv ==
    ASSUME SignInInv, KillCommand
    PROVE  SignInInv'
<1>1. /\ config' \in {config, Torn} /\ project' \in {project, Torn} /\ home' \in {home, Torn}
      /\ cmd' = Idle /\ last' = None /\ stray' \in {stray, cmd.dash} /\ UNCHANGED <<linked, told>>
  BY DEF KillCommand, WriteProject
<1>2. CredsOK(project)' /\ CredsOK(home)'
  BY <1>1, TornIsSafe DEF SignInInv, CredsOK, Home
<1>3. KindsOK' /\ StepsOK' /\ SavingOK' /\ BrowserOK'
  BY <1>1, IdleKeeps DEF SignInInv, KindsOK, Files, Commands
<1> QED BY <1>1, <1>2, <1>3, QuietIsHome DEF SignInInv

-----------------------------------------------------------------------------
LEMMA StutterInv ==
    ASSUME SignInInv, UNCHANGED signIn
    PROVE  SignInInv'
BY DEF SignInInv, signIn, KindsOK, StepsOK, CredsOK, BrowserOK, SavingOK, Home, HostedStaysHome

LEMMA NextInv ==
    ASSUME SignInInv, [SignInNext]_signIn
    PROVE  SignInInv'
<1>1. CASE \E s, d \in Maybe : BrowserLogin(s, d)
  BY <1>1, BrowserLoginInv
<1>2. CASE \E t \in Servers, s, d \in Maybe : TokenLogin(t, s, d)
  BY <1>2, TokenLoginInv
<1>3. CASE \E tab \in {"own", "stray", "none"} : Callback(tab)
  BY <1>3, CallbackInv
<1>4. CASE LoginSave \/ LoginProject \/ LoginHome \/ LoginAsk
  BY <1>4, LoginSaveInv, LoginProjectInv, LoginHomeInv, LoginAskInv
<1>5. CASE AskRepo \/ \E chosen \in BOOLEAN : PickRepo(chosen)
  BY <1>5, AskRepoInv, PickInv
<1>6. CASE \/ \E s \in Servers : RemoteSet(s)
           \/ SetRepo
           \/ InitConfig
           \/ \E c \in [server : Maybe, dash : Maybe, repo : {TRUE}] : Checkout(c)
  BY <1>6, ConfigInv
<1>7. CASE Use \/ RemoveDir \/ KillCommand
  BY <1>7, UseInv, RemoveDirInv, KillInv
<1>8. CASE UNCHANGED signIn
  BY <1>8, StutterInv
<1> QED BY <1>1, <1>2, <1>3, <1>4, <1>5, <1>6, <1>7, <1>8 DEF SignInNext

(* Whatever logins, checkouts, links, cut writes and stray tabs there are, *)
(* the files and the command under way keep a hosted token from servers    *)
(* that the user did not name (config/remote.go, cli/auth.go).             *)
THEOREM SignInInvariance == SignInSpec => []SignInInv
<1>1. SignInInit => SignInInv
  BY SignInInitInv
<1>2. SignInInv /\ [SignInNext]_signIn => SignInInv'
  BY NextInv
<1> QED BY <1>1, <1>2, PTL DEF SignInSpec

(* No sequence of logins, checkouts, cut writes and links lets a           *)
(* config.json direct a hosted token (ResolveRemote, browserLoginRefusal), *)
(* provided that none changes it between the refusal and the save.         *)
THEOREM HostedTokensStayHome == Steady => (SignInSpec => []HostedStaysHome)
<1> SUFFICES ASSUME Steady PROVE SignInSpec => []HostedStaysHome
  OBVIOUS
<1>1. SignInInv => HostedStaysHome
  BY DEF SignInInv
<1> QED BY <1>1, SignInInvariance, PTL

(* The token that a browser login accepts was minted on the dashboard it   *)
(* opened: the state check of runBrowserLogin's callback, among any tabs   *)
(* of earlier logins.                                                      *)
THEOREM RepliesAreOwn == SignInSpec => ReplyIsOwn
<1>1. ASSUME SignInInv, [SignInNext]_signIn, cmd.step = "wait", cmd'.step = "save"
      PROVE  cmd'.token = cmd.dash
  <2>1. cmd \in Commands /\ cmd # Idle /\ Idle.step = "idle"
    BY <1>1 DEF SignInInv, KindsOK, Idle
  <2>2. PICK tab \in {"own", "stray", "none"} : Callback(tab)
    BY <1>1, <2>1 DEF SignInNext, signIn, BrowserLogin, TokenLogin, LoginSave, LoginProject,
       LoginHome, LoginAsk, AskRepo, PickRepo, RemoteSet, SetRepo, Use, InitConfig, RemoveDir, Checkout, KillCommand
  <2> QED BY <1>1, <2>1, <2>2 DEF Callback, StateMatches, Commands
<1>2. SignInInv /\ [SignInNext]_signIn
        => [cmd.step = "wait" /\ cmd'.step = "save" => cmd'.token = cmd.dash]_signIn
  BY <1>1
<1> QED BY <1>2, SignInInvariance, PTL DEF SignInSpec, ReplyIsOwn

-----------------------------------------------------------------------------
(* What a login has written is what the next request reads.                *)

\* A login has a token before it saves, and a server once it has saved.
TokensOK ==
    /\ cmd.step = "wait" => cmd.dash \in Servers
    /\ cmd.step \in {"save", "project", "home", "ask"} => cmd.token \in Servers
    /\ cmd.step \in {"project", "home", "ask"} => cmd.cfg.server \in Servers

\* The file that will be read holds its credentials, unless it is the home
\* file under another name and that write failed.
WrittenOK ==
    /\ cmd.step \in {"home", "ask"} /\ ~linked => project = LoginCreds
    /\ cmd.step = "home" /\ linked => home = LoginCreds
    /\ cmd.step = "ask" /\ linked => home \in {LoginCreds, Torn}

\* A request has a token and goes to a server, or there is none.
SentOK == last.server = Unset <=> last.token = Unset

LoginInv == TokensOK /\ WrittenOK /\ SentOK

\* A step after which no login is under way, or that changes none.
LEMMA LoginOver ==
    ASSUME LoginInv, cmd'.step \in {"idle", "pick"} \/ UNCHANGED <<cmd, project, home, linked>>
    PROVE  TokensOK' /\ WrittenOK'
BY DEF LoginInv, TokensOK, WrittenOK, LoginCreds

LEMMA QuietIsSent ==
    ASSUME last' = None \/ (RequireAuth /\ last' = Request)
    PROVE  SentOK'
BY DEF SentOK, None, Request, RequireAuth

LEMMA LoginNext ==
    ASSUME SignInInv, LoginInv, SignInNext
    PROVE  LoginInv'
<1>1. ASSUME NEW s \in Maybe, NEW d \in Maybe, BrowserLogin(s, d)
      PROVE  LoginInv'
  <2>1. LoginDashboard(d) \in Servers
    BY ServersAssumption, FilesAssumption
       DEF SignInInv, KindsOK, LoginDashboard, Or, Loads, Loaded, DefaultConfig, Maybe, Configs
  <2>2. cmd'.step = "wait" /\ cmd'.dash = LoginDashboard(d) /\ last' = None
    BY <1>1 DEF BrowserLogin, Idle
  <2> QED BY <2>1, <2>2, QuietIsSent DEF LoginInv, TokensOK, WrittenOK
<1>2. ASSUME NEW t \in Servers, NEW s \in Maybe, NEW d \in Maybe, TokenLogin(t, s, d)
      PROVE  LoginInv'
  <2>1. cmd'.step = "save" /\ cmd'.token = t /\ last' = None
    BY <1>2 DEF TokenLogin, Idle
  <2> QED BY <2>1, QuietIsSent DEF LoginInv, TokensOK, WrittenOK
<1>3. ASSUME NEW tab \in {"own", "stray", "none"}, Callback(tab)
      PROVE  LoginInv'
  <2>1. last' = None /\ cmd.step = "wait" /\ cmd \in Commands
    BY <1>3 DEF Callback, SignInInv, KindsOK
  <2>2. CASE tab = "own"
    <3>1. cmd' = [cmd EXCEPT !.step = "save", !.token = cmd.dash]
      BY <1>3, <2>2 DEF Callback, StateMatches
    <3>2. cmd'.step = "save" /\ cmd'.token = cmd.dash
      BY <2>1, <3>1 DEF Commands
    <3> QED BY <2>1, <3>2, QuietIsSent DEF LoginInv, TokensOK, WrittenOK
  <2>3. CASE tab # "own"
    <3>1. cmd'.step = "idle"
      BY <1>3, <2>3 DEF Callback, StateMatches, Idle
    <3> QED BY <2>1, <3>1, LoginOver, QuietIsSent DEF LoginInv
  <2> QED BY <2>2, <2>3
<1>4. ASSUME LoginSave
      PROVE  LoginInv'
  <2>1. last' = None /\ cmd.step = "save" /\ cmd \in Commands
    BY <1>4 DEF LoginSave, SignInInv, KindsOK
  <2>2. CASE cmd' = Idle
    BY <2>1, <2>2, LoginOver, QuietIsSent DEF LoginInv, Idle
  <2>3. CASE cmd' # Idle
    <3>1. cmd' = [Idle EXCEPT !.step = "project", !.token = cmd.token, !.cfg = LoginConfig] /\ Loads
      BY <1>4, <2>3 DEF LoginSave
    <3>2. cmd'.step = "project" /\ cmd'.cfg = LoginConfig /\ cmd'.token = cmd.token
      BY <2>1, <3>1 DEF Commands, Idle
    <3>3. LoginConfig.server \in Servers
      BY <3>1, ServersAssumption
         DEF SignInInv, KindsOK, Loads, Loaded, DefaultConfig, LoginConfig, Or, Configs, Maybe, Commands
    <3> QED BY <2>1, <3>2, <3>3, QuietIsSent DEF LoginInv, TokensOK, WrittenOK
  <2> QED BY <2>2, <2>3
<1>5. ASSUME LoginProject
      PROVE  LoginInv'
  <2>1. last' = None /\ cmd.step = "project" /\ cmd \in Commands /\ linked' = linked
    BY <1>5 DEF LoginProject, SignInInv, KindsOK
  <2>2. PICK f \in Saved(LoginCreds) :
          WriteProject(f) /\ cmd' = IF f = Torn THEN Idle ELSE [cmd EXCEPT !.step = "home"]
    BY <1>5 DEF LoginProject
  <2>3. CASE f = Torn
    <3>1. cmd'.step = "idle"
      BY <2>2, <2>3 DEF Idle
    <3> QED BY <2>1, <3>1, LoginOver, QuietIsSent DEF LoginInv
  <2>4. CASE f # Torn
    <3>1. f = LoginCreds
      BY <2>2, <2>4 DEF Saved
    <3>2. cmd'.step = "home" /\ cmd'.token = cmd.token /\ cmd'.cfg = cmd.cfg
      BY <2>1, <2>2, <2>4 DEF Commands
    <3>3. LoginCreds' = LoginCreds
      BY <3>2 DEF LoginCreds
    <3>4. (linked => home' = LoginCreds) /\ (~linked => project' = LoginCreds)
      BY <2>2, <3>1 DEF WriteProject
    <3> QED BY <2>1, <3>2, <3>3, <3>4, QuietIsSent DEF LoginInv, TokensOK, WrittenOK
  <2> QED BY <2>3, <2>4
<1>6. ASSUME LoginHome
      PROVE  LoginInv'
  <2>1. /\ last' = None /\ cmd.step = "home" /\ cmd \in Commands
        /\ linked' = linked /\ project' = project /\ home' \in {LoginCreds, Torn}
    BY <1>6 DEF LoginHome, SignInInv, KindsOK, Saved
  <2>2. cmd'.step = "ask" /\ cmd'.token = cmd.token /\ cmd'.cfg = cmd.cfg
    BY <1>6, <2>1 DEF LoginHome, Commands
  <2>3. LoginCreds' = LoginCreds
    BY <2>2 DEF LoginCreds
  <2> QED BY <2>1, <2>2, <2>3, QuietIsSent DEF LoginInv, TokensOK, WrittenOK
<1>7. ASSUME LoginAsk \/ AskRepo \/ \E chosen \in BOOLEAN : PickRepo(chosen)
      PROVE  LoginInv'
  <2>1. cmd \in Commands
    BY DEF SignInInv, KindsOK
  <2>2. cmd' \in {Idle, [cmd EXCEPT !.step = "pick"]} \/ cmd'.step = "pick"
    BY <1>7 DEF LoginAsk, AskRepo, PickRepo, Idle
  <2>3. cmd'.step \in {"idle", "pick"}
    BY <2>1, <2>2 DEF Idle, Commands
  <2>4. last' = None \/ (RequireAuth /\ last' = Request)
    BY <1>7 DEF LoginAsk, AskRepo, PickRepo, Connects
  <2> QED BY <2>3, <2>4, LoginOver, QuietIsSent DEF LoginInv
<1>8. ASSUME \/ \E s \in Servers : RemoteSet(s)
             \/ SetRepo \/ Use \/ InitConfig
             \/ \E c \in [server : Maybe, dash : Maybe, repo : {TRUE}] : Checkout(c)
      PROVE  LoginInv'
  <2>1. UNCHANGED <<cmd, project, home, linked>>
    BY <1>8 DEF RemoteSet, SetRepo, Use, InitConfig, Checkout
  <2>2. last' = None \/ (RequireAuth /\ last' = Request)
    BY <1>8 DEF RemoteSet, SetRepo, Use, InitConfig, Checkout, Connects
  <2> QED BY <2>1, <2>2, LoginOver, QuietIsSent DEF LoginInv
<1>9. ASSUME RemoveDir \/ KillCommand
      PROVE  LoginInv'
  <2>1. cmd'.step = "idle" /\ last' = None
    BY <1>9 DEF RemoveDir, KillCommand, Idle
  <2> QED BY <2>1, LoginOver, QuietIsSent DEF LoginInv
<1> QED BY <1>1, <1>2, <1>3, <1>4, <1>5, <1>6, <1>7, <1>8, <1>9 DEF SignInNext

\* After a login, the credentials read are the ones it wrote.
LEMMA LoginIsRead ==
    ASSUME SignInInv, LoginInv
    PROVE  LoginSticks
<1> SUFFICES ASSUME cmd.step = "ask", Loads, ~(linked /\ home = Torn)
             PROVE  /\ Connects(FALSE)
                    /\ Request = [token |-> cmd.token, server |-> cmd.cfg.server, loose |-> FALSE]
  BY DEF LoginSticks
<1>1. cmd.token \in Servers /\ cmd.cfg.server \in Servers
  BY DEF LoginInv, TokensOK
<1>2. LoginCreds \in Credentials
  BY <1>1 DEF LoginCreds, Credentials, Maybe
<1>3. LoginCreds # Absent /\ LoginCreds # Torn
  BY <1>2, FilesAssumption
<1>4. ProjectFile = LoginCreds
  BY DEF LoginInv, WrittenOK, ProjectFile
<1>5. Read = LoginCreds /\ Creds = LoginCreds
  BY <1>3, <1>4 DEF Read, Creds
<1>6. Creds.token = cmd.token /\ Creds.server = cmd.cfg.server
  BY <1>5 DEF LoginCreds
<1>7. Creds.token # Unset /\ Creds.server # Unset
  BY <1>1, <1>6, ServersAssumption
<1>8. ResolveRemote = cmd.cfg.server
  BY <1>6, <1>7 DEF ResolveRemote, Borrows
<1>9. Connects(FALSE)
  BY <1>3, <1>5, <1>6, <1>7, <1>8 DEF Connects, CredsLoad, RequireAuth
<1>10. (~linked /\ project # Absent /\ Creds.server = Unset) = FALSE
  BY <1>7
<1> QED BY <1>6, <1>8, <1>9, <1>10 DEF Request

(* A login that has written its files is the one that counts: the next     *)
(* request carries its token to its server, whatever the files held before *)
(* (newAuthLoginCmd, LoadCredentialsWithSource); and every file stays of   *)
(* its kind.                                                               *)
THEOREM LoginIsSound == SignInSpec => []LoginSound
<1>1. SignInInit => LoginInv
  BY DEF SignInInit, LoginInv, TokensOK, WrittenOK, SentOK, Idle, None
<1>2. SignInInv /\ LoginInv /\ [SignInNext]_signIn => LoginInv'
  <2>1. ASSUME LoginInv, UNCHANGED signIn
        PROVE  LoginInv'
    BY <2>1 DEF LoginInv, TokensOK, WrittenOK, SentOK, LoginCreds, signIn
  <2> QED BY <2>1, LoginNext
<1>3. SignInInv /\ LoginInv => LoginSound
  <2> SUFFICES ASSUME SignInInv, LoginInv PROVE LoginSound
    OBVIOUS
  <2>1. SignInTypeOK
    BY ServersAssumption DEF SignInInv, KindsOK, LoginInv, TokensOK, SentOK, SignInTypeOK, Commands, Steps, Maybe
  <2> QED BY <2>1, LoginIsRead DEF LoginSound
<1> QED BY <1>1, <1>2, <1>3, SignInInvariance, PTL DEF SignInSpec

-----------------------------------------------------------------------------
(***************************************************************************)
(* Wiring                                                                  *)
(***************************************************************************)

LEMMA Fields ==
    \A l, g, w : Entry(l, g, w).list = l /\ Entry(l, g, w).group = g /\ Entry(l, g, w).who = w
BY DEF Entry

-----------------------------------------------------------------------------
(* One file *)

\* What a file that can be read may be.
FileOf(t) == {Missing} \cup SUBSET EntriesOf(t)

\* No other version of ctx wrote hooks or the line.
Current(t, f) == t \notin ServerFiles => \A e \in Content(f) : e.who # "old"

Clean(t, f) == \A l \in Lists(t) : Ours(f, l) = {}
Full(t, f)  == \A l \in Lists(t) : Has(f, l)

LEMMA ListNames ==
    ASSUME NEW t \in Every
    PROVE  /\ "version" \notin Lists(t) /\ "other" \notin Lists(t)
           /\ t = ".mcp.json" => Lists(t) = {"mcpServers"}
           /\ t = ".cursor/mcp.json" => Lists(t) = {"mcpServers"}
           /\ t = ".vscode/mcp.json" => Lists(t) = {"servers"}
           /\ t = ".claude/settings.json" => Lists(t) = {"Stop"}
           /\ t = ".codex/hooks.json" => Lists(t) = {"Stop", "Prompt"}
           /\ t = ".cursor/hooks.json" => Lists(t) = {"Prompt", "Reply"}
           /\ t = ".gitignore" => Lists(t) = {"lines"}
BY DEF Every, ServerFiles, HookFiles, Lists

LEMMA EntryKinds ==
    ASSUME NEW t \in Every, NEW e \in EntriesOf(t)
    PROVE  /\ e.who \in {"ctx", "old", "user"}
           /\ e.who = "user" => e.list # "version"
           /\ e.list \in Lists(t) /\ e.who \in {"ctx", "old"} => e = Entry(e.list, "ctx", e.who)
<1>1. "version" \notin Lists(t) /\ "other" \notin Lists(t)
  BY ListNames
<1>2. CASE \E l \in Lists(t), w \in {"ctx", "old"} : e = Entry(l, "ctx", w)
  BY <1>1, <1>2, Fields
<1>3. CASE \E l \in Lists(t), g \in {"own", "ctx"} : e = Entry(l, g, "user")
  BY <1>1, <1>3, Fields
<1>4. CASE e = Version \/ e = Entry("other", "top", "user")
  BY <1>1, <1>4, Fields DEF Version
<1>. QED BY <1>2, <1>3, <1>4 DEF EntriesOf

LEMMA CtxEntries ==
    ASSUME NEW t \in Every
    PROVE  /\ \A l \in Lists(t) : Entry(l, "ctx", "ctx") \in EntriesOf(t)
           /\ Version \in EntriesOf(t)
BY DEF EntriesOf

\* A set of entries is neither of the marks.
LEMMA SetsAreFiles ==
    ASSUME NEW t \in Every, NEW s \in SUBSET EntriesOf(t)
    PROVE  s # Missing /\ s # Spoilt /\ s \in FileOf(t) /\ Content(s) = s
           /\ Users(s) = {e \in s : e.who = "user"}
BY MarksAssumption DEF FileOf, Content, Users

LEMMA FileContent ==
    ASSUME NEW t \in Every, NEW f \in FileOf(t)
    PROVE  /\ Content(f) \in SUBSET EntriesOf(t) /\ f # Spoilt
           /\ Users(f) = {e \in Content(f) : e.who = "user"}
           /\ Missing \in FileOf(t) /\ Content(Missing) = {} /\ Users(Missing) = {}
BY MarksAssumption DEF FileOf, Content, Users

(* What a command leaves of a file: the entries of the others, and nothing *)
(* that no file may hold.                                                  *)
LEMMA KeepsUsers ==
    ASSUME NEW t \in Every, NEW f \in FileOf(t), NEW s,
           s \subseteq EntriesOf(t), \A e \in Content(f) : e.who = "user" => e \in s
    PROVE  s \in FileOf(t) /\ Content(s) = s /\ Users(f) \subseteq Users(s)
BY SetsAreFiles, FileContent

LEMMA ServerWired ==
    ASSUME NEW t \in Every, NEW f \in FileOf(t), NEW l, Lists(t) = {l}
    PROVE  LET g == WithServer(l, f)
           IN  g \in FileOf(t) /\ Users(f) \subseteq Users(g) /\ Full(t, g)
<1>1. CASE Has(f, l)
  BY <1>1 DEF WithServer, Full
<1>2. CASE ~Has(f, l)
  <2> DEFINE s == (Content(f) \ Ours(f, l)) \cup {Entry(l, "ctx", "ctx")}
  <2>1. WithServer(l, f) = s
    BY <1>2 DEF WithServer
  <2>2. s \subseteq EntriesOf(t)
    BY CtxEntries, FileContent
  <2>3. \A e \in Content(f) : e.who = "user" => e \in s
    BY DEF Ours
  <2>4. s \in FileOf(t) /\ Content(s) = s /\ Users(f) \subseteq Users(s)
    BY <2>2, <2>3, KeepsUsers
  <2>. QED BY <2>1, <2>4 DEF Full, Has
<1>. QED BY <1>1, <1>2

LEMMA ServerUnwired ==
    ASSUME NEW t \in Every, NEW f \in FileOf(t), NEW l, Lists(t) = {l}
    PROVE  LET g == NoServer(l, f)
           IN  g \in FileOf(t) /\ Users(f) \subseteq Users(g) /\ Clean(t, g)
<1> DEFINE s == Content(f) \ Ours(f, l)
<1>1. s \subseteq EntriesOf(t) /\ \A e \in Content(f) : e.who = "user" => e \in s
  BY FileContent DEF Ours
<1>2. s \in FileOf(t) /\ Content(s) = s /\ Users(f) \subseteq Users(s)
  BY <1>1, KeepsUsers
<1>3. Ours(s, l) = {} /\ Ours(Missing, l) = {}
  BY <1>2, FileContent DEF Ours
<1>4. CASE s = Content(f)
  <2>1. Ours(f, l) = {}
    BY <1>4 DEF Ours
  <2>. QED BY <1>4, <2>1 DEF NoServer, Clean
<1>5. CASE s # Content(f) /\ s = {}
  <2>1. Users(f) = {}
    BY <1>1, <1>5, FileContent
  <2>. QED BY <1>3, <1>5, <2>1, FileContent DEF NoServer, Clean
<1>6. CASE s # Content(f) /\ s # {}
  BY <1>2, <1>3, <1>6 DEF NoServer, Clean
<1>. QED BY <1>4, <1>5, <1>6

\* Adding entries of ctx, and taking them out, where nothing old may be.
LEMMA HooksWired ==
    ASSUME NEW t \in Every, NEW f \in FileOf(t), NEW s, Current(t, f),
           Content(f) \subseteq s,
           \A l \in Lists(t) : Entry(l, "ctx", "ctx") \in s,
           \A e \in s \ Content(f) : e \in EntriesOf(t) /\ e.who = "ctx"
    PROVE  s \in FileOf(t) /\ Users(f) \subseteq Users(s) /\ Full(t, s) /\ Current(t, s)
<1>1. s \in FileOf(t) /\ Content(s) = s /\ Users(f) \subseteq Users(s)
  BY FileContent, KeepsUsers
<1>2. Full(t, s)
  BY <1>1 DEF Full, Has
<1>3. Current(t, s)
  BY <1>1 DEF Current
<1>. QED BY <1>1, <1>2, <1>3

LEMMA HooksUnwired ==
    ASSUME NEW t \in Every, NEW f \in FileOf(t), NEW s, Current(t, f), t \notin ServerFiles,
           s = Content(f) \ {Entry(l, "ctx", "ctx") : l \in Lists(t)}
    PROVE  s \in FileOf(t) /\ Users(f) \subseteq Users(s) /\ Clean(t, s) /\ Current(t, s)
<1>1. s \subseteq EntriesOf(t) /\ \A e \in Content(f) : e.who = "user" => e \in s
  BY FileContent, Fields
<1>2. s \in FileOf(t) /\ Content(s) = s /\ Users(f) \subseteq Users(s)
  BY <1>1, KeepsUsers
<1>3. Clean(t, s)
  <2>1. ASSUME NEW l \in Lists(t), NEW e \in s, e.list = l, e.who \in {"ctx", "old"}
        PROVE  FALSE
    <3>1. e \in EntriesOf(t) /\ e.who # "old"
      BY <1>1, <2>1 DEF Current
    <3>2. e = Entry(l, "ctx", "ctx")
      BY <2>1, <3>1, EntryKinds
    <3>. QED BY <3>2
  <2>. QED BY <1>2, <2>1 DEF Clean, Ours
<1>4. Current(t, s)
  BY <1>2 DEF Current, Has
<1>. QED BY <1>2, <1>3, <1>4

LEMMA NoFileKept ==
    ASSUME NEW t \in Every
    PROVE  Missing \in FileOf(t) /\ Clean(t, Missing) /\ Current(t, Missing)
<1>1. Missing \in FileOf(t) /\ Content(Missing) = {}
  BY DEF FileOf, Content
<1>2. \A l \in Lists(t) : Ours(Missing, l) = {} /\ ~Has(Missing, l)
  BY <1>1 DEF Ours, Has
<1>. QED BY <1>1, <1>2 DEF Clean, Current

-----------------------------------------------------------------------------
(* Every command on one file *)

LEMMA Wires ==
    ASSUME NEW t \in Every, NEW f \in FileOf(t), Current(t, f)
    PROVE  LET g == Wire(t, f)
           IN  g \in FileOf(t) /\ Users(f) \subseteq Users(g) /\ Full(t, g) /\ Current(t, g)
<1>. \A l \in Lists(t) : Entry(l, "ctx", "ctx") \in EntriesOf(t) /\ Entry(l, "ctx", "ctx").who = "ctx"
  BY CtxEntries, Fields
<1>1. CASE t \in ServerFiles
  <2>1. CASE t = ".vscode/mcp.json"
    <3>1. Lists(t) = {"servers"} /\ Wire(t, f) = WithServer("servers", f)
      BY <2>1, ListNames DEF Wire, WireVSCode
    <3>. QED BY <1>1, <3>1, ServerWired DEF Current
  <2>2. CASE t \in {".mcp.json", ".cursor/mcp.json"}
    <3>1. Lists(t) = {"mcpServers"} /\ Wire(t, f) = WithServer("mcpServers", f)
      BY <2>2, ListNames DEF Wire, WireJSON
    <3>. QED BY <1>1, <3>1, ServerWired DEF Current
  <2>. QED BY <1>1, <2>1, <2>2 DEF ServerFiles
<1>2. CASE t = ".codex/hooks.json"
  <2>1. Lists(t) = {"Stop", "Prompt"} /\ Wire(t, f) = WireCodexHooks(f)
    BY <1>2, ListNames DEF Wire
  <2>2. CASE Full(t, f)
    BY <2>1, <2>2 DEF WireCodexHooks, Full
  <2>3. CASE ~Full(t, f)
    <3> DEFINE s == Content(f) \cup {Entry("Stop", "ctx", "ctx"), Entry("Prompt", "ctx", "ctx")}
    <3>1. Content(WithHook("Stop", f)) = WithHook("Stop", f)
      <4>1. WithHook("Stop", f) \in SUBSET EntriesOf(t)
        BY <2>1, FileContent DEF WithHook
      <4>. QED BY <4>1, SetsAreFiles
    <3>2. Wire(t, f) = s
      BY <2>1, <2>3, <3>1 DEF WireCodexHooks, WithHook, Full
    <3>. QED BY <2>1, <3>2, HooksWired
  <2>. QED BY <2>2, <2>3
<1>3. CASE t = ".cursor/hooks.json"
  <2>1. Lists(t) = {"Prompt", "Reply"} /\ Wire(t, f) = WireCursorHooks(f)
    BY <1>3, ListNames DEF Wire
  <2>2. CASE Full(t, f)
    BY <2>1, <2>2 DEF WireCursorHooks, Full
  <2>3. CASE ~Full(t, f)
    <3> DEFINE v == IF \E e \in Content(f) : e.list = "version" THEN {} ELSE {Version}
               s == Content(f) \cup {Entry("Prompt", "ctx", "ctx"), Entry("Reply", "ctx", "ctx")} \cup v
    <3>1. Content(WithFlat("Prompt", f)) = WithFlat("Prompt", f)
      <4>1. WithFlat("Prompt", f) \in SUBSET EntriesOf(t)
        BY <2>1, FileContent DEF WithFlat
      <4>. QED BY <4>1, SetsAreFiles
    <3>2. Wire(t, f) = s
      BY <2>1, <2>3, <3>1 DEF WireCursorHooks, WithFlat, Full
    <3>3. v \subseteq {Version} /\ Version \in EntriesOf(t) /\ Version.who = "ctx"
      BY CtxEntries, Fields DEF Version
    <3>. HIDE DEF v
    <3>. QED BY <2>1, <3>2, <3>3, HooksWired
  <2>. QED BY <2>2, <2>3
<1>4. CASE t \in {".claude/settings.json", ".gitignore"}
  <2>1. PICK l \in {"Stop", "lines"} : Lists(t) = {l} /\ Wire(t, f) = IF Has(f, l) THEN f ELSE WithHook(l, f)
    BY <1>4, ListNames DEF Wire, InstallHook, UpdateGitignore
  <2>2. CASE Has(f, l)
    BY <2>1, <2>2 DEF Full
  <2>3. CASE ~Has(f, l)
    BY <2>1, <2>3, HooksWired DEF WithHook
  <2>. QED BY <2>2, <2>3
<1>. QED BY <1>1, <1>2, <1>3, <1>4 DEF Every, HookFiles

LEMMA Unwires ==
    ASSUME NEW t \in Every, NEW f \in FileOf(t), Current(t, f)
    PROVE  LET g == Unwire(t, f)
           IN  g \in FileOf(t) /\ Users(f) \subseteq Users(g) /\ Clean(t, g) /\ Current(t, g)
<1>1. CASE t \in ServerFiles
  <2>1. CASE t = ".vscode/mcp.json"
    <3>1. Lists(t) = {"servers"} /\ Unwire(t, f) = NoServer("servers", f)
      BY <2>1, ListNames DEF Unwire, UnwireVSCode
    <3>. QED BY <1>1, <3>1, ServerUnwired DEF Current
  <2>2. CASE t \in {".mcp.json", ".cursor/mcp.json"}
    <3>1. Lists(t) = {"mcpServers"} /\ Unwire(t, f) = NoServer("mcpServers", f)
      BY <2>2, ListNames DEF Unwire, UnwireJSON
    <3>. QED BY <1>1, <3>1, ServerUnwired DEF Current
  <2>. QED BY <1>1, <2>1, <2>2 DEF ServerFiles
<1> DEFINE s == Content(f) \ {Entry(l, "ctx", "ctx") : l \in Lists(t)}
<1>2. ASSUME t \notin ServerFiles
      PROVE  s \in FileOf(t) /\ Users(f) \subseteq Users(s) /\ Clean(t, s) /\ Current(t, s) /\ Content(s) = s
  <2>1. s \in FileOf(t) /\ Users(f) \subseteq Users(s) /\ Clean(t, s) /\ Current(t, s)
    BY <1>2, HooksUnwired
  <2>2. s \in SUBSET EntriesOf(t)
    BY FileContent
  <2>. QED BY <2>1, <2>2, SetsAreFiles
<1>3. ASSUME t \notin ServerFiles, s = Content(f)
      PROVE  Clean(t, f)
  BY <1>2, <1>3 DEF Clean, Ours
<1>4. ASSUME t \notin ServerFiles, \A e \in s : e.list = "version"
      PROVE  Users(f) = {}
  <2>1. \A e \in s : e \in EntriesOf(t)
    BY FileContent
  <2>2. Users(s) = {}
    <3>1. ASSUME NEW e \in s, e.who = "user"
          PROVE  FALSE
      BY <1>4, <2>1, <3>1, EntryKinds
    <3>. QED BY <1>2, <1>4, <3>1, FileContent
  <2>. QED BY <1>2, <1>4, <2>2
<1>5. CASE t = ".codex/hooks.json"
  <2>1. t \notin ServerFiles /\ Lists(t) = {"Stop", "Prompt"} /\ Unwire(t, f) = UnwireCodexHooks(f)
    BY <1>5, ListNames DEF Unwire, ServerFiles
  <2>2. NoHook("Stop", f) \cap NoHook("Prompt", f) = s
    BY <2>1 DEF NoHook
  <2>3. Unwire(t, f) = IF s = Content(f) THEN f ELSE IF s = {} THEN Missing ELSE s
    BY <2>1, <2>2 DEF UnwireCodexHooks
  <2>. HIDE DEF s
  <2>. QED BY <1>2, <1>3, <1>4, <2>1, <2>3, NoFileKept
<1>6. CASE t = ".cursor/hooks.json"
  <2>1. t \notin ServerFiles /\ Lists(t) = {"Prompt", "Reply"} /\ Unwire(t, f) = UnwireCursorHooks(f)
    BY <1>6, ListNames DEF Unwire, ServerFiles
  <2>2. NoFlat("Prompt", f) \cap NoFlat("Reply", f) = s
    BY <2>1 DEF NoFlat
  <2>3. Unwire(t, f) = IF s = Content(f) THEN f ELSE IF \A e \in s : e.list = "version" THEN Missing ELSE s
    BY <2>1, <2>2 DEF UnwireCursorHooks
  <2>. HIDE DEF s
  <2>. QED BY <1>2, <1>3, <1>4, <2>1, <2>3, NoFileKept
<1>7. CASE t \in {".claude/settings.json", ".gitignore"}
  <2>1. t \notin ServerFiles
    BY <1>7 DEF ServerFiles
  <2>2. Unwire(t, f) = s \/ (Unwire(t, f) = f /\ s = Content(f))
    <3>1. CASE t = ".gitignore"
      <4>1. Lists(t) = {"lines"} /\ Unwire(t, f) = RemoveGitignoreLine(f)
        BY <3>1, ListNames DEF Unwire
      <4>. QED BY <4>1 DEF RemoveGitignoreLine
    <3>2. CASE t = ".claude/settings.json"
      <4>1. Lists(t) = {"Stop"} /\ Unwire(t, f) = UninstallHook(f)
        BY <3>2, ListNames DEF Unwire
      <4>. QED BY <4>1 DEF UninstallHook, NoHook, Has
    <3>. QED BY <1>7, <3>1, <3>2
  <2>. HIDE DEF s
  <2>. QED BY <1>2, <1>3, <2>1, <2>2
<1>. QED BY <1>1, <1>5, <1>6, <1>7 DEF Every, HookFiles

LEMMA EntryRemoved ==
    ASSUME NEW f \in FileOf(".mcp.json")
    PROVE  LET g == RemoveMCPEntry(f)
           IN  /\ g \in FileOf(".mcp.json") /\ Users(f) \subseteq Users(g)
               /\ Clean(".mcp.json", g) /\ Current(".mcp.json", g)
               /\ g = {} => Users(f) = {}
<1> DEFINE g == RemoveMCPEntry(f)
<1>1. ".mcp.json" \in Every /\ ".mcp.json" \in ServerFiles /\ Lists(".mcp.json") = {"mcpServers"}
  BY ListNames DEF Every, ServerFiles
<1>2. g \subseteq EntriesOf(".mcp.json") /\ \A e \in Content(f) : e.who = "user" => e \in g
  BY <1>1, FileContent DEF RemoveMCPEntry, Ours
<1>3. g \in FileOf(".mcp.json") /\ Content(g) = g /\ Users(f) \subseteq Users(g)
  BY <1>1, <1>2, KeepsUsers
<1>4. Clean(".mcp.json", g)
  BY <1>1, <1>3 DEF Clean, Ours, RemoveMCPEntry
<1>5. g = {} => Users(f) = {}
  BY <1>1, <1>2, FileContent
<1>. QED BY <1>1, <1>3, <1>4, <1>5 DEF Current

(* A file in which ctx does not find itself holds nothing of it, or the    *)
(* prompt's hook alone.                                                    *)
LEMMA NotWired ==
    ASSUME NEW t \in Every, NEW f \in FileOf(t), Current(t, f), ~Wired(t, f), ~HalfWired(t, f)
    PROVE  Clean(t, f)
<1>1. Readable(f)
  BY FileContent DEF Readable
<1>2. CASE t \in ServerFiles
  <2>1. CASE t = ".vscode/mcp.json"
    BY <1>1, <2>1, ListNames DEF Wired, WiredJSON, Clean
  <2>2. CASE t \in {".mcp.json", ".cursor/mcp.json"}
    BY <1>1, <2>2, ListNames DEF Wired, WiredJSON, Clean, ServerFiles
  <2>. QED BY <1>2, <2>1, <2>2 DEF ServerFiles
<1>3. CASE t \notin ServerFiles
  <2>1. \A l \in Lists(t) : ~Has(f, l)
    <3>1. CASE t = ".codex/hooks.json"
      BY <1>1, <1>3, <3>1, ListNames DEF Wired, CodexHooksWired, HalfWired, HookFiles
    <3>2. CASE t = ".cursor/hooks.json"
      BY <1>1, <1>3, <3>2, ListNames DEF Wired, CursorHooksWired, HalfWired, HookFiles
    <3>3. CASE t = ".claude/settings.json"
      BY <1>1, <1>3, <3>3, ListNames DEF Wired, HookInstalled
    <3>4. CASE t = ".gitignore"
      BY <1>1, <1>3, <3>4, ListNames DEF Wired
    <3>. QED BY <1>3, <3>1, <3>2, <3>3, <3>4 DEF Every, HookFiles
  <2>3. ASSUME NEW l \in Lists(t), NEW e \in Content(f), e.list = l, e.who \in {"ctx", "old"}
        PROVE  FALSE
    <3>1. e \in EntriesOf(t) /\ e.who = "ctx"
      BY <1>3, <2>3, FileContent DEF Current
    <3>2. e = Entry(l, "ctx", "ctx")
      BY <2>3, <3>1, EntryKinds
    <3>. QED BY <2>1, <3>2 DEF Has
  <2>. QED BY <2>3 DEF Clean, Ours
<1>. QED BY <1>2, <1>3

\* What the others do to a file.
LEMMA OthersEdit ==
    ASSUME NEW t \in Every, NEW f, f = Spoilt \/ (f \in FileOf(t) /\ Current(t, f)),
           NEW g \in Edited(t, f), g # Spoilt
    PROVE  g \in FileOf(t) /\ Current(t, g)
<1>1. \A l \in Lists(t) : /\ Entry(l, "ctx", "ctx") \in EntriesOf(t) /\ Entry(l, "ctx", "ctx").who # "old"
                        /\ Entry(l, "ctx", "old") \in EntriesOf(t)
  BY Fields DEF EntriesOf
<1>2. CASE f = Spoilt
  <2>1. g \in SUBSET EntriesOf(t) /\ \A e \in g : e.who # "old"
    BY <1>1, <1>2 DEF Edited
  <2>. QED BY <2>1, SetsAreFiles DEF Current
<1>3. CASE f # Spoilt
  <2>1. Content(f) \in SUBSET EntriesOf(t) /\ (t \notin ServerFiles => \A e \in Content(f) : e.who # "old")
    BY <1>3, FileContent DEF Current
  <2>2. CASE g = Missing
    BY <2>2, NoFileKept
  <2>3. ASSUME g \in SUBSET EntriesOf(t), t \notin ServerFiles => \A e \in g : e.who # "old"
        PROVE  g \in FileOf(t) /\ Current(t, g)
    BY <2>3, SetsAreFiles DEF Current
  <2>4. CASE g \in UsersEdits(t, f)
    <3>1. ASSUME NEW l \in Lists(t), NEW h \in {"own", "ctx"}
          PROVE  Entry(l, h, "user") \in EntriesOf(t) /\ Entry(l, h, "user").who = "user"
      BY Fields DEF EntriesOf
    <3>2. Entry("other", "top", "user") \in EntriesOf(t) /\ Entry("other", "top", "user").who = "user"
      BY Fields DEF EntriesOf
    <3>3. \/ \E e : g = Content(f) \ {e}
          \/ \E e \in EntriesOf(t) : e.who = "user" /\ g = Content(f) \cup {e}
      BY <2>4, <3>1, <3>2 DEF UsersEdits
    <3>. QED BY <2>1, <2>3, <3>3
  <2>5. CASE g \in CtxEdits(t, f)
    <3>1. PICK l \in Lists(t) :
            \/ g = Content(f) \ Ours(f, l)
            \/ \E who \in IF t \in ServerFiles THEN {"ctx", "old"} ELSE {"ctx"} :
                 g = (Content(f) \ Ours(f, l)) \cup {Entry(l, "ctx", who)}
      BY <2>5 DEF CtxEdits
    <3>. QED BY <1>1, <2>1, <2>3, <3>1
  <2>. QED BY <1>3, <2>2, <2>4, <2>5 DEF Edited
<1>. QED BY <1>2, <1>3

\* An edit that leaves ctx's entries alone leaves the file clean, or full.
LEMMA OursAlone ==
    ASSUME NEW t \in Every, NEW f, NEW g, g # Spoilt, ~OursChange(t, f, g)
    PROVE  /\ f # Spoilt
           /\ Clean(t, f) => Clean(t, g)
           /\ Full(t, f) => Full(t, g)
<1>1. f # Spoilt /\ \A l \in Lists(t) : Ours(f, l) = Ours(g, l)
  BY DEF OursChange
<1>2. \A l, h : Has(h, l) <=> Entry(l, "ctx", "ctx") \in Ours(h, l)
  BY Fields DEF Has, Ours
<1>. QED BY <1>1, <1>2 DEF Clean, Full

-----------------------------------------------------------------------------
(* The specification *)

Jobs == [step : {"rest", "prompt", "run"},
         cmd : {"none", "init", "install", "uninstall", "detach", "purge"},
         todo : SUBSET Targets, want : SUBSET Targets, gone : SUBSET Targets,
         failed : SUBSET Targets, bare : SUBSET Targets, half : SUBSET Targets,
         touched : SUBSET Targets]

Detaching == job.cmd \in {"detach", "purge"}
Unstopped == \A t \in job.failed : ~Stops(t)

\* The files a detach may leave with an entry of ctx.
Excused == job.failed \cup job.touched \cup job.half

\* Files that cannot be read stay what they are; of the others, those a detach
\* is through with are clean and those an init is through with are wired,
\* unless others changed them since, or detach found half of ctx's hooks.
FilesOK ==
    \A t \in Targets : disk[t] # Spoilt =>
        /\ disk[t] \in FileOf(t) /\ Current(t, disk[t])
        /\ Detaching /\ t \notin job.todo \cup Excused => Clean(t, disk[t])
        /\ job.cmd = "init" /\ Unstopped /\ t \in job.want \ (job.todo \cup job.failed \cup job.touched)
             => Full(t, disk[t])

WiringInv ==
    /\ disk = [t \in Targets |-> disk[t]]
    /\ present \in BOOLEAN /\ edits \in 0 .. MaxEdits
    /\ job \in Jobs
    /\ job.gone \subseteq job.bare /\ job.gone \subseteq {".mcp.json"} /\ (job.gone # {} => Detaching)
    /\ FilesOK

LEMMA RestIsJob ==
    /\ AtRest \in Jobs /\ AtRest.step = "rest" /\ AtRest.cmd = "none" /\ AtRest.gone = {}
    /\ AtRest.bare = {} /\ AtRest.todo = {} /\ AtRest.want = {} /\ AtRest.failed = {}
    /\ AtRest.half = {} /\ AtRest.touched = {}
BY DEF AtRest, Jobs

LEMMA TargetFacts == \A t \in Targets : t \in Every
BY TargetsAssumption

LEMMA InitOK == WiringInit => WiringInv
<1> SUFFICES ASSUME WiringInit PROVE WiringInv
  OBVIOUS
<1>2. ASSUME NEW t \in Targets
      PROVE  disk[t] \in FileOf(t) /\ Current(t, disk[t])
  <2>1. disk[t] \in Found(t) /\ t \in Every
    BY TargetFacts DEF WiringInit
  <2>2. CASE disk[t] = Missing
    BY <2>1, <2>2, NoFileKept
  <2>3. CASE disk[t] # Missing
    <3>1. \E l \in Lists(t) : \/ disk[t] = {Entry(l, "ctx", "ctx")}
                              \/ (t \in ServerFiles /\ disk[t] = {Entry(l, "ctx", "old")})
      BY <2>1, <2>3 DEF Found
    <3>2. disk[t] \in SUBSET EntriesOf(t) /\ (t \notin ServerFiles => \A e \in disk[t] : e.who # "old")
      BY <3>1, Fields DEF EntriesOf
    <3>. QED BY <2>1, <3>2, SetsAreFiles DEF Current
  <2>. QED BY <2>2, <2>3
<1>3. FilesOK
  BY <1>2, RestIsJob DEF FilesOK, WiringInit, Detaching
<1>4. 0 \in 0 .. MaxEdits
  BY MishapsAssumption
<1>5. disk = [t \in Targets |-> disk[t]]
  BY DEF WiringInit
<1>. QED BY <1>3, <1>4, <1>5, RestIsJob DEF WiringInv, WiringInit

(* A command that starts has everything before it.                         *)
LEMMA Begun ==
    ASSUME WiringInv, NEW w \in {"init", "install", "uninstall"}, NEW ts, Begin(w, ts),
           UNCHANGED <<disk, edits>>, present' \in BOOLEAN
    PROVE  WiringInv'
<1>1. /\ job' \in Jobs /\ job'.cmd = w /\ job'.todo = ts \cap Targets /\ job'.want = ts \cap Targets
      /\ job'.gone = {} /\ job'.bare = {} /\ job'.failed = {}
  BY DEF Begin, AtRest, Jobs
<1>2. FilesOK'
  BY <1>1 DEF WiringInv, FilesOK, Detaching
<1>. QED BY <1>1, <1>2 DEF WiringInv, Detaching

LEMMA Rested ==
    ASSUME WiringInv, job' = AtRest, UNCHANGED <<disk, edits>>, present' \in BOOLEAN
    PROVE  WiringInv'
BY RestIsJob DEF WiringInv, FilesOK, Detaching

(* The plan of a detach.                                                   *)
LEMMA DetachPlanned ==
    ASSUME WiringInv, NEW keep \in BOOLEAN, Detach(keep)
    PROVE  WiringInv'
<1> DEFINE ts == {t \in Targets : Wired(t, disk[t])}
<1>1. /\ job' \in Jobs /\ job'.cmd \in {"detach", "purge"} /\ job'.todo = ts /\ job'.failed = {}
      /\ job'.gone = {t \in ts : OnlyContent(t, disk[t])}
      /\ job'.bare = {t \in ts : Users(disk[t]) = {}}
      /\ job'.half = {t \in Targets : HalfWired(t, disk[t])}
  BY DEF Detach, AtRest, Jobs
<1>2. ASSUME NEW t \in job'.gone
      PROVE  t \in job'.bare /\ t = ".mcp.json"
  <2>1. t \in Targets /\ t = ".mcp.json" /\ RemoveMCPEntry(disk[t]) = {} /\ Wired(t, disk[t])
    BY <1>1, <1>2 DEF OnlyContent
  <2>2. disk[t] \in FileOf(t)
    BY <2>1 DEF WiringInv, FilesOK, Wired, Readable
  <2>. QED BY <1>1, <2>1, <2>2, EntryRemoved
<1>3. FilesOK'
  <2> SUFFICES ASSUME NEW t \in Targets, disk[t] # Spoilt
               PROVE  /\ disk[t] \in FileOf(t) /\ Current(t, disk[t])
                      /\ t \notin ts /\ ~HalfWired(t, disk[t]) => Clean(t, disk[t])
    BY <1>1 DEF FilesOK, Detach, Detaching, Excused
  <2>1. disk[t] \in FileOf(t) /\ Current(t, disk[t])
    BY DEF WiringInv, FilesOK
  <2>. QED BY <2>1, NotWired, TargetFacts
<1>. QED BY <1>1, <1>2, <1>3 DEF WiringInv, Detach, Detaching

(* What a command makes of a file it may work on.                          *)
LEMMA BecomesOK ==
    ASSUME WiringInv, NEW t \in Targets, Workable(t)
    PROVE  /\ Becomes(t) \in FileOf(t) /\ Current(t, Becomes(t)) /\ Becomes(t) # Spoilt
           /\ job.cmd \in {"init", "install"} => Full(t, Becomes(t))
           /\ job.cmd \notin {"init", "install"} => Clean(t, Becomes(t))
           /\ t \notin job.gone => disk[t] # Spoilt /\ Users(disk[t]) \subseteq Users(Becomes(t))
<1>. t \in Every
  BY TargetFacts
<1>1. CASE t \in job.gone
  <2>1. job.cmd \notin {"init", "install"} /\ Becomes(t) = Missing
    BY <1>1 DEF WiringInv, Detaching, Becomes
  <2>. QED BY <1>1, <2>1, NoFileKept, MarksAssumption
<1>2. CASE t \notin job.gone
  <2>1. disk[t] # Spoilt /\ disk[t] \in FileOf(t) /\ Current(t, disk[t])
    BY <1>2 DEF WiringInv, FilesOK, Workable, Readable
  <2>2. CASE job.cmd \in {"init", "install"}
    <3>1. Becomes(t) = Wire(t, disk[t])
      BY <2>2 DEF Becomes
    <3>2. /\ Becomes(t) \in FileOf(t) /\ Users(disk[t]) \subseteq Users(Becomes(t))
          /\ Full(t, Becomes(t)) /\ Current(t, Becomes(t))
      BY <2>1, <3>1, Wires
    <3>. QED BY <2>1, <2>2, <3>2, FileContent
  <2>3. CASE job.cmd \notin {"init", "install"}
    <3>1. \/ t = ".mcp.json" /\ Becomes(t) = RemoveMCPEntry(disk[t])
          \/ Becomes(t) = Unwire(t, disk[t])
      BY <1>2, <2>3 DEF Becomes
    <3>2. /\ Becomes(t) \in FileOf(t) /\ Users(disk[t]) \subseteq Users(Becomes(t))
          /\ Clean(t, Becomes(t)) /\ Current(t, Becomes(t))
      BY <2>1, <3>1, Unwires, EntryRemoved
    <3>. QED BY <2>1, <2>3, <3>2, FileContent
  <2>. QED BY <2>2, <2>3
<1>. QED BY <1>1, <1>2

LEMMA GoesOK ==
    ASSUME job \in Jobs, NEW t \in job.todo
    PROVE  /\ Goes(t, TRUE) = [job EXCEPT !.todo = job.todo \ {t}] /\ Goes(t, TRUE) \in Jobs
           /\ Goes(t, FALSE) \in Jobs
           /\ Goes(t, TRUE).cmd = job.cmd /\ Goes(t, TRUE).want = job.want
           /\ Goes(t, TRUE).gone = job.gone /\ Goes(t, TRUE).bare = job.bare
           /\ Goes(t, TRUE).half = job.half /\ Goes(t, TRUE).touched = job.touched
           /\ Goes(t, FALSE).half = job.half /\ Goes(t, FALSE).touched = job.touched
           /\ Goes(t, FALSE).cmd = job.cmd /\ Goes(t, FALSE).want = job.want
           /\ Goes(t, FALSE).gone = job.gone /\ Goes(t, FALSE).bare = job.bare
           /\ Goes(t, TRUE).todo = job.todo \ {t} /\ Goes(t, TRUE).failed = job.failed
           /\ Goes(t, FALSE).failed = job.failed \cup {t}
           /\ ~Stops(t) => Goes(t, FALSE).todo = job.todo \ {t}
           /\ Stops(t) => Goes(t, FALSE).todo = {}
BY DEF Goes, Jobs

LEMMA StepOK ==
    ASSUME WiringInv, Step
    PROVE  WiringInv'
<1>1. PICK t \in job.todo :
        \/ Workable(t) /\ disk' = [disk EXCEPT ![t] = Becomes(t)] /\ job' = Goes(t, TRUE)
        \/ job' = Goes(t, FALSE) /\ UNCHANGED disk
  BY DEF Step
<1>2. job \in Jobs /\ t \in Targets /\ UNCHANGED <<present, edits>>
  BY <1>1 DEF WiringInv, Jobs, Step
<1>3. /\ job' \in Jobs /\ job'.cmd = job.cmd /\ job'.want = job.want
      /\ job'.gone = job.gone /\ job'.bare = job.bare
      /\ job'.half = job.half /\ job'.touched = job.touched
  <2>1. CASE job' = Goes(t, TRUE)
    BY <1>2, <2>1, GoesOK
  <2>2. CASE job' = Goes(t, FALSE)
    BY <1>2, <2>2, GoesOK
  <2>. QED BY <1>1, <2>1, <2>2
<1>4. \A u : Stops(u)' <=> Stops(u)
  BY <1>3 DEF Stops
<1>5. disk' = [u \in Targets |-> disk'[u]] /\ FilesOK'
  <2>1. CASE Workable(t) /\ disk' = [disk EXCEPT ![t] = Becomes(t)] /\ job' = Goes(t, TRUE)
    <3>1. job'.todo = job.todo \ {t} /\ job'.failed = job.failed
      BY <1>2, <2>1, GoesOK
    <3>2. disk'[t] = Becomes(t) /\ \A u \in Targets \ {t} : disk'[u] = disk[u]
      BY <1>2, <2>1 DEF WiringInv
    <3>3. disk' = [u \in Targets |-> disk'[u]]
      BY <1>2, <2>1 DEF WiringInv
    <3>4. Unstopped' <=> Unstopped
      BY <1>4, <3>1 DEF Unstopped
    <3>5. ASSUME NEW u \in Targets, disk'[u] # Spoilt
          PROVE  /\ disk'[u] \in FileOf(u) /\ Current(u, disk'[u])
                 /\ Detaching' /\ u \notin job'.todo \cup Excused' => Clean(u, disk'[u])
                 /\ job'.cmd = "init" /\ Unstopped' /\ u \in job'.want \ (job'.todo \cup job'.failed \cup job'.touched)
                      => Full(u, disk'[u])
      <4>1. CASE u = t
        <5>1. Detaching' => job.cmd \notin {"init", "install"}
          BY <1>3 DEF Detaching
        <5>. QED BY <1>2, <1>3, <2>1, <3>2, <4>1, <5>1, BecomesOK
      <4>2. CASE u # t
        <5>1. /\ disk[u] \in FileOf(u) /\ Current(u, disk[u])
              /\ Detaching /\ u \notin job.todo \cup Excused => Clean(u, disk[u])
              /\ job.cmd = "init" /\ Unstopped /\ u \in job.want \ (job.todo \cup job.failed \cup job.touched)
                   => Full(u, disk[u])
          BY <3>2, <3>5, <4>2 DEF WiringInv, FilesOK
        <5>. QED BY <1>3, <3>1, <3>2, <3>4, <4>2, <5>1 DEF Detaching, Excused
      <4>. QED BY <4>1, <4>2
    <3>. QED BY <3>3, <3>5 DEF FilesOK
  <2>2. CASE job' = Goes(t, FALSE) /\ UNCHANGED disk
    <3>1. /\ job'.failed = job.failed \cup {t} /\ (~Stops(t) => job'.todo = job.todo \ {t})
          /\ Stops(t) => job'.todo = {}
      BY <1>2, <2>2, GoesOK
    <3>2. Unstopped' => Unstopped /\ ~Stops(t)
      BY <1>4, <3>1 DEF Unstopped
    <3>3. ASSUME NEW u \in Targets, disk'[u] # Spoilt
          PROVE  /\ disk'[u] \in FileOf(u) /\ Current(u, disk'[u])
                 /\ Detaching' /\ u \notin job'.todo \cup Excused' => Clean(u, disk'[u])
                 /\ job'.cmd = "init" /\ Unstopped' /\ u \in job'.want \ (job'.todo \cup job'.failed \cup job'.touched)
                      => Full(u, disk'[u])
      <4>1. /\ disk[u] \in FileOf(u) /\ Current(u, disk[u])
            /\ Detaching /\ u \notin job.todo \cup Excused => Clean(u, disk[u])
            /\ job.cmd = "init" /\ Unstopped /\ u \in job.want \ (job.todo \cup job.failed \cup job.touched)
                 => Full(u, disk[u])
        BY <2>2, <3>3 DEF WiringInv, FilesOK
      <4>2. Detaching => ~Stops(t)
        BY DEF Detaching, Stops
      <4>. QED BY <1>3, <2>2, <3>1, <3>2, <4>1, <4>2 DEF Detaching, Excused
    <3>. QED BY <2>2, <3>3 DEF FilesOK, WiringInv
  <2>. QED BY <1>1, <2>1, <2>2
<1>. QED BY <1>2, <1>3, <1>5 DEF WiringInv, Detaching

LEMMA EditOK ==
    ASSUME WiringInv, NEW t \in Targets, EditFile(t)
    PROVE  WiringInv'
<1>1. PICK g \in Edited(t, disk[t]) :
        /\ disk' = [disk EXCEPT ![t] = g]
        /\ job' = IF job = AtRest \/ t \in job.todo \/ ~OursChange(t, disk[t], g) THEN job
                  ELSE [job EXCEPT !.touched = @ \cup {t}]
  BY DEF EditFile
<1>2. /\ disk'[t] = g /\ \A u \in Targets \ {t} : disk'[u] = disk[u]
      /\ disk' = [u \in Targets |-> disk'[u]]
  BY <1>1 DEF WiringInv
<1>3. edits' \in 0 .. MaxEdits /\ UNCHANGED present
  BY MishapsAssumption DEF EditFile, WiringInv
<1>4. /\ job' \in Jobs /\ job'.cmd = job.cmd /\ job'.want = job.want /\ job'.todo = job.todo
      /\ job'.gone = job.gone /\ job'.bare = job.bare /\ job'.failed = job.failed
      /\ job'.half = job.half /\ job.touched \subseteq job'.touched
      /\ \/ t \in job'.touched \/ job = AtRest \/ t \in job.todo \/ ~OursChange(t, disk[t], g)
  <2>1. CASE job' = job
    BY <1>1, <2>1 DEF WiringInv, Jobs
  <2>2. CASE job' = [job EXCEPT !.touched = @ \cup {t}]
    BY <2>2 DEF WiringInv, Jobs
  <2>. QED BY <1>1, <2>1, <2>2
<1>5. (Unstopped' <=> Unstopped) /\ (Detaching' <=> Detaching) /\ Excused \subseteq Excused'
  BY <1>4 DEF Unstopped, Detaching, Stops, Excused
<1>6. FilesOK'
  <2> SUFFICES ASSUME NEW u \in Targets, disk'[u] # Spoilt
               PROVE  /\ disk'[u] \in FileOf(u) /\ Current(u, disk'[u])
                      /\ Detaching /\ u \notin job.todo \cup Excused' => Clean(u, disk'[u])
                      /\ job.cmd = "init" /\ Unstopped
                           /\ u \in job.want \ (job.todo \cup job.failed \cup job'.touched)
                           => Full(u, disk'[u])
    BY <1>4, <1>5 DEF FilesOK
  <2>1. CASE u # t
    BY <1>2, <1>4, <1>5, <2>1 DEF WiringInv, FilesOK
  <2>2. CASE u = t
    <3>1. g # Spoilt /\ g \in Edited(t, disk[t]) /\ disk'[u] = g
      BY <1>2, <2>2
    <3>2. disk[t] = Spoilt \/ (disk[t] \in FileOf(t) /\ Current(t, disk[t]))
      BY DEF WiringInv, FilesOK
    <3>3. g \in FileOf(t) /\ Current(t, g)
      BY <3>1, <3>2, OthersEdit, TargetFacts
    <3>4. CASE t \in job'.touched \/ job = AtRest \/ t \in job.todo
      BY <2>2, <3>1, <3>3, <3>4, RestIsJob DEF Detaching, Excused
    <3>5. CASE ~OursChange(t, disk[t], g)
      <4>1. /\ disk[t] # Spoilt
            /\ Clean(t, disk[t]) => Clean(t, g)
            /\ Full(t, disk[t]) => Full(t, g)
        BY <3>1, <3>5, OursAlone, TargetFacts
      <4>. QED BY <1>4, <1>5, <2>2, <3>1, <3>3, <4>1 DEF WiringInv, FilesOK
    <3>. QED BY <1>4, <3>4, <3>5
  <2>. QED BY <2>1, <2>2
<1>. QED BY <1>2, <1>3, <1>4, <1>5, <1>6 DEF WiringInv

LEMMA AnswerOK ==
    ASSUME WiringInv, NEW yes \in BOOLEAN, Answer(yes)
    PROVE  WiringInv'
<1>1. CASE job' = AtRest
  BY <1>1, Rested DEF Answer, WiringInv
<1>2. CASE job' = [job EXCEPT !.step = "run"]
  <2>1. /\ job' \in Jobs /\ job'.cmd = job.cmd /\ job'.want = job.want /\ job'.todo = job.todo
        /\ job'.gone = job.gone /\ job'.bare = job.bare /\ job'.failed = job.failed
        /\ job'.half = job.half /\ job'.touched = job.touched
    BY <1>2 DEF WiringInv, Jobs
  <2>2. FilesOK'
    BY <2>1 DEF WiringInv, FilesOK, Detaching, Unstopped, Stops, Excused, Answer
  <2>. QED BY <2>1, <2>2 DEF WiringInv, Answer, Detaching
<1>. QED BY <1>1, <1>2 DEF Answer

LEMMA NextOK == WiringInv /\ [WiringNext]_wiring => WiringInv'
<1> SUFFICES ASSUME WiringInv, [WiringNext]_wiring PROVE WiringInv'
  OBVIOUS
<1>. present \in BOOLEAN
  BY DEF WiringInv
<1>1. ASSUME NEW skip, InitProject(skip) PROVE WiringInv'
  BY <1>1, Begun DEF InitProject
<1>2. ASSUME NEW ts, Install(ts) PROVE WiringInv'
  BY <1>2, Begun DEF Install
<1>3. ASSUME NEW ts, Uninstall(ts) PROVE WiringInv'
  BY <1>3, Begun DEF Uninstall
<1>4. CASE \E keep \in BOOLEAN : Detach(keep)
  BY <1>4, DetachPlanned
<1>5. CASE \E yes \in BOOLEAN : Answer(yes)
  BY <1>5, AnswerOK
<1>6. CASE Step
  BY <1>6, StepOK
<1>7. CASE Finish \/ KillJob
  BY <1>7, Rested DEF Finish, KillJob
<1>8. CASE \E t \in Targets : EditFile(t)
  BY <1>8, EditOK
<1>9. CASE UNCHANGED wiring
  BY <1>9 DEF WiringInv, FilesOK, Detaching, Unstopped, Stops, Excused, wiring
<1>. QED BY <1>1, <1>2, <1>3, <1>4, <1>5, <1>6, <1>7, <1>8, <1>9 DEF WiringNext

(* The files and the plan of the command stay consistent, wherever a       *)
(* command fails or is killed, while others add, remove or restore         *)
(* entries, ctx's among them, spoil files, mend and delete them.           *)
THEOREM WiringInvariance == WiringSpec => []WiringInv
BY InitOK, NextOK, PTL DEF WiringSpec

(* After an init that was not stopped every agent is wired in full, after  *)
(* a detach nothing of ctx is left in the files it did not fail on, and    *)
(* files keep their type.  Excepted are the files whose entries of ctx     *)
(* others changed when the command was through with them and, for detach,  *)
(* those in which it found the prompt's hook alone (HalfWired).            *)
THEOREM WiringIsSound == WiringSpec => []WiringSound
<1>1. WiringInv => WiringSound
  <2> SUFFICES ASSUME WiringInv PROVE WiringSound
    OBVIOUS
  <2>1. WiringTypeOK
    <3>1. job.step \in {"rest", "prompt", "run"}
      BY DEF WiringInv, Jobs
    <3>2. \A t \in Targets : disk[t] \notin {Missing, Spoilt} => disk[t] \subseteq EntriesOf(t)
      BY DEF WiringInv, FilesOK, FileOf
    <3>. QED BY <3>1, <3>2 DEF WiringInv, WiringTypeOK
  <2>2. DetachComplete
    BY DEF WiringInv, FilesOK, Detaching, Excused, DetachComplete, Clean
  <2>3. InitComplete
    <3>1. job.want \subseteq Targets
      BY DEF WiringInv, Jobs
    <3>. QED BY <3>1 DEF WiringInv, FilesOK, Unstopped, InitComplete, Full
  <2>. QED BY <2>1, <2>2, <2>3 DEF WiringSound
<1>. QED BY <1>1, WiringInvariance, PTL

(* No command takes out or rewrites what somebody else put into a file,    *)
(* nor a file it cannot read, but for the .mcp.json that held nothing else *)
(* when detach planned to delete it.                                       *)
THEOREM OthersAreKept == WiringSpec => OthersKept
<1>1. WiringInv /\ [WiringNext]_wiring =>
        [\A t \in Targets :
           disk'[t] # disk[t] /\ edits' = edits /\ t \notin job.gone \cap job.bare
             => disk[t] # Spoilt /\ Users(disk[t]) \subseteq Users(disk'[t])]_wiring
  <2> SUFFICES ASSUME WiringInv, WiringNext, NEW t \in Targets, disk'[t] # disk[t], edits' = edits,
                      t \notin job.gone \cap job.bare
               PROVE  disk[t] # Spoilt /\ Users(disk[t]) \subseteq Users(disk'[t])
    OBVIOUS
  <2>1. edits \in Nat
    BY MishapsAssumption DEF WiringInv
  <2>2. Step
    <3>1. ASSUME NEW u \in Targets, EditFile(u) PROVE FALSE
      BY <2>1, <3>1 DEF EditFile
    <3>2. disk' # disk
      OBVIOUS
    <3>. QED BY <3>1, <3>2 DEF WiringNext, InitProject, Install, Uninstall, Detach, Answer, Finish, KillJob
  <2>3. PICK u \in job.todo : Workable(u) /\ disk' = [disk EXCEPT ![u] = Becomes(u)]
    BY <2>2 DEF Step
  <2>4. u \in Targets /\ t = u /\ disk'[t] = Becomes(t) /\ t \notin job.gone
    BY <2>3 DEF WiringInv, Jobs
  <2>. QED BY <2>3, <2>4, BecomesOK
<1>. QED BY <1>1, WiringInvariance, PTL DEF WiringSpec, OthersKept

(***************************************************************************)
(* The state of a page (ClassifyCheck)                                     *)
(***************************************************************************)

(* One page: its sides as gathered, then the answer.                       *)
StateSpec == AskState /\ answer = Pending /\ [][Verdict]_<<asked, answer>>

StateAsked ==
    /\ asked.table = "state"
    /\ local \in Locals /\ base \in Bases /\ remote \in Remotes /\ side \in Shas \cup {0}

StateInv ==
    /\ StateAsked
    /\ answer # Pending => /\ answer.state = Classify(local, base, remote)
                           /\ answer.note = Note(local, base, remote)
                           /\ answer.shown = ApplySidecar(Classify(local, base, remote), base.sha, side)

LEMMA AskedSides == AskState => StateAsked
<1> SUFFICES ASSUME NEW l \in Locals, NEW b \in Bases, NEW r \in Remotes, NEW s \in Shas \cup {0},
                    asked = [table |-> "state", local |-> l, base |-> b, remote |-> r, side |-> s]
             PROVE  StateAsked
  BY DEF AskState
<1>1. asked.table = "state" /\ asked.local = l /\ asked.base = b /\ asked.remote = r /\ asked.side = s
  OBVIOUS
<1>. QED BY Zenon, <1>1 DEF StateAsked, local, base, remote, side

LEMMA VerdictStep == ASSUME StateInv, [Verdict]_<<asked, answer>> PROVE StateInv'
<1>1. UNCHANGED asked
  BY DEF Verdict, Answers
<1>2. StateAsked'
  BY <1>1 DEF StateInv, StateAsked, local, base, remote, side
<1>. DEFINE st == Classify(local, base, remote)
<1>3. CASE Verdict
  <2>1. answer' = [state |-> st, note |-> Note(local, base, remote), shown |-> ApplySidecar(st, base.sha, side)]
    BY Zenon, <1>3 DEF Verdict, Answers
  <2>2. answer'.state = st /\ answer'.note = Note(local, base, remote)
        /\ answer'.shown = ApplySidecar(st, base.sha, side)
    BY <2>1
  <2>. QED BY <1>1, <1>2, <2>2 DEF StateInv, local, base, remote, side, Pending
<1>4. CASE UNCHANGED <<asked, answer>>
  BY <1>2, <1>4 DEF StateInv, local, base, remote, side, Pending
<1>. QED BY <1>3, <1>4

(* What the sides of a page may be.                                        *)
LEMMA SideKinds ==
    ASSUME StateAsked
    PROVE  /\ local.kind \in {"absent", "invalid", "valid"}
           /\ base.kind \in {"none", "stale", "valid"} /\ base.sha \in Nat
           /\ remote.kind \in {"unknown", "absent", "present"} /\ side \in Nat
           /\ base.kind = "none" => base.sha = 0
           /\ remote.kind = "present" => remote.sha \in Nat \ {0}
<1>1. local.kind \in {"absent", "invalid", "valid"}
  BY DEF StateAsked, Locals, LocalAbsent, LocalInvalid, LocalValid
<1>2. base.kind \in {"none", "stale", "valid"} /\ base.sha \in Nat /\ (base.kind = "none" => base.sha = 0)
  BY ShasAssumption DEF StateAsked, Bases, BaseNone, BaseStale, BaseValid
<1>3. remote.kind \in {"unknown", "absent", "present"} /\ (remote.kind = "present" => remote.sha \in Nat \ {0})
  BY ShasAssumption DEF StateAsked, Remotes, RemoteUnknown, RemoteAbsent, RemotePresent
<1>4. side \in Nat
  BY ShasAssumption DEF StateAsked
<1>. QED BY <1>1, <1>2, <1>3, <1>4

(* The decision table, row by row.                                         *)
LEMMA ClassifyRows ==
    ASSUME NEW l, NEW b, NEW r, l.kind \in {"absent", "invalid", "valid"},
           b.kind \in {"none", "stale", "valid"}, r.kind \in {"unknown", "absent", "present"}
    PROVE  LET st    == Classify(l, b, r)
               moved == r.kind = "present" /\ b.kind # "none" /\ r.sha # b.sha
           IN  /\ l.kind = "invalid" => st = "invalid"
               /\ l.kind = "absent" => st = IF b.kind # "none" THEN "deleted_local"
                                            ELSE IF r.kind = "present" THEN "incoming_new" ELSE NoEntry
               /\ l.kind = "valid" /\ b.kind = "none" => st = IF r.kind = "present" THEN "conflict" ELSE "new"
               /\ l.kind = "valid" /\ b.kind = "stale" => st = IF r.kind = "absent" THEN "new" ELSE "unverified"
               /\ l.kind = "valid" /\ b.kind = "valid" =>
                     st = IF r.kind = "absent" THEN "new"
                          ELSE IF l.hash = b.hash THEN IF moved THEN "incoming" ELSE "unchanged"
                               ELSE IF moved THEN "conflict" ELSE "modified"
<1>1. RemoteMoved(b, r) <=> r.kind = "present" /\ b.kind # "none" /\ r.sha # b.sha
  BY DEF RemoteMoved, HasBase
<1>2. CASE l.kind = "invalid"
  BY <1>2 DEF Classify
<1>3. CASE l.kind = "absent"
  BY <1>3 DEF Classify, AbsentState, HasBase
<1>4. CASE l.kind = "valid"
  <2>1. Classify(l, b, r) = ValidState(l, b, r)
    BY <1>4 DEF Classify
  <2>2. b.kind = "none" => ValidState(l, b, r) = IF r.kind = "present" THEN "conflict" ELSE "new"
    BY DEF ValidState
  <2>3. b.kind = "stale" => ValidState(l, b, r) = IF r.kind = "absent" THEN "new" ELSE "unverified"
    BY DEF ValidState
  <2>4. b.kind = "valid" => ValidState(l, b, r) = VerifiedState(l, b, r)
    BY DEF ValidState
  <2>5. VerifiedState(l, b, r) =
            IF r.kind = "absent" THEN "new"
            ELSE IF l.hash = b.hash THEN IF RemoteMoved(b, r) THEN "incoming" ELSE "unchanged"
                 ELSE IF RemoteMoved(b, r) THEN "conflict" ELSE "modified"
    BY DEF VerifiedState
  <2>. QED BY <1>1, <1>4, <2>1, <2>2, <2>3, <2>4, <2>5
<1>. QED BY <1>2, <1>3, <1>4

LEMMA StateRows ==
    ASSUME StateAsked
    PROVE  LET st == Classify(local, base, remote)
           IN  /\ local.kind = "invalid" => st = "invalid"
               /\ local.kind = "absent" => st = IF base.kind # "none" THEN "deleted_local"
                                                ELSE IF remote.kind = "present" THEN "incoming_new" ELSE NoEntry
               /\ Page /\ base.kind = "none" => st = IF remote.kind = "present" THEN "conflict" ELSE "new"
               /\ Page /\ base.kind = "stale" => st = IF OnServer THEN "unverified" ELSE "new"
               /\ SameHere => st = IF OnServer THEN IF Moved THEN "incoming" ELSE "unchanged" ELSE "new"
               /\ EditedHere => st = IF OnServer THEN IF Moved THEN "conflict" ELSE "modified" ELSE "new"
               /\ st \in PageStates \cup {NoEntry}
<1>. DEFINE st == Classify(local, base, remote)
<1>1. /\ local.kind \in {"absent", "invalid", "valid"} /\ base.kind \in {"none", "stale", "valid"}
      /\ remote.kind \in {"unknown", "absent", "present"}
  BY SideKinds
<1>2. /\ local.kind = "invalid" => st = "invalid"
      /\ local.kind = "absent" => st = IF base.kind # "none" THEN "deleted_local"
                                       ELSE IF remote.kind = "present" THEN "incoming_new" ELSE NoEntry
      /\ local.kind = "valid" /\ base.kind = "none" => st = IF remote.kind = "present" THEN "conflict" ELSE "new"
      /\ local.kind = "valid" /\ base.kind = "stale" => st = IF remote.kind = "absent" THEN "new" ELSE "unverified"
      /\ local.kind = "valid" /\ base.kind = "valid" =>
            st = IF remote.kind = "absent" THEN "new"
                 ELSE IF local.hash = base.hash THEN IF Moved THEN "incoming" ELSE "unchanged"
                      ELSE IF Moved THEN "conflict" ELSE "modified"
  BY <1>1, ClassifyRows DEF Moved
<1>. HIDE DEF st
<1>3. /\ Page <=> local.kind = "valid"
      /\ OnServer <=> remote.kind # "absent"
      /\ SameHere <=> local.kind = "valid" /\ base.kind = "valid" /\ local.hash = base.hash
      /\ EditedHere <=> local.kind = "valid" /\ base.kind = "valid" /\ local.hash # base.hash
  BY DEF Page, OnServer, SameHere, EditedHere, Snapshot
<1>4. st \in PageStates \cup {NoEntry}
  BY <1>1, <1>2 DEF PageStates
<1>. QED BY <1>2, <1>3, <1>4 DEF st

LEMMA MeaningRows ==
    /\ Means("unchanged") <=> SameHere /\ OnServer /\ ~Moved
    /\ Means("modified") <=> EditedHere /\ OnServer /\ ~Moved
    /\ Means("new") <=> Page /\ \/ base.kind = "none" /\ remote.kind # "present"
                                \/ base.kind # "none" /\ ~OnServer
    /\ Means("incoming") <=> SameHere /\ Moved
    /\ Means("incoming_new") <=> local.kind = "absent" /\ base.kind = "none" /\ remote.kind = "present"
    /\ Means("conflict") <=> \/ EditedHere /\ Moved
                             \/ Page /\ base.kind = "none" /\ remote.kind = "present"
    /\ Means("deleted_local") <=> local.kind = "absent" /\ base.kind # "none"
    /\ Means("invalid") <=> local.kind = "invalid"
    /\ Means("unverified") <=> Page /\ base.kind = "stale" /\ OnServer
BY DEF Means

LEMMA ReadmeMatched == ASSUME StateInv PROVE MatchesReadme
<1> SUFFICES ASSUME answer # Pending
             PROVE  {st \in PageStates : Means(st)} = {answer.state} \ {NoEntry}
  BY DEF MatchesReadme, Given
<1>. DEFINE st == Classify(local, base, remote)
<1>1. answer.state = st
  BY DEF StateInv
<1>. HIDE DEF st
<1>2. /\ local.kind \in {"absent", "invalid", "valid"} /\ base.kind \in {"none", "stale", "valid"}
      /\ remote.kind \in {"unknown", "absent", "present"}
  BY SideKinds DEF StateInv
<1>3. /\ Page <=> local.kind = "valid"
      /\ OnServer <=> remote.kind # "absent"
      /\ Moved => OnServer /\ base.kind # "none"
      /\ SameHere => Page /\ base.kind = "valid"
      /\ EditedHere => Page /\ base.kind = "valid"
      /\ Page /\ base.kind = "valid" => (SameHere <=> ~EditedHere)
  BY <1>2 DEF Page, OnServer, Moved, SameHere, EditedHere, Snapshot
<1>4. st \in PageStates \cup {NoEntry} /\ NoEntry \notin PageStates
  BY StateRows DEF StateInv, PageStates, NoEntry, st
<1>5. /\ local.kind = "invalid" => st = "invalid"
      /\ local.kind = "absent" => st = IF base.kind # "none" THEN "deleted_local"
                                       ELSE IF remote.kind = "present" THEN "incoming_new" ELSE NoEntry
      /\ Page /\ base.kind = "none" => st = IF remote.kind = "present" THEN "conflict" ELSE "new"
      /\ Page /\ base.kind = "stale" => st = IF OnServer THEN "unverified" ELSE "new"
      /\ SameHere => st = IF OnServer THEN IF Moved THEN "incoming" ELSE "unchanged" ELSE "new"
      /\ EditedHere => st = IF OnServer THEN IF Moved THEN "conflict" ELSE "modified" ELSE "new"
  BY StateRows DEF StateInv, st
<1>6. ASSUME NEW x \in PageStates PROVE Means(x) <=> x = st
  <2>1. x \in {"unchanged", "incoming", "modified", "conflict"} => (Means(x) <=> x = st)
    BY <1>2, <1>3, <1>5, MeaningRows DEF NoEntry
  <2>2. x \in {"new", "unverified", "invalid"} => (Means(x) <=> x = st)
    BY <1>2, <1>3, <1>5, MeaningRows DEF NoEntry
  <2>3. x \in {"incoming_new", "deleted_local"} => (Means(x) <=> x = st)
    BY <1>2, <1>3, <1>5, MeaningRows DEF NoEntry
  <2>. QED BY <1>6, <2>1, <2>2, <2>3 DEF PageStates
<1>. QED BY <1>1, <1>4, <1>6

LEMMA MovesAreTold == ASSUME StateInv PROVE NoSilentMove
<1> SUFFICES ASSUME answer # Pending, Moved
             PROVE  answer.state \in {"incoming", "conflict", "unverified"} \/ answer.note = "remote_changed"
  BY DEF NoSilentMove, Given
<1>1. /\ local.kind \in {"absent", "invalid", "valid"} /\ base.kind \in {"stale", "valid"}
      /\ remote.kind = "present" /\ RemoteMoved(base, remote) /\ remote.sha # base.sha
  BY SideKinds DEF StateInv, Moved, RemoteMoved, HasBase
<1>2. CASE local.kind = "valid"
  BY <1>1, <1>2, ClassifyRows DEF StateInv
<1>3. CASE local.kind # "valid"
  BY <1>1, <1>3 DEF StateInv, Note
<1>. QED BY <1>2, <1>3

LEMMA OfflineIsOnline == ASSUME StateInv PROVE OfflineAgrees
<1> SUFFICES ASSUME answer # Pending, side # 0, remote = RemotePresent(side)
             PROVE  Classify(local, base, OfflineRemote(base.sha, side)) = Classify(local, base, remote)
  BY DEF OfflineAgrees, Given, StateInv
<1>. DEFINE off == OfflineRemote(base.sha, side)
<1>1. CASE side # base.sha
  BY <1>1 DEF OfflineRemote
<1>2. CASE side = base.sha
  <2>1. off.kind = "unknown" /\ remote.kind = "present" /\ remote.sha = base.sha /\ base.kind # "none"
    BY <1>2, SideKinds DEF StateInv, OfflineRemote, RemoteUnknown, RemotePresent
  <2>. HIDE DEF off
  <2>2. /\ local.kind \in {"absent", "invalid", "valid"} /\ base.kind \in {"stale", "valid"}
    BY <2>1, SideKinds DEF StateInv
  <2>. QED BY <2>1, <2>2, ClassifyRows DEF off
<1>. QED BY <1>1, <1>2

LEMMA OverridesAreSafe == ASSUME StateInv PROVE OverrideIsSafe
<1> SUFFICES ASSUME answer # Pending, answer.shown # answer.state
             PROVE  /\ answer.state = "modified" /\ answer.shown = "conflict"
                    /\ Classify(local, base, RemotePresent(side)) = "conflict"
  BY DEF OverrideIsSafe, Given
<1>. DEFINE now == RemotePresent(side)
<1>1. /\ answer.state = "modified" /\ answer.shown = "conflict" /\ side # 0 /\ side # base.sha
      /\ Classify(local, base, remote) = "modified"
  BY DEF StateInv, ApplySidecar
<1>2. local.kind = "valid" /\ base.kind = "valid" /\ local.hash # base.hash
  <2>1. local.kind \in {"absent", "invalid", "valid"} /\ base.kind \in {"none", "stale", "valid"}
    BY SideKinds DEF StateInv
  <2>2. ~SameHere /\ local.kind = "valid" /\ base.kind = "valid"
    BY <1>1, <2>1, StateRows DEF StateInv, NoEntry, Page
  <2>. QED BY <2>2 DEF SameHere, Page, Snapshot
<1>3. now.kind = "present" /\ now.sha = side
  BY DEF RemotePresent
<1>. HIDE DEF now
<1>4. Classify(local, base, now) = "conflict"
  BY <1>1, <1>2, <1>3, ClassifyRows
<1>. QED BY <1>1, <1>4 DEF now

(* ClassifySound, for every set of shas and of hashes: the code's order of *)
(* tests decides exactly one of README's nine meanings for every page that *)
(* exists on some side.                                                    *)
THEOREM ClassifyIsSound == StateSpec => []ClassifySound
<1>1. AskState /\ answer = Pending => StateInv
  BY AskedSides DEF StateInv
<1>2. StateInv /\ [Verdict]_<<asked, answer>> => StateInv'
  BY VerdictStep
<1>3. StateInv => ClassifySound
  BY ReadmeMatched, MovesAreTold, OfflineIsOnline, OverridesAreSafe DEF ClassifySound
<1>. QED BY <1>1, <1>2, <1>3, PTL DEF StateSpec

(***************************************************************************)
(* Status (StatusCheck)                                                    *)
(***************************************************************************)

(* Any question to status: every page has any file, a truthful record, any *)
(* listed version and any sidecar; there is a listing, or a reason why     *)
(* not, exactly when the server was asked.                                 *)
AnyRecord == {BaseNone} \cup {BaseStale(s) : s \in Versions} \cup {BaseValid(s, Text[s]) : s \in Versions}
AnyPage   == [file : FileSides, base : AnyRecord, listed : Versions \cup {0}, side : Versions \cup {0}]

Question ==
    /\ asked.table = "status"
    /\ asked.offline \in BOOLEAN /\ asked.token \in BOOLEAN /\ asked.url \in BOOLEAN /\ asked.repo \in BOOLEAN
    /\ asked.page \in [Paths -> AnyPage]
    /\ (asked.listing # NoCode) <=> Online(asked)

StatusSpec == Question /\ answer = Pending /\ [][AnswerStatus]_<<asked, answer>>

StatusInv ==
    /\ Question
    /\ answer # Pending =>
          /\ \A p \in Paths : answer.state[p] = StateOf(asked, p)
          /\ answer.live = Live(asked) /\ answer.exists = (Live(asked) /\ asked.listing = "live")
          /\ answer.error = RemoteError(asked) /\ answer.auth = Auth(asked)
          /\ answer.blocks = BlocksPush(asked) /\ answer.warnings = Warnings(asked)

LEMMA StatusStep == ASSUME StatusInv, [AnswerStatus]_<<asked, answer>> PROVE StatusInv'
<1>1. UNCHANGED asked
  BY DEF AnswerStatus, Answers
<1>2. Question'
  BY Zenon, <1>1 DEF StatusInv, Question, Online, Unusable
<1>3. CASE AnswerStatus
  <2>1. answer' = Document(asked)
    BY <1>3 DEF AnswerStatus, Answers
  <2>2. /\ \A p \in Paths : answer'.state[p] = StateOf(asked, p)
        /\ answer'.live = Live(asked) /\ answer'.exists = (Live(asked) /\ asked.listing = "live")
        /\ answer'.error = RemoteError(asked) /\ answer'.auth = Auth(asked)
        /\ answer'.blocks = BlocksPush(asked) /\ answer'.warnings = Warnings(asked)
    BY Zenon, <2>1 DEF Document
  <2>. QED BY Zenon, <1>1, <1>2, <2>2 DEF StatusInv
<1>4. CASE UNCHANGED <<asked, answer>>
  BY Zenon, <1>2, <1>4 DEF StatusInv
<1>. QED BY <1>3, <1>4

LEMMA OnlineIs ==
    ASSUME asked.offline \in BOOLEAN, asked.token \in BOOLEAN, asked.url \in BOOLEAN, asked.repo \in BOOLEAN
    PROVE  Online(asked) <=> ~asked.offline /\ asked.token /\ asked.url /\ asked.repo
<1>1. CASE asked.token = FALSE
  BY Zenon, <1>1 DEF Online, Unusable, NoCode
<1>. QED BY DEF Online, Unusable, NoCode

(* The questions the run asks are among them.                              *)
LEMMA RunsQuestions == ASSUME {1, 2} \subseteq Versions, AskStatus PROVE Question
<1>1. PICK a \in AllFacts, b \in SomeFacts, l \in Links, t \in Times, g \in Guards, one \in Knowledge :
          asked = [table |-> "status", offline |-> l.offline, token |-> l.token, url |-> l.url,
                   repo |-> l.repo, listing |-> l.listing, ensure |-> l.ensure, time |-> t,
                   fresh |-> g[1], bypass |-> g[2],
                   page |-> [p \in Paths |-> IF p = one THEN a ELSE b]]
  BY Zenon DEF AskStatus
<1>2. /\ asked.table = "status" /\ asked.offline = l.offline /\ asked.token = l.token /\ asked.url = l.url
      /\ asked.repo = l.repo /\ asked.listing = l.listing /\ asked.fresh = g[1] /\ asked.bypass = g[2]
      /\ asked.page = [p \in Paths |-> IF p = one THEN a ELSE b]
  BY <1>1
<1>3. AllFacts \subseteq AnyPage
  <2>1. Records \subseteq AnyRecord
    BY DEF Records, AnyRecord
  <2>. HIDE DEF Records, AnyRecord
  <2>2. ASSUME NEW x \in AllFacts PROVE x \in AnyPage
    <3>1. PICK f \in FileSides, r \in Records, n \in {0, 1, 2}, s \in {0, 1, 2} : x = PageFacts(f, r, n, s)
      BY <2>2 DEF AllFacts
    <3>. QED BY <2>1, <3>1 DEF PageFacts, AnyPage
  <2>. QED BY <2>2
<1>4. a \in AnyPage /\ b \in AnyPage
  BY <1>3 DEF SomeFacts
<1>5. asked.page \in [Paths -> AnyPage]
  BY Zenon, <1>2, <1>4
<1>6. /\ l.offline \in BOOLEAN /\ l.token \in BOOLEAN /\ l.url \in BOOLEAN /\ l.repo \in BOOLEAN
      /\ (l.listing # NoCode) <=> ~l.offline /\ l.token /\ l.url /\ l.repo
  <2>. DEFINE Fits == /\ l.offline \in BOOLEAN /\ l.token \in BOOLEAN /\ l.url \in BOOLEAN /\ l.repo \in BOOLEAN
                      /\ (l.listing # NoCode) <=> ~l.offline /\ l.token /\ l.url /\ l.repo
              Link(off, tok, url, repo, lst, ens) ==
                [offline |-> off, token |-> tok, url |-> url, repo |-> repo, listing |-> lst, ensure |-> ens]
  <2>1. \/ \E k \in BOOLEAN : l = Link(TRUE, k, TRUE, TRUE, "", "")
        \/ \E u \in {<<FALSE, TRUE, TRUE>>, <<TRUE, FALSE, TRUE>>, <<TRUE, TRUE, FALSE>>} :
              l = Link(FALSE, u[1], u[2], u[3], "", "")
        \/ \E k \in {"repo_not_found", "auth_rejected", "server_error", "network"} :
              l = Link(FALSE, TRUE, TRUE, TRUE, k, "")
        \/ \E k \in {"fixes", "skips", "fails"} : l = Link(FALSE, TRUE, TRUE, TRUE, "live", k)
    BY Zenon DEF Links
  <2>2. ASSUME NEW k \in BOOLEAN, l = Link(TRUE, k, TRUE, TRUE, "", "") PROVE Fits
    BY <2>2 DEF NoCode
  <2>3. /\ l = Link(FALSE, FALSE, TRUE, TRUE, "", "") => Fits
        /\ l = Link(FALSE, TRUE, FALSE, TRUE, "", "") => Fits
        /\ l = Link(FALSE, TRUE, TRUE, FALSE, "", "") => Fits
    <3>1. ASSUME l = Link(FALSE, FALSE, TRUE, TRUE, "", "") PROVE Fits
      BY <3>1 DEF NoCode
    <3>2. ASSUME l = Link(FALSE, TRUE, FALSE, TRUE, "", "") PROVE Fits
      BY <3>2 DEF NoCode
    <3>3. ASSUME l = Link(FALSE, TRUE, TRUE, FALSE, "", "") PROVE Fits
      BY <3>3 DEF NoCode
    <3>. QED BY Zenon, <3>1, <3>2, <3>3
  <2>4. ASSUME NEW k \in {"repo_not_found", "auth_rejected", "server_error", "network"},
               l = Link(FALSE, TRUE, TRUE, TRUE, k, "") PROVE Fits
    BY <2>4 DEF NoCode
  <2>5. ASSUME NEW k, l = Link(FALSE, TRUE, TRUE, TRUE, "live", k) PROVE Fits
    BY <2>5 DEF NoCode
  <2>. HIDE DEF Fits, Link
  <2>6. ASSUME NEW u \in {<<FALSE, TRUE, TRUE>>, <<TRUE, FALSE, TRUE>>, <<TRUE, TRUE, FALSE>>},
               l = Link(FALSE, u[1], u[2], u[3], "", "") PROVE Fits
    <3>1. CASE u = <<FALSE, TRUE, TRUE>>
      <4>1. u[1] = FALSE /\ u[2] = TRUE /\ u[3] = TRUE
        BY <3>1
      <4>. QED BY Zenon, <2>3, <2>6, <4>1
    <3>2. CASE u = <<TRUE, FALSE, TRUE>>
      <4>1. u[1] = TRUE /\ u[2] = FALSE /\ u[3] = TRUE
        BY <3>2
      <4>. QED BY Zenon, <2>3, <2>6, <4>1
    <3>3. CASE u = <<TRUE, TRUE, FALSE>>
      <4>1. u[1] = TRUE /\ u[2] = TRUE /\ u[3] = FALSE
        BY <3>3
      <4>. QED BY Zenon, <2>3, <2>6, <4>1
    <3>. QED BY Zenon, <2>6, <3>1, <3>2, <3>3
  <2>7. Fits
    BY Zenon, <2>1, <2>2, <2>4, <2>5, <2>6
  <2>. QED BY Zenon, <2>7 DEF Fits
<1>8. (asked.listing # NoCode) <=> Online(asked)
  <2>1. /\ asked.offline \in BOOLEAN /\ asked.token \in BOOLEAN /\ asked.url \in BOOLEAN /\ asked.repo \in BOOLEAN
        /\ (asked.listing # NoCode) <=> ~asked.offline /\ asked.token /\ asked.url /\ asked.repo
    BY Zenon, <1>2, <1>6
  <2>. QED BY Zenon, <2>1, OnlineIs
<1>. QED BY Zenon, <1>2, <1>5, <1>6, <1>8 DEF Question

-----------------------------------------------------------------------------
(* One page *)

LEMMA PageIs ==
    ASSUME Question, NEW p \in Paths
    PROVE  LET x == On(p) IN
           /\ x = asked.page[p] /\ x.listed \in Nat /\ x.side \in Nat
           /\ x.file.kind \in {"absent", "invalid", "valid"}
           /\ x.base.kind \in {"none", "stale", "valid"} /\ x.base.sha \in Nat
           /\ x.base.kind = "none" => x.base.sha = 0
           /\ x.base.kind # "none" => x.base.sha \in Nat \ {0}
           /\ x.base.kind = "valid" => x.base.hash = Text[x.base.sha]
<1>1. On(p) = asked.page[p] /\ asked.page[p] \in AnyPage
  BY Zenon DEF On, Question
<1>. DEFINE x == On(p)
<1>2. x.file \in FileSides /\ x.base \in AnyRecord /\ x.listed \in Versions \cup {0} /\ x.side \in Versions \cup {0}
  BY <1>1 DEF AnyPage
<1>3. Versions \subseteq Nat \ {0} /\ Versions \cup {0} \subseteq Nat
  BY StatusAssumption DEF Versions
<1>. HIDE DEF x
<1>4. x.file.kind \in {"absent", "invalid", "valid"}
  BY <1>2 DEF FileSides, LocalAbsent, LocalInvalid, LocalValid
<1>5. /\ x.base.kind \in {"none", "stale", "valid"} /\ x.base.sha \in Nat
      /\ x.base.kind = "none" => x.base.sha = 0
      /\ x.base.kind # "none" => x.base.sha \in Nat \ {0}
      /\ x.base.kind = "valid" => x.base.hash = Text[x.base.sha]
  BY <1>2, <1>3 DEF AnyRecord, BaseNone, BaseStale, BaseValid
<1>6. x.listed \in Nat /\ x.side \in Nat
  BY Zenon, <1>2, <1>3
<1>. QED BY Zenon, <1>1, <1>4, <1>5, <1>6 DEF x

(* The record status judges a page by is as true as the one it found.      *)
LEMMA RecordIs ==
    ASSUME Question, NEW p \in Paths
    PROVE  LET b == Base(asked, p)  r == On(p).base
               fixed == r.kind = "stale" /\ Ensured(asked) /\ asked.ensure = "fixes"
           IN  /\ b.kind = (IF fixed THEN "valid" ELSE r.kind) /\ b.sha = r.sha
               /\ b.kind \in {"none", "stale", "valid"} /\ b.sha \in Nat
               /\ b.kind = "valid" => b.hash = Text[b.sha]
<1>. DEFINE r == On(p).base
            fixed == r.kind = "stale" /\ Ensured(asked) /\ asked.ensure = "fixes"
<1>1. /\ asked.page[p].base = r /\ r.kind \in {"none", "stale", "valid"} /\ r.sha \in Nat
      /\ r.kind = "valid" => r.hash = Text[r.sha]
  BY PageIs
<1>2. Base(asked, p) = IF fixed THEN BaseValid(r.sha, Text[r.sha]) ELSE r
  BY Zenon, <1>1 DEF Base, RecordOf
<1>. HIDE DEF r
<1>3. CASE fixed
  BY <1>1, <1>2, <1>3 DEF BaseValid, r
<1>4. CASE ~fixed
  BY <1>1, <1>2, <1>4 DEF r
<1>. QED BY <1>3, <1>4

LEMMA RemoteIs ==
    ASSUME Question, NEW p \in Paths
    PROVE  LET r == Remote(asked, p)  x == On(p)  there == asked.listing = "live" /\ x.listed # 0 IN
           /\ r.kind \in {"unknown", "absent", "present"}
           /\ Live(asked) => r.kind = (IF there THEN "present" ELSE "absent") /\ (there => r.sha = x.listed)
           /\ ~Live(asked) => r.kind # "absent"
<1>1. asked.page[p] = On(p)
  BY DEF On
<1>2. CASE ~Live(asked)
  BY <1>2 DEF Remote, OfflineRemote, RemotePresent, RemoteUnknown
<1>3. CASE Live(asked) /\ asked.listing = "live"
  BY <1>1, <1>3 DEF Remote, Listed, OnlineRemote, RemotePresent, RemoteAbsent
<1>4. CASE Live(asked) /\ asked.listing # "live"
  BY <1>4 DEF Remote, RemoteAbsent
<1>. QED BY <1>2, <1>3, <1>4

(* The rows of the table, for what status lists of a page.                 *)
LEMMA StateIs ==
    ASSUME Question, NEW p \in Paths
    PROVE  LET x == On(p)  b == Base(asked, p)  r == Remote(asked, p)
               st == StateOf(asked, p)
               moved == r.kind = "present" /\ b.kind # "none" /\ r.sha # b.sha
           IN  /\ x.file.kind = "invalid" => st = "invalid"
               /\ x.file.kind = "absent" => st = IF b.kind # "none" THEN "deleted_local"
                                                 ELSE IF r.kind = "present" THEN "incoming_new" ELSE NoEntry
               /\ x.file.kind = "valid" /\ b.kind = "none" => st = IF r.kind = "present" THEN "conflict" ELSE "new"
               /\ x.file.kind = "valid" /\ b.kind = "stale" => st = IF r.kind = "absent" THEN "new" ELSE "unverified"
               /\ x.file.kind = "valid" /\ b.kind = "valid" =>
                     st = IF r.kind = "absent" THEN "new"
                          ELSE IF x.file.hash = Text[b.sha] THEN IF moved THEN "incoming" ELSE "unchanged"
                          ELSE IF moved \/ x.side \notin {0, b.sha} THEN "conflict" ELSE "modified"
<1>. DEFINE x == On(p)  b == Base(asked, p)  r == Remote(asked, p)
            c == Classify(x.file, b, r)
<1>1. /\ x.file.kind \in {"absent", "invalid", "valid"} /\ b.kind \in {"none", "stale", "valid"}
      /\ r.kind \in {"unknown", "absent", "present"} /\ (b.kind = "valid" => b.hash = Text[b.sha])
  BY PageIs, RecordIs, RemoteIs
<1>2. StateOf(asked, p) = IF c = "modified" /\ x.side # 0 /\ x.side # b.sha THEN "conflict" ELSE c
  BY DEF StateOf, ApplySidecar, On
<1>. HIDE DEF x, b, r
<1>3. /\ x.file.kind = "invalid" => c = "invalid"
      /\ x.file.kind = "absent" => c = IF b.kind # "none" THEN "deleted_local"
                                       ELSE IF r.kind = "present" THEN "incoming_new" ELSE NoEntry
      /\ x.file.kind = "valid" /\ b.kind = "none" => c = IF r.kind = "present" THEN "conflict" ELSE "new"
      /\ x.file.kind = "valid" /\ b.kind = "stale" => c = IF r.kind = "absent" THEN "new" ELSE "unverified"
      /\ x.file.kind = "valid" /\ b.kind = "valid" =>
            c = IF r.kind = "absent" THEN "new"
                ELSE IF x.file.hash = b.hash THEN IF r.kind = "present" /\ b.kind # "none" /\ r.sha # b.sha THEN "incoming" ELSE "unchanged"
                     ELSE IF r.kind = "present" /\ b.kind # "none" /\ r.sha # b.sha THEN "conflict" ELSE "modified"
  BY <1>1, ClassifyRows
<1>. HIDE DEF c
<1>. QED BY <1>1, <1>2, <1>3 DEF x, b, r, NoEntry

-----------------------------------------------------------------------------
(* What status says *)

LEMMA LiveIs ==
    ASSUME Question
    PROVE  LET asks  == ~asked.offline /\ asked.token /\ asked.url /\ asked.repo
               knows == asks /\ asked.listing \in {"live", "repo_not_found"}
           IN  /\ (Online(asked) <=> asks) /\ (Live(asked) <=> knows)
               /\ Ensured(asked) <=> asks /\ asked.listing = "live"
               /\ asked.listing # NoCode <=> asks
               /\ ~asked.token => Unusable(asked) = "not_authenticated"
               /\ ~asked.offline /\ ~asks => Unusable(asked) # NoCode
<1>1. /\ asked.offline \in BOOLEAN /\ asked.token \in BOOLEAN /\ asked.url \in BOOLEAN /\ asked.repo \in BOOLEAN
      /\ (asked.listing # NoCode) <=> Online(asked)
  BY Zenon DEF Question
<1>2. Online(asked) <=> ~asked.offline /\ asked.token /\ asked.url /\ asked.repo
  BY Zenon, <1>1, OnlineIs
<1>3. Live(asked) <=> Online(asked) /\ asked.listing \in {"live", "repo_not_found"}
  BY Zenon DEF Live, IsAnswer
<1>4. Ensured(asked) <=> Online(asked) /\ asked.listing = "live"
  BY Zenon DEF Ensured
<1>5. ~asked.token => Unusable(asked) = "not_authenticated"
  <2>1. ASSUME asked.token = FALSE PROVE Unusable(asked) = "not_authenticated"
    BY Zenon, <2>1 DEF Unusable
  <2>. QED BY Zenon, <1>1, <2>1
<1>6. ~asked.offline /\ Unusable(asked) = NoCode => Online(asked)
  BY Zenon DEF Online
<1>. QED BY Zenon, <1>1, <1>2, <1>3, <1>4, <1>5, <1>6

LEMMA EqualIfUnchanged == ASSUME StatusInv PROVE InSyncMeansEqual
<1> SUFFICES ASSUME answer # Pending, answer.exists, NEW p \in Paths,
                    answer.state[p] \in {"unchanged", NoEntry}
             PROVE  TextIn(On(p).file) = ServerHas(p)
  BY DEF InSyncMeansEqual, Given
<1>. DEFINE x == On(p)  b == Base(asked, p)  r == Remote(asked, p)
<1>1. Question /\ Live(asked) /\ asked.listing = "live" /\ StateOf(asked, p) \in {"unchanged", NoEntry}
  BY DEF StatusInv
<1>2. /\ x.file.kind \in {"absent", "invalid", "valid"} /\ x.listed \in Nat
      /\ b.kind \in {"none", "stale", "valid"} /\ b.sha \in Nat
      /\ r.kind = (IF x.listed # 0 THEN "present" ELSE "absent") /\ (x.listed # 0 => r.sha = x.listed)
  BY <1>1, PageIs, RecordIs, RemoteIs
<1>3. \/ x.file.kind = "valid" /\ x.listed # 0 /\ x.file.hash = Text[x.listed]
      \/ x.file.kind = "absent" /\ x.listed = 0
  <2>. HIDE DEF x, b, r
  <2>. QED BY <1>1, <1>2, StateIs DEF NoEntry, x, b, r
<1>. QED BY <1>3 DEF TextIn, ServerHas

LEMMA EditsAreShown == ASSUME StatusInv PROVE NoEditHidden
<1> SUFFICES ASSUME answer # Pending, NEW p \in Paths, On(p).file.kind = "valid",
                    On(p).base.kind # "none" => On(p).file.hash # Text[On(p).base.sha]
             PROVE  answer.state[p] \notin {"unchanged", "incoming", "incoming_new", "deleted_local", NoEntry}
  BY DEF NoEditHidden, Given
<1>1. Question /\ answer.state[p] = StateOf(asked, p)
  BY DEF StatusInv
<1>2. /\ Base(asked, p).kind \in {"none", "stale", "valid"} /\ Base(asked, p).sha = On(p).base.sha
      /\ On(p).base.kind = "none" => Base(asked, p).kind = "none"
  BY <1>1, RecordIs
<1>. QED BY <1>1, <1>2, StateIs DEF NoEntry

LEMMA FailuresAreNamed == ASSUME StatusInv PROVE EveryFailureNamed
<1>. DEFINE asks  == ~asked.offline /\ asked.token /\ asked.url /\ asked.repo
            knows == asks /\ asked.listing \in {"live", "repo_not_found"}
<1> SUFFICES ASSUME answer # Pending
             PROVE  /\ answer.live = knows
                    /\ (answer.error # NoCode) = (~asked.offline /\ ~knows)
                    /\ (answer.auth = "rejected") = (asks /\ asked.listing = "auth_rejected")
                    /\ answer.auth = "authenticated" => knows
                    /\ answer.auth = "not_authenticated" => ~asked.token
                    /\ asked.listing = "repo_not_found" =>
                         \A p \in Paths : On(p).file.kind = "valid" => answer.state[p] = "new"
  BY DEF EveryFailureNamed, Given
<1>1. /\ Question /\ answer.live = Live(asked) /\ answer.error = RemoteError(asked) /\ answer.auth = Auth(asked)
      /\ \A p \in Paths : answer.state[p] = StateOf(asked, p)
  BY Zenon DEF StatusInv
<1>2. /\ (Online(asked) <=> asks) /\ (Live(asked) <=> knows) /\ (asked.listing # NoCode <=> asks)
      /\ ~asked.offline /\ ~asks => Unusable(asked) # NoCode
  BY Zenon, <1>1, LiveIs
<1>. HIDE DEF asks, knows
<1>3. knows => asks
  BY Zenon DEF knows, asks
<1>4. RemoteError(asked) # NoCode <=> ~asked.offline /\ ~knows
  <2>1. asks => ~asked.offline
    BY Zenon DEF asks
  <2>2. Online(asked) /\ ~Live(asked) => RemoteError(asked) = asked.listing
    BY Zenon DEF RemoteError
  <2>3. ~asked.offline /\ ~Online(asked) => RemoteError(asked) = Unusable(asked)
    BY Zenon DEF RemoteError
  <2>4. Live(asked) => RemoteError(asked) = NoCode
    BY Zenon, <1>2, <1>3 DEF RemoteError
  <2>5. asked.offline => RemoteError(asked) = NoCode
    BY Zenon, <1>2, <2>1 DEF RemoteError
  <2>. QED BY Zenon, <1>2, <1>3, <2>1, <2>2, <2>3, <2>4, <2>5
<1>5. /\ Auth(asked) = "rejected" <=> asks /\ asked.listing = "auth_rejected"
      /\ Auth(asked) = "authenticated" => knows
      /\ Auth(asked) = "not_authenticated" => ~asked.token
  <2>0. Live(asked) => Online(asked) /\ asked.listing # "auth_rejected"
    <3>1. Live(asked) => Online(asked) /\ asked.listing \in {"live", "repo_not_found"}
      BY Zenon DEF Live, IsAnswer
    <3>. QED BY <3>1
  <2>1. Live(asked) => Auth(asked) = "authenticated"
    BY Zenon, <2>0 DEF Auth
  <2>2. Online(asked) /\ ~Live(asked) /\ asked.listing = "auth_rejected" => Auth(asked) = "rejected"
    BY Zenon DEF Auth
  <2>3. Online(asked) /\ ~Live(asked) /\ asked.listing # "auth_rejected" => Auth(asked) = "unchecked"
    BY Zenon DEF Auth
  <2>4. ~Online(asked) => Auth(asked) = IF asked.token THEN "unchecked" ELSE "not_authenticated"
    BY Zenon, <2>0 DEF Auth
  <2>5. ~Online(asked) /\ asked.token => Auth(asked) = "unchecked"
    BY Zenon, <2>4
  <2>6. ~Online(asked) /\ ~asked.token => Auth(asked) = "not_authenticated"
    BY Zenon, <2>4
  <2>7. /\ "authenticated" # "rejected" /\ "authenticated" # "not_authenticated"
        /\ "authenticated" # "unchecked" /\ "rejected" # "unchecked"
        /\ "rejected" # "not_authenticated" /\ "unchecked" # "not_authenticated"
    OBVIOUS
  <2>8. /\ Auth(asked) = "rejected" <=> Online(asked) /\ asked.listing = "auth_rejected"
        /\ Auth(asked) = "authenticated" <=> Live(asked)
        /\ Auth(asked) = "not_authenticated" => ~asked.token
    BY Zenon, <2>0, <2>1, <2>2, <2>3, <2>5, <2>6, <2>7
  <2>. QED BY Zenon, <1>2, <2>8
<1>6. ASSUME asked.listing = "repo_not_found", NEW p \in Paths, On(p).file.kind = "valid"
      PROVE  answer.state[p] = "new"
  <2>1. Live(asked) /\ asked.listing # "live"
    BY <1>2, <1>6 DEF knows, NoCode
  <2>2. Remote(asked, p).kind = "absent" /\ Base(asked, p).kind \in {"none", "stale", "valid"}
    BY <1>1, <2>1, RemoteIs, RecordIs
  <2>. QED BY <1>1, <1>6, <2>2, StateIs
<1>7. answer.live = knows
  <2>1. Live(asked) = knows
    <3>1. Live(asked) = (Online(asked) /\ IsAnswer(asked.listing))
      BY Zenon DEF Live
    <3>2. (Online(asked) /\ IsAnswer(asked.listing)) = knows
      BY Zenon, <1>2 DEF Live, knows
    <3>. QED BY Zenon, <3>1, <3>2
  <2>. QED BY Zenon, <1>1, <2>1
<1>8. (answer.error # NoCode) = (~asked.offline /\ ~knows)
  BY Zenon, <1>1, <1>4
<1>9. (answer.auth = "rejected") = (asks /\ asked.listing = "auth_rejected")
  BY Zenon, <1>1, <1>5
<1>10. /\ answer.auth = "authenticated" => knows
       /\ answer.auth = "not_authenticated" => ~asked.token
  BY Zenon, <1>1, <1>5
<1>. QED BY Zenon, <1>6, <1>7, <1>8, <1>9, <1>10

LEMMA UnverifiedAreNamed == ASSUME StatusInv PROVE UnverifiedNamed
<1>. DEFINE all == Collected(asked)
<1>1. ASSUME answer # Pending, NEW x \in answer.warnings, NEW y \in answer.warnings, x.code = y.code
      PROVE  x = y
  <2>1. answer.warnings = Warnings(asked)
    BY Zenon, <1>1 DEF StatusInv
  <2>2. PICK i \in DOMAIN all, j \in DOMAIN all :
            x = Warning(all[i].code, PathsOf(all, i)) /\ y = Warning(all[j].code, PathsOf(all, j))
    BY Zenon, <1>1, <2>1 DEF Warnings
  <2>3. all[i].code = all[j].code
    BY <1>1, <2>2 DEF Warning
  <2>4. PathsOf(all, i) = PathsOf(all, j)
    BY Zenon, <2>3 DEF PathsOf
  <2>. QED BY Zenon, <2>2, <2>3, <2>4
<1>2. ASSUME answer # Pending, answer.live, NEW p \in Paths, answer.state[p] = "unverified"
      PROVE  \E x \in answer.warnings : x.code = "base_repair_skipped" /\ p \in x.paths
  <2>. DEFINE stale == In(asked, {"unverified"})
              one   == IF Ensured(asked) /\ asked.ensure = "skips" THEN <<Warning("base_repair_skipped", {})>> ELSE << >>
              three == IF Colliding(asked) # {} THEN <<Warning("case_collision", Colliding(asked))>> ELSE << >>
              w     == Warning("base_repair_skipped", stale)
  <2>1. Live(asked) /\ p \in stale /\ answer.warnings = Warnings(asked)
    BY <1>2 DEF StatusInv, In
  <2>2. all = one \o <<w>> \o three
    BY <2>1 DEF Collected
  <2>3. \E i \in DOMAIN all : all[i] = w
    <3>. HIDE DEF w, all
    <3>1. one = << >> \/ one = <<Warning("base_repair_skipped", {})>>
      BY Zenon
    <3>2. three = << >> \/ three = <<Warning("case_collision", Colliding(asked))>>
      BY Zenon
    <3>. HIDE DEF one, three
    <3>3. Len(one) + 1 \in DOMAIN all /\ all[Len(one) + 1] = w
      BY <2>2, <3>1, <3>2
    <3>. QED BY <3>3
  <2>4. PICK i \in DOMAIN all : all[i] = w
    BY <2>3
  <2>5. Warning(all[i].code, PathsOf(all, i)) \in answer.warnings
    BY Zenon, <2>1 DEF Warnings
  <2>6. p \in PathsOf(all, i)
    <3>1. w.paths = stale
      BY DEF Warning
    <3>2. i \in {k \in DOMAIN all : all[k].code = all[i].code}
      OBVIOUS
    <3>. QED BY Zenon, <2>1, <2>4, <3>1, <3>2 DEF PathsOf
  <2>7. all[i].code = "base_repair_skipped"
    BY <2>4 DEF Warning
  <2>8. Warning(all[i].code, PathsOf(all, i)).code = "base_repair_skipped"
        /\ Warning(all[i].code, PathsOf(all, i)).paths = PathsOf(all, i)
    BY <2>7 DEF Warning
  <2>. QED BY Zenon, <2>5, <2>6, <2>8
<1>. QED BY Zenon, <1>1, <1>2 DEF UnverifiedNamed, Given

LEMMA BlocksAreRight == ASSUME StatusInv PROVE BlocksWhatPushSends
<1>. DEFINE sends(p) ==
               LET x == On(p)
                   there == asked.listing = "live" /\ x.listed # 0
               IN  /\ x.file.kind = "valid"
                   /\ IF ~there THEN TRUE
                      ELSE /\ x.base.kind = "valid" \/ (x.base.kind = "stale" /\ asked.ensure = "fixes")
                           /\ x.base.sha = x.listed /\ x.file.hash # Text[x.listed]
                           /\ x.side \in {0, x.listed}
<1> SUFFICES ASSUME answer # Pending, answer.live
             PROVE  answer.blocks = (asked.fresh /\ ~asked.bypass /\ \E p \in Knowledge : sends(p))
  BY Zenon DEF BlocksWhatPushSends, Given
<1>1. Question /\ Live(asked) /\ answer.blocks = BlocksPush(asked)
  BY Zenon DEF StatusInv
<1>2. ASSUME NEW p \in Paths
      PROVE  sends(p) <=> StateOf(asked, p) \in {"modified", "new"} /\ On(p).file.kind = "valid"
  <2>. DEFINE x == On(p)  b == Base(asked, p)  r == Remote(asked, p)
              there == asked.listing = "live" /\ x.listed # 0
  <2>1. /\ r.kind = (IF there THEN "present" ELSE "absent") /\ (there => r.sha = x.listed)
        /\ b.kind = (IF x.base.kind = "stale" /\ Ensured(asked) /\ asked.ensure = "fixes" THEN "valid" ELSE x.base.kind)
        /\ b.sha = x.base.sha /\ b.kind \in {"none", "stale", "valid"}
        /\ (x.base.kind = "none" => x.base.sha = 0)
    BY <1>1, RemoteIs, RecordIs, PageIs
  <2>2. Ensured(asked) <=> asked.listing = "live"
    BY Zenon, <1>1, LiveIs
  <2>3. x.file.kind = "valid" =>
            /\ b.kind = "none" => StateOf(asked, p) = IF r.kind = "present" THEN "conflict" ELSE "new"
            /\ b.kind = "stale" => StateOf(asked, p) = IF r.kind = "absent" THEN "new" ELSE "unverified"
            /\ b.kind = "valid" =>
                  StateOf(asked, p) =
                     IF r.kind = "absent" THEN "new"
                     ELSE IF x.file.hash = Text[b.sha]
                          THEN IF r.kind = "present" /\ b.kind # "none" /\ r.sha # b.sha THEN "incoming" ELSE "unchanged"
                     ELSE IF (r.kind = "present" /\ b.kind # "none" /\ r.sha # b.sha) \/ x.side \notin {0, b.sha}
                          THEN "conflict" ELSE "modified"
    BY <1>1, StateIs
  <2>4. sends(p) <=> /\ x.file.kind = "valid"
                     /\ there => /\ x.base.kind = "valid" \/ (x.base.kind = "stale" /\ asked.ensure = "fixes")
                                 /\ x.base.sha = x.listed /\ x.file.hash # Text[x.listed]
                                 /\ x.side \in {0, x.listed}
    OBVIOUS
  <2>5. there => asked.listing = "live"
    OBVIOUS
  <2>. HIDE DEF sends, x, b, r, there
  <2>6. CASE ~there
    BY <2>1, <2>3, <2>4, <2>6 DEF x
  <2>7. CASE there
    BY <2>1, <2>2, <2>3, <2>4, <2>5, <2>7 DEF x
  <2>. QED BY <2>6, <2>7
<1>3. Knowledge \subseteq Paths
  BY StatusAssumption
<1>. HIDE DEF sends
<1>4. GuardRequires(asked, Batch(asked)) <=>
          asked.fresh /\ \E p \in Knowledge : sends(p)
  <2>1. Batch(asked) = {p \in Paths : StateOf(asked, p) \in {"modified", "new"}}
    BY Zenon DEF Batch, In
  <2>2. \A p \in Paths : asked.page[p].file.kind = "valid" <=> On(p).file.kind = "valid"
    BY Zenon DEF On
  <2>. QED BY Zenon, <1>2, <1>3, <2>1, <2>2 DEF GuardRequires
<1>. QED BY Zenon, <1>1, <1>4 DEF BlocksPush

(* StatusTruthful, for every set of pages, every file, record, sidecar and *)
(* listed version of each, every answer of the server and every outcome of *)
(* the repair (Status, statusGuardBlocks).                                 *)
THEOREM StatusIsTruthful == StatusSpec => []StatusTruthful
<1>1. Question /\ answer = Pending => StatusInv
  BY Zenon DEF StatusInv
<1>2. StatusInv /\ [AnswerStatus]_<<asked, answer>> => StatusInv'
  BY StatusStep
<1>3. StatusInv => StatusTruthful
  BY EqualIfUnchanged, EditsAreShown, FailuresAreNamed, UnverifiedAreNamed, BlocksAreRight DEF StatusTruthful
<1>. QED BY <1>1, <1>2, <1>3, PTL DEF StatusSpec

(***************************************************************************)
(* The codes of failures (ErrorCheck)                                      *)
(***************************************************************************)

(* Any failure: a fact about the repository, asked for on any route, or    *)
(* any chain of errors.  An error of a code that has details carries those *)
(* of its code, or none.  The words are the strings: the ones the tables   *)
(* name are listed, as the provers take no string for a member of STRING.  *)
Words    == STRING \cup Codes \cup {NoCode, NoDetails, "future", "a", "b", "c", "d"}
Codings  == {x \in Words \X Words : x[1] \in Detailed => x[2] \in {NoDetails, x[1]}}
AnyLayer == {Plain, Transport} \cup {CLIError(a) : a \in Seq(Words)}
            \cup {Contract(x[1], x[2], a) : x \in Codings, a \in Seq(Words)}
            \cup {Coded(x[1], x[2], a) : x \in Codings, a \in Seq(Words)}

FactAsked ==
    \E f \in Facts, r \in Routes, c \in BOOLEAN :
        Meets(r, f, c) /\ asked = [table |-> "fact", fact |-> f, route |-> r, coded |-> c]
ChainAsked ==
    /\ asked.table = "chain" /\ asked.usage \in BOOLEAN
    /\ asked.chain \in Seq(AnyLayer) /\ asked.chain # << >>

ErrorSpec == (FactAsked \/ ChainAsked) /\ answer = Pending
             /\ [][AnswerFact \/ AnswerChain]_<<asked, answer>>

-----------------------------------------------------------------------------
(* Least numbers and layers *)

LEMMA LeastOf ==
    ASSUME NEW S, S # {}, S \subseteq Nat
    PROVE  \E x \in S : \A y \in S : x <= y
<1>. DEFINE R == OpToRel(<, Nat)
<1>1. IsWellFoundedOn(R, Nat)
  BY Zenon, NatLessThanWellFounded
<1>2. \A x, y \in Nat : x < y => <<x, y>> \in R
  BY DEF OpToRel
<1>. HIDE DEF R
<1>3. PICK x \in S : \A y \in S : <<y, x>> \notin R
  BY Zenon, <1>1, WFMin
<1>4. ASSUME NEW y \in S PROVE x <= y
  <2>1. x \in Nat /\ y \in Nat
    OBVIOUS
  <2>2. ~(y < x)
    BY Zenon, <1>2, <1>3, <2>1
  <2>. QED BY <2>1, <2>2
<1>. QED BY <1>4

LEMMA FirstIs ==
    ASSUME NEW S, S # {}, S \subseteq Nat
    PROVE  First(S) \in S /\ \A j \in S : First(S) <= j
<1>1. \E i \in S : \A j \in S : i <= j
  BY LeastOf
<1>. QED BY Zenon, <1>1 DEF First

LEMMA FirstMoved ==
    ASSUME NEW S, S # {}, S \subseteq Nat, NEW m \in Nat
    PROVE  First({i + m : i \in S}) = First(S) + m
<1>. DEFINE T == {i + m : i \in S}
<1>1. T # {} /\ T \subseteq Nat
  OBVIOUS
<1>2. First(S) + m \in T
  BY FirstIs
<1>3. PICK i \in S : First(T) = i + m
  <2>1. First(T) \in T
    BY Zenon, <1>1, FirstIs
  <2>. QED BY <2>1
<1>4. First(S) \in Nat /\ First(S) <= i /\ First(T) <= First(S) + m
  <2>1. \A j \in T : First(T) <= j
    BY Zenon, <1>1, FirstIs
  <2>. QED BY <1>2, <2>1, FirstIs
<1>. HIDE DEF T
<1>5. First(T) = First(S) + m
  BY <1>3, <1>4
<1>. QED BY <1>5 DEF T

LEMMA FirstOfOne == ASSUME NEW k \in Nat PROVE First({k}) = k
<1>1. First({k}) \in {k}
  BY Zenon, FirstIs
<1>. QED BY <1>1

LEMMA LayerIs ==
    ASSUME NEW x \in AnyLayer
    PROVE  /\ x.kind \in {"plain", "transport", "cli", "contract", "coded"}
           /\ x.kind \in {"cli", "contract", "coded"} => x.advice \in Seq(Words)
           /\ x.kind \in {"contract", "coded"} =>
                 (x.code \in Detailed => x.details \in {NoDetails, x.code})
<1>1. CASE x \in {Plain, Transport}
  BY <1>1 DEF Plain, Transport
<1>2. CASE \E a \in Seq(Words) : x = CLIError(a)
  BY <1>2 DEF CLIError
<1>3. ASSUME NEW y \in Codings, NEW a \in Seq(Words), x = Contract(y[1], y[2], a) \/ x = Coded(y[1], y[2], a)
      PROVE  /\ x.kind \in {"contract", "coded"} /\ x.advice \in Seq(Words)
             /\ x.code \in Detailed => x.details \in {NoDetails, x.code}
  <2>1. (y[1] \in Detailed => y[2] \in {NoDetails, y[1]})
    BY DEF Codings
  <2>2. x.kind \in {"contract", "coded"} /\ x.advice = a /\ x.code = y[1] /\ x.details = y[2]
    BY <1>3 DEF Contract, Coded
  <2>. QED BY <2>1, <2>2
<1>4. \/ x \in {Plain, Transport} \/ \E a \in Seq(Words) : x = CLIError(a)
      \/ \E y \in Codings, a \in Seq(Words) : x = Contract(y[1], y[2], a) \/ x = Coded(y[1], y[2], a)
  BY DEF AnyLayer
<1>. QED BY <1>1, <1>2, <1>3, <1>4

-----------------------------------------------------------------------------
(* mergeAdvice *)

Merging(q, f, n) == f = [m \in 0 .. n |->
    IF m = 0 THEN << >>
    ELSE IF q[m] = NoAdvice \/ \E i \in 1 .. Len(f[m - 1]) : f[m - 1][i] = q[m]
         THEN f[m - 1] ELSE Append(f[m - 1], q[m])]

Joins(old, a) == IF a = NoAdvice \/ \E i \in 1 .. Len(old) : old[i] = a THEN old ELSE Append(old, a)

LEMMA MergingAt ==
    ASSUME NEW q, NEW f, NEW n \in Nat
    PROVE  Merging(q, f, n) <=> /\ f = [m \in 0 .. n |-> f[m]] /\ f[0] = << >>
                                /\ \A m \in 1 .. n : f[m] = Joins(f[m - 1], q[m])
<1>. DEFINE g == [m \in 0 .. n |-> IF m = 0 THEN << >> ELSE Joins(f[m - 1], q[m])]
<1>1. Merging(q, f, n) <=> f = g
  BY Zenon DEF Merging, Joins
<1>2. g = [m \in 0 .. n |-> g[m]] /\ g[0] = << >> /\ \A m \in 1 .. n : g[m] = Joins(f[m - 1], q[m])
  OBVIOUS
<1>3. ASSUME f = [m \in 0 .. n |-> f[m]], f[0] = << >>, \A m \in 1 .. n : f[m] = Joins(f[m - 1], q[m])
      PROVE  f = g
  <2>1. ASSUME NEW m \in 0 .. n PROVE f[m] = g[m]
    <3>1. m = 0 \/ m \in 1 .. n
      OBVIOUS
    <3>2. g[m] = IF m = 0 THEN << >> ELSE Joins(f[m - 1], q[m])
      OBVIOUS
    <3>. HIDE DEF g
    <3>. QED BY <1>3, <3>1, <3>2
  <2>. HIDE DEF g
  <2>. QED BY <1>2, <1>3, <2>1
<1>. HIDE DEF g
<1>. QED BY <1>1, <1>2, <1>3

LEMMA MergingExists == ASSUME NEW q, NEW n \in Nat PROVE \E f : Merging(q, f, n)
<1>. DEFINE Bad == {m \in Nat : ~\E f : Merging(q, f, m)}
<1>1. 0 \notin Bad
  <2>. DEFINE f == [m \in 0 .. 0 |-> << >>]
  <2>1. f = [m \in 0 .. 0 |-> f[m]] /\ f[0] = << >> /\ 1 .. 0 = {}
    OBVIOUS
  <2>. HIDE DEF f
  <2>2. Merging(q, f, 0)
    BY <2>1, MergingAt
  <2>. QED BY <2>2
<1>2. ASSUME n \in Bad PROVE FALSE
  <2>1. PICK x \in Bad : \A y \in Bad : x <= y
    BY Zenon, <1>2, LeastOf
  <2>2. x - 1 \in Nat /\ x - 1 \notin Bad /\ x \in Nat
    BY <1>1, <2>1
  <2>3. PICK g : Merging(q, g, x - 1)
    BY <2>2
  <2>. DEFINE f == [m \in 0 .. x |-> IF m = x THEN Joins(g[x - 1], q[x]) ELSE g[m]]
  <2>4. /\ f = [m \in 0 .. x |-> f[m]] /\ f[x] = Joins(g[x - 1], q[x])
        /\ \A m \in 0 .. x - 1 : f[m] = g[m]
    BY <2>2
  <2>. HIDE DEF f
  <2>5. g[0] = << >> /\ \A m \in 1 .. x - 1 : g[m] = Joins(g[m - 1], q[m])
    BY <2>2, <2>3, MergingAt
  <2>6. f[0] = << >> /\ \A m \in 1 .. x : f[m] = Joins(f[m - 1], q[m])
    <3>1. ASSUME NEW m \in 1 .. x PROVE f[m] = Joins(f[m - 1], q[m])
      <4>1. CASE m = x
        <5>1. f[x - 1] = g[x - 1]
          BY <2>2, <2>4
        <5>. QED BY Zenon, <2>4, <4>1, <5>1
      <4>2. CASE m # x
        <5>1. m \in 1 .. x - 1 /\ m \in 0 .. x - 1 /\ m - 1 \in 0 .. x - 1
          BY <2>2, <4>2
        <5>. QED BY <2>4, <2>5, <5>1
      <4>. QED BY <4>1, <4>2
    <3>. QED BY <2>2, <2>4, <2>5, <3>1
  <2>7. Merging(q, f, x)
    BY <2>2, <2>4, <2>6, MergingAt
  <2>. QED BY <2>1, <2>7
<1>. QED BY <1>2

(* Merged advice is the advice, but for what is empty, each once.          *)
LEMMA MergedIs ==
    ASSUME NEW T, NEW q \in Seq(T)
    PROVE  /\ Merged(q) \in Seq(T)
           /\ \A i, j \in DOMAIN Merged(q) : Merged(q)[i] = Merged(q)[j] => i = j
           /\ \A k \in DOMAIN q : q[k] # NoAdvice => \E i \in DOMAIN Merged(q) : Merged(q)[i] = q[k]
<1>. DEFINE OK(p, n) == /\ p \in Seq(T)
                        /\ \A i, j \in DOMAIN p : p[i] = p[j] => i = j
                        /\ \A k \in 1 .. n : q[k] # NoAdvice => \E i \in DOMAIN p : p[i] = q[k]
<1>0. Len(q) \in Nat
  OBVIOUS
<1>1. PICK f : Merging(q, f, Len(q)) /\ Merged(q) = f[Len(q)]
  <2>1. \E f : Merging(q, f, Len(q))
    BY <1>0, MergingExists
  <2>. QED BY Zenon, <2>1 DEF Merged, Merging
<1>2. f[0] = << >> /\ \A m \in 1 .. Len(q) : f[m] = Joins(f[m - 1], q[m])
  BY <1>0, <1>1, MergingAt
<1>. DEFINE Bad == {m \in 0 .. Len(q) : ~OK(f[m], m)}
<1>3. 0 \notin Bad
  <2>1. << >> \in Seq(T) /\ DOMAIN << >> = {} /\ 1 .. 0 = {}
    OBVIOUS
  <2>2. OK(<< >>, 0)
    BY <2>1
  <2>. QED BY Zenon, <1>2, <2>2
<1>4. ASSUME Bad # {} PROVE FALSE
  <2>1. PICK x \in Bad : \A y \in Bad : x <= y
    <3>1. Bad \subseteq Nat
      OBVIOUS
    <3>. QED BY Zenon, <1>4, <3>1, LeastOf
  <2>2. x \in 1 .. Len(q) /\ x - 1 \in 0 .. Len(q) /\ x - 1 \notin Bad
    <3>1. x \in 0 .. Len(q) /\ x # 0
      BY Zenon, <1>3, <2>1
    <3>. HIDE DEF Bad
    <3>2. ~(x <= x - 1) /\ x \in 1 .. Len(q) /\ x - 1 \in 0 .. Len(q)
      BY <1>0, <3>1
    <3>. QED BY Zenon, <2>1, <3>2
  <2>. DEFINE p == f[x - 1]  a == q[x]
  <2>3. OK(p, x - 1)
    BY <2>2
  <2>4. f[x] = Joins(p, a) /\ a \in T
    BY <1>2, <2>2
  <2>5. \A k \in 1 .. x : k = x \/ k \in 1 .. x - 1
    BY <2>2
  <2>. HIDE DEF p
  <2>6. CASE a = NoAdvice \/ \E i \in 1 .. Len(p) : p[i] = a
    <3>1. f[x] = p
      BY <2>4, <2>6 DEF Joins
    <3>2. OK(p, x)
      BY <2>3, <2>5, <2>6
    <3>. QED BY <2>1, <3>1, <3>2
  <2>7. CASE a # NoAdvice /\ \A i \in 1 .. Len(p) : p[i] # a
    <3>. DEFINE r == Append(p, a)
    <3>1. f[x] = r
      BY <2>4, <2>7 DEF Joins
    <3>2. /\ r \in Seq(T) /\ r[Len(p) + 1] = a /\ Len(p) + 1 \in DOMAIN r
          /\ \A i \in DOMAIN p : i \in DOMAIN r /\ r[i] = p[i]
          /\ \A i \in DOMAIN r : i = Len(p) + 1 \/ i \in DOMAIN p
      BY <2>3, <2>4
    <3>. HIDE DEF r
    <3>3. \A i \in DOMAIN p : p[i] # a
      BY <2>3, <2>7
    <3>4. \A i, j \in DOMAIN r : r[i] = r[j] => i = j
      <4>. TAKE i \in DOMAIN r, j \in DOMAIN r
      <4>. HAVE r[i] = r[j]
      <4>1. i = Len(p) + 1 <=> j = Len(p) + 1
        BY <3>2, <3>3
      <4>. QED BY <2>3, <3>2, <4>1
    <3>5. \A k \in 1 .. x : q[k] # NoAdvice => \E i \in DOMAIN r : r[i] = q[k]
      BY <2>3, <2>5, <3>2
    <3>6. OK(r, x)
      BY <3>2, <3>4, <3>5
    <3>. QED BY <2>1, <3>1, <3>6
  <2>. QED BY <2>6, <2>7
<1>5. OK(f[Len(q)], Len(q))
  <2>1. Len(q) \in 0 .. Len(q) /\ Len(q) \notin Bad
    BY <1>0, <1>4
  <2>. QED BY <2>1
<1>. QED BY <1>0, <1>1, <1>5

-----------------------------------------------------------------------------
(* ToContractError *)

Stable(code) == IF KnownCode(code) THEN code ELSE "internal"
Payload(x)   == IF Stable(x.code) \in Detailed THEN x.details ELSE NoDetails

Source1(chain) == chain[First(Contracts(chain))]
Source2(chain) == chain[First(FirstCoded(chain))]

LEMMA KindsIn ==
    ASSUME NEW chain \in Seq(AnyLayer), NEW k
    PROVE  Kinds(chain, k) \subseteq Nat /\ Kinds(chain, k) \subseteq 1 .. Len(chain)
BY DEF Kinds

LEMMA CodeTable ==
    /\ "internal" \in Codes /\ "network" \in Codes /\ "usage" \in Codes /\ "internal" \notin Detailed
    /\ {"server_error", "invalid_path", "auth_rejected", "quota_exceeded", "forbidden",
        "server_unsupported", "rate_limited", "page_not_found", "repo_not_found", "sha_not_found"} \subseteq Codes
    /\ \A c \in Codes : Retryable(c) <=> ExitOf[c] \in {7, 12}
BY DEF Codes, ExitOf, Detailed, Retryable

LEMMA StableIs == \A code : Stable(code) \in Codes /\ (Stable(code) \in Detailed => Stable(code) = code)
BY CodeTable DEF Stable, KnownCode

(* The contract error nearest the surface decides, or else the first code  *)
(* hook with a code, or else the kind of the failure.                      *)
LEMMA CodeIs ==
    ASSUME NEW chain \in Seq(AnyLayer), NEW usage \in BOOLEAN
    PROVE  LET e == ToContractError(chain, usage) IN
           /\ Contracts(chain) # {} => e.code = Stable(Source1(chain).code) /\ e.details = Payload(Source1(chain))
           /\ Contracts(chain) = {} /\ FirstCoded(chain) # {} =>
                 e.code = Stable(Source2(chain).code) /\ e.details = Payload(Source2(chain))
           /\ Contracts(chain) = {} /\ FirstCoded(chain) = {} =>
                 /\ e.code = IF Kinds(chain, "transport") # {} THEN "network"
                             ELSE IF usage THEN "usage" ELSE "internal"
                 /\ e.details = NoDetails
<1>. DEFINE at   == CodeSource(chain)
            src  == chain[First(at)]
            raw  == IF at # {} THEN src.code
                    ELSE IF Kinds(chain, "transport") # {} THEN "network"
                    ELSE IF usage THEN "usage" ELSE "internal"
            e    == ToContractError(chain, usage)
<1>1. e.code = Stable(raw) /\ e.details = IF at # {} /\ Stable(raw) \in Detailed THEN src.details ELSE NoDetails
  BY DEF ToContractError, Stable
<1>2. /\ Contracts(chain) \subseteq Nat /\ FirstCoded(chain) \subseteq Nat
  BY KindsIn DEF Contracts, FirstCoded
<1>. HIDE DEF e
<1>3. ASSUME Contracts(chain) # {}
      PROVE  e.code = Stable(Source1(chain).code) /\ e.details = Payload(Source1(chain))
  <2>1. at = {First(Contracts(chain))} /\ First(Contracts(chain)) \in Nat
    BY Zenon, <1>2, <1>3, FirstIs DEF CodeSource
  <2>2. at # {} /\ src = Source1(chain)
    BY Zenon, <2>1, FirstOfOne DEF Source1
  <2>3. raw = Source1(chain).code
    BY Zenon, <2>2
  <2>. HIDE DEF at, src, raw
  <2>. QED BY <1>1, <2>2, <2>3 DEF Payload
<1>4. ASSUME Contracts(chain) = {}, FirstCoded(chain) # {}
      PROVE  e.code = Stable(Source2(chain).code) /\ e.details = Payload(Source2(chain))
  <2>1. at = {First(FirstCoded(chain))} /\ First(FirstCoded(chain)) \in Nat
    BY Zenon, <1>2, <1>4, FirstIs DEF CodeSource
  <2>2. at # {} /\ src = Source2(chain)
    BY Zenon, <2>1, FirstOfOne DEF Source2
  <2>3. raw = Source2(chain).code
    BY Zenon, <2>2
  <2>. HIDE DEF at, src, raw
  <2>. QED BY <1>1, <2>2, <2>3 DEF Payload
<1>5. ASSUME Contracts(chain) = {}, FirstCoded(chain) = {}
      PROVE  /\ e.code = IF Kinds(chain, "transport") # {} THEN "network"
                         ELSE IF usage THEN "usage" ELSE "internal"
             /\ e.details = NoDetails
  <2>1. at = {}
    BY Zenon, <1>5 DEF CodeSource
  <2>2. raw \in {"network", "usage", "internal"}
        /\ raw = IF Kinds(chain, "transport") # {} THEN "network" ELSE IF usage THEN "usage" ELSE "internal"
    BY <2>1
  <2>. HIDE DEF raw
  <2>3. Stable(raw) = raw
    BY <2>2, CodeTable DEF Stable, KnownCode
  <2>. HIDE DEF at, src
  <2>. QED BY <1>1, <2>1, <2>2, <2>3
<1>. QED BY Zenon, <1>3, <1>4, <1>5 DEF e

Kept(chain) == LET e == ToContractError(chain, FALSE) IN <<e.code, e.details>>

(* Two chains with the same sources, one of them m layers deeper.          *)
LEMMA SameSources ==
    ASSUME NEW c \in Seq(AnyLayer), NEW d \in Seq(AnyLayer), NEW m \in Nat,
           \A k \in {"contract", "coded", "transport"} : Kinds(c, k) = {i + m : i \in Kinds(d, k)},
           \A i \in Kinds(d, "contract") \cup Kinds(d, "coded") : c[i + m] = d[i]
    PROVE  Kept(c) = Kept(d)
<1>1. Contracts(d) \subseteq Nat /\ FirstCoded(d) \subseteq Nat
  BY KindsIn DEF Contracts, FirstCoded
<1>2. Contracts(c) = {i + m : i \in Contracts(d)}
  BY DEF Contracts
<1>3. FirstCoded(c) = {i + m : i \in FirstCoded(d)}
  <2>1. Kinds(c, "coded") = {i + m : i \in Kinds(d, "coded")}
    OBVIOUS
  <2>2. \A i \in Kinds(d, "coded") : c[i + m].code = d[i].code
    OBVIOUS
  <2>. QED BY <2>1, <2>2 DEF FirstCoded
<1>4. CASE Contracts(d) # {}
  <2>1. Contracts(c) # {} /\ First(Contracts(c)) = First(Contracts(d)) + m
    BY <1>1, <1>2, <1>4, FirstMoved
  <2>2. First(Contracts(d)) \in Kinds(d, "contract")
    BY <1>1, <1>4, FirstIs DEF Contracts
  <2>3. Source1(c) = Source1(d)
    BY <2>1, <2>2 DEF Source1
  <2>. QED BY Zenon, <1>4, <2>1, <2>3, CodeIs DEF Kept
<1>5. CASE Contracts(d) = {} /\ FirstCoded(d) # {}
  <2>1. Contracts(c) = {} /\ FirstCoded(c) # {} /\ First(FirstCoded(c)) = First(FirstCoded(d)) + m
    BY <1>1, <1>2, <1>3, <1>5, FirstMoved
  <2>2. First(FirstCoded(d)) \in Kinds(d, "coded")
    BY <1>1, <1>5, FirstIs DEF FirstCoded
  <2>3. Source2(c) = Source2(d)
    BY <2>1, <2>2 DEF Source2
  <2>. QED BY Zenon, <1>5, <2>1, <2>3, CodeIs DEF Kept
<1>6. CASE Contracts(d) = {} /\ FirstCoded(d) = {}
  <2>1. Contracts(c) = {} /\ FirstCoded(c) = {} /\ (Kinds(c, "transport") # {} <=> Kinds(d, "transport") # {})
    BY <1>2, <1>3, <1>6
  <2>2. /\ ToContractError(c, FALSE).code = IF Kinds(c, "transport") # {} THEN "network" ELSE "internal"
        /\ ToContractError(d, FALSE).code = IF Kinds(d, "transport") # {} THEN "network" ELSE "internal"
        /\ ToContractError(c, FALSE).details = NoDetails /\ ToContractError(d, FALSE).details = NoDetails
    BY <1>6, <2>1, CodeIs
  <2>. QED BY <2>1, <2>2 DEF Kept
<1>. QED BY <1>4, <1>5, <1>6

-----------------------------------------------------------------------------
(* Chains *)

(* A layer of plain text or advice around a chain changes no code.         *)
LEMMA AroundKeeps ==
    ASSUME NEW chain \in Seq(AnyLayer), chain # << >>, Tail(chain) # << >>, chain[1].kind \in {"plain", "cli"}
    PROVE  Kept(chain) = Kept(Tail(chain))
<1>. DEFINE t == Tail(chain)
<1>1. /\ t \in Seq(AnyLayer) /\ Len(chain) = Len(t) + 1 /\ Len(t) \in Nat
      /\ \A i \in 1 .. Len(t) : t[i] = chain[i + 1]
  OBVIOUS
<1>. HIDE DEF t
<1>2. ASSUME NEW k \in {"contract", "coded", "transport"}
      PROVE  Kinds(chain, k) = {i + 1 : i \in Kinds(t, k)}
  <2>1. ASSUME NEW j \in Kinds(chain, k) PROVE j \in {i + 1 : i \in Kinds(t, k)}
    <3>1. j \in 1 .. Len(chain) /\ chain[j].kind = k /\ j # 1
      BY DEF Kinds
    <3>2. j - 1 \in 1 .. Len(t) /\ t[j - 1] = chain[j] /\ j = j - 1 + 1
      <4>1. j - 1 \in 1 .. Len(t) /\ j - 1 + 1 = j
        BY <1>1, <3>1
      <4>. QED BY <1>1, <4>1
    <3>. QED BY <3>1, <3>2 DEF Kinds
  <2>2. ASSUME NEW i \in Kinds(t, k) PROVE i + 1 \in Kinds(chain, k)
    BY <1>1 DEF Kinds
  <2>. QED BY <2>1, <2>2
<1>3. \A i \in Kinds(t, "contract") \cup Kinds(t, "coded") : chain[i + 1] = t[i]
  BY <1>1 DEF Kinds
<1>4. Kept(chain) = Kept(t)
  BY <1>1, <1>2, <1>3, SameSources
<1>. QED BY <1>4 DEF t

Distinct(advice)      == \A i, j \in DOMAIN advice : advice[i] = advice[j] => i = j
Within(advice, shown) == \A k \in DOMAIN advice : advice[k] # NoAdvice =>
                            \E i \in DOMAIN shown : shown[i] = advice[k]

(* What is shown of a chain's advice is all of the outermost CLIError's.   *)
LEMMA AdviceIs ==
    ASSUME NEW chain \in Seq(AnyLayer), NEW usage \in BOOLEAN
    PROVE  /\ Distinct(ToContractError(chain, usage).advice)
           /\ Kinds(chain, "cli") # {} =>
                Within(chain[First(Kinds(chain, "cli"))].advice, ToContractError(chain, usage).advice)
<1>. DEFINE cli   == Kinds(chain, "cli")
            src   == chain[First(CodeSource(chain))]
            outer == IF cli = {} THEN << >> ELSE chain[First(cli)].advice
            inner == IF CodeSource(chain) = {} THEN << >> ELSE src.advice
            shown == ToContractError(chain, usage).advice
<1>1. shown = Merged(outer \o inner)
  BY DEF ToContractError
<1>2. outer \in Seq(Words)
  <2>1. ASSUME cli # {} PROVE chain[First(cli)].advice \in Seq(Words)
    <3>1. First(cli) \in cli
      BY <2>1, FirstIs, KindsIn
    <3>2. chain[First(cli)] \in AnyLayer /\ chain[First(cli)].kind = "cli"
      BY <3>1 DEF Kinds
    <3>. QED BY <3>2, LayerIs
  <2>2. << >> \in Seq(Words)
    OBVIOUS
  <2>. QED BY Zenon, <2>1, <2>2
<1>3. inner \in Seq(Words)
  <2>1. ASSUME CodeSource(chain) # {} PROVE src.advice \in Seq(Words)
    <3>1. PICK k \in Contracts(chain) \cup FirstCoded(chain) : CodeSource(chain) = {k}
      <4>1. Contracts(chain) # {} => First(Contracts(chain)) \in Contracts(chain)
        BY FirstIs, KindsIn DEF Contracts
      <4>2. FirstCoded(chain) # {} => First(FirstCoded(chain)) \in FirstCoded(chain)
        BY FirstIs, KindsIn DEF FirstCoded
      <4>. QED BY Zenon, <2>1, <4>1, <4>2 DEF CodeSource
    <3>2. k \in 1 .. Len(chain) /\ chain[k].kind \in {"contract", "coded"} /\ First({k}) = k
      <4>1. k \in 1 .. Len(chain) /\ chain[k].kind \in {"contract", "coded"}
        BY <3>1 DEF Contracts, FirstCoded, Kinds
      <4>. QED BY <4>1, FirstOfOne
    <3>3. src = chain[k] /\ chain[k] \in AnyLayer
      BY <3>1, <3>2
    <3>. QED BY <3>2, <3>3, LayerIs
  <2>2. << >> \in Seq(Words)
    OBVIOUS
  <2>. QED BY Zenon, <2>1, <2>2
<1>. DEFINE all == outer \o inner
<1>4. all \in Seq(Words) /\ \A k \in DOMAIN outer : k \in DOMAIN all /\ all[k] = outer[k]
  <2>. HIDE DEF outer, inner
  <2>. QED BY <1>2, <1>3
<1>5. /\ \A i, j \in DOMAIN shown : shown[i] = shown[j] => i = j
      /\ \A k \in DOMAIN all : all[k] # NoAdvice => \E i \in DOMAIN shown : shown[i] = all[k]
  <2>. HIDE DEF all, shown
  <2>1. shown = Merged(all)
    BY <1>1 DEF all
  <2>. QED BY <1>4, <2>1, MergedIs
<1>. HIDE DEF all, shown
<1>6. ASSUME cli # {}, NEW k \in DOMAIN chain[First(cli)].advice, chain[First(cli)].advice[k] # NoAdvice
      PROVE  \E i \in DOMAIN shown : shown[i] = chain[First(cli)].advice[k]
  <2>1. outer = chain[First(cli)].advice
    BY <1>6
  <2>. HIDE DEF outer
  <2>. QED BY <1>4, <1>5, <1>6, <2>1
<1>. QED BY Zenon, <1>5, <1>6 DEF shown, Distinct, Within

LEMMA OneOf == ASSUME NEW T, NEW w \in T PROVE <<w>> \in Seq(T)
OBVIOUS

LEMMA OneMore == ASSUME NEW T, NEW w \in T, NEW a \in Seq(T) PROVE a \o <<w>> \in Seq(T)
OBVIOUS

LEMMA CLIErrorIs ==
    ASSUME NEW a \in Seq(Words)
    PROVE  CLIError(a) \in AnyLayer /\ CLIError(a).kind = "cli" /\ CLIError(a).advice = a
<1>1. CLIError(a) \in AnyLayer
  <2>1. CLIError(a) \in {CLIError(b) : b \in Seq(Words)}
    OBVIOUS
  <2>. QED BY <2>1 DEF AnyLayer
<1>. QED BY Zenon, <1>1 DEF CLIError

LEMMA NewAdvice == \A a, b : [CLIError(a) EXCEPT !.advice = b] = CLIError(b)
BY DEF CLIError

LEMMA OnlyCLIErrors ==
    ASSUME NEW x \in AnyLayer, x.kind = "cli"
    PROVE  \E a \in Seq(Words) : x = CLIError(a)
<1>1. x \notin {Plain, Transport}
  BY DEF Plain, Transport
<1>2. ASSUME NEW y \in Codings, NEW a \in Seq(Words), x = Contract(y[1], y[2], a) \/ x = Coded(y[1], y[2], a)
      PROVE  FALSE
  BY <1>2 DEF Contract, Coded
<1>3. \/ x \in {Plain, Transport} \/ \E a \in Seq(Words) : x = CLIError(a)
      \/ \E y \in Codings, a \in Seq(Words) : x = Contract(y[1], y[2], a) \/ x = Coded(y[1], y[2], a)
  BY DEF AnyLayer
<1>. QED BY Zenon, <1>1, <1>2, <1>3

LEMMA AdviceShown ==
    ASSUME NEW chain \in Seq(AnyLayer), NEW n, Kinds(chain, "cli") # {}, First(Kinds(chain, "cli")) = n
    PROVE  Within(chain[n].advice, ToContractError(chain, FALSE).advice)
BY Zenon, AdviceIs

(* Suggest keeps the code and shows its advice, wherever the CLIError is.  *)
LEMMA SuggestKeeps ==
    ASSUME NEW chain \in Seq(AnyLayer), chain # << >>, NEW w \in Words, w # NoAdvice
    PROVE  /\ Kept(Suggest(chain, <<w>>)) = Kept(chain)
           /\ \E i \in DOMAIN ToContractError(Suggest(chain, <<w>>), FALSE).advice :
                 ToContractError(Suggest(chain, <<w>>), FALSE).advice[i] = w
<1>. DEFINE cli == Kinds(chain, "cli")
            new == Suggest(chain, <<w>>)
<1>0. <<w>> \in Seq(Words)
  BY Zenon, OneOf
<1>1. CASE cli = {}
  <2>. DEFINE top == CLIError(<<w>>)
  <2>1. new = <<top>> \o chain
    BY Zenon, <1>1 DEF Suggest
  <2>2. top \in AnyLayer /\ top.kind = "cli" /\ top.advice = <<w>>
    BY Zenon, <1>0, CLIErrorIs
  <2>. HIDE DEF top, new
  <2>3. new \in Seq(AnyLayer) /\ new # << >> /\ new[1] = top /\ Tail(new) = chain /\ 1 \in 1 .. Len(new)
    BY <2>1, <2>2
  <2>4. Kept(new) = Kept(chain)
    BY <2>2, <2>3, AroundKeeps
  <2>5. Kinds(new, "cli") # {} /\ First(Kinds(new, "cli")) = 1
    <3>1. 1 \in Kinds(new, "cli") /\ \A i \in Kinds(new, "cli") : i >= 1 /\ i \in Nat
      BY <2>2, <2>3 DEF Kinds
    <3>2. First(Kinds(new, "cli")) \in Kinds(new, "cli") /\ First(Kinds(new, "cli")) <= 1
      BY <3>1, FirstIs
    <3>. QED BY <3>1, <3>2
  <2>6. new[1].advice[1] = w /\ 1 \in DOMAIN new[1].advice
    BY <2>2, <2>3
  <2>7. \E i \in DOMAIN ToContractError(new, FALSE).advice : ToContractError(new, FALSE).advice[i] = w
    <3>1. Within(new[1].advice, ToContractError(new, FALSE).advice)
      BY Zenon, <2>3, <2>5, AdviceShown
    <3>. QED BY Zenon, <2>6, <3>1 DEF Within
  <2>. QED BY Zenon, <2>4, <2>7 DEF new
<1>2. CASE cli # {}
  <2>. DEFINE n == First(cli)
  <2>1. n \in 1 .. Len(chain) /\ chain[n].kind = "cli" /\ chain[n] \in AnyLayer /\ \A i \in cli : n <= i
    <3>1. n \in cli /\ \A i \in cli : n <= i
      BY <1>2, FirstIs, KindsIn
    <3>. QED BY <3>1 DEF Kinds
  <2>2. PICK a \in Seq(Words) : chain[n] = CLIError(a)
    BY Zenon, <2>1, OnlyCLIErrors
  <2>. DEFINE top == [chain[n] EXCEPT !.advice = @ \o <<w>>]
  <2>5. new = [chain EXCEPT ![n] = top]
    BY <1>2 DEF Suggest
  <2>. HIDE DEF n, new, cli
  <2>3. top = CLIError(a \o <<w>>) /\ a \o <<w>> \in Seq(Words)
    <3>1. top = [CLIError(a) EXCEPT !.advice = CLIError(a).advice \o <<w>>]
      BY Zenon, <2>2
    <3>2. top = CLIError(CLIError(a).advice \o <<w>>)
      BY Zenon, <3>1, NewAdvice
    <3>3. CLIError(a).advice = a
      BY Zenon, CLIErrorIs
    <3>. QED BY Zenon, <3>2, <3>3, OneMore
  <2>. HIDE DEF top
  <2>4. top \in AnyLayer /\ top.kind = "cli" /\ top.advice = a \o <<w>>
    BY Zenon, <2>3, CLIErrorIs
  <2>6. /\ new \in Seq(AnyLayer) /\ Len(new) = Len(chain) /\ new[n] = top
        /\ \A i \in 1 .. Len(chain) : i # n => new[i] = chain[i]
    BY <2>1, <2>4, <2>5
  <2>7. \A k : Kinds(new, k) = Kinds(chain, k)
    <3>1. \A i \in 1 .. Len(chain) : new[i].kind = chain[i].kind
      BY <2>1, <2>4, <2>6
    <3>. QED BY <2>6, <3>1 DEF Kinds
  <2>8. Kept(new) = Kept(chain)
    <3>1. \A k \in {"contract", "coded", "transport"} : Kinds(new, k) = {i + 0 : i \in Kinds(chain, k)}
      <4>. TAKE k \in {"contract", "coded", "transport"}
      <4>1. Kinds(chain, k) \subseteq Nat /\ Kinds(new, k) = Kinds(chain, k)
        BY <2>7, KindsIn
      <4>. QED BY <4>1
    <3>2. \A i \in Kinds(chain, "contract") \cup Kinds(chain, "coded") : new[i + 0] = chain[i]
      BY <2>1, <2>6 DEF Kinds
    <3>. QED BY <2>6, <3>1, <3>2, SameSources
  <2>9. First(Kinds(new, "cli")) = n /\ Kinds(new, "cli") # {}
    BY Zenon, <1>2, <2>7 DEF n, cli
  <2>10. Len(a) + 1 \in DOMAIN new[n].advice /\ new[n].advice[Len(a) + 1] = w
    BY <2>4, <2>6
  <2>11. \E i \in DOMAIN ToContractError(new, FALSE).advice : ToContractError(new, FALSE).advice[i] = w
    <3>1. Within(new[n].advice, ToContractError(new, FALSE).advice)
      BY Zenon, <2>6, <2>9, AdviceShown
    <3>. QED BY Zenon, <2>10, <3>1 DEF Within
  <2>. QED BY Zenon, <2>8, <2>11 DEF new
<1>. QED BY <1>1, <1>2

(* The envelope of any chain is consistent.                                *)
Consistent(e) ==
    /\ e.code \in Codes /\ e.exit = ExitOf[e.code]
    /\ e.details \in {NoDetails, e.code}
    /\ \A i, j \in DOMAIN e.advice : e.advice[i] = e.advice[j] => i = j
    /\ \A c \in Codes : ExitOf[c] = e.exit => Retryable(c) = e.retryable

LEMMA EnvelopeIs ==
    ASSUME NEW chain \in Seq(AnyLayer), NEW usage \in BOOLEAN
    PROVE  Consistent(Envelope(ToContractError(chain, usage)))
<1>. DEFINE t == ToContractError(chain, usage)
            e == Envelope(t)
<1>1. t.code \in Codes /\ t.details \in {NoDetails, t.code}
  <2>1. ASSUME NEW k \in Kinds(chain, "contract") \cup Kinds(chain, "coded"),
               t.code = Stable(chain[k].code), t.details = Payload(chain[k])
        PROVE  t.code \in Codes /\ t.details \in {NoDetails, t.code}
    <3>1. chain[k] \in AnyLayer /\ chain[k].kind \in {"contract", "coded"}
      BY DEF Kinds
    <3>2. chain[k].code \in Detailed => chain[k].details \in {NoDetails, chain[k].code}
      BY <3>1, LayerIs
    <3>3. Stable(chain[k].code) \in Codes /\ (Stable(chain[k].code) \in Detailed => Stable(chain[k].code) = chain[k].code)
      BY StableIs
    <3>. QED BY Zenon, <2>1, <3>2, <3>3 DEF Payload
  <2>2. CASE Contracts(chain) # {}
    <3>1. First(Contracts(chain)) \in Kinds(chain, "contract")
      BY <2>2, FirstIs, KindsIn DEF Contracts
    <3>. QED BY <2>1, <2>2, <3>1, CodeIs DEF Source1
  <2>3. CASE Contracts(chain) = {} /\ FirstCoded(chain) # {}
    <3>1. First(FirstCoded(chain)) \in Kinds(chain, "coded")
      BY <2>3, FirstIs, KindsIn DEF FirstCoded
    <3>. QED BY <2>1, <2>3, <3>1, CodeIs DEF Source2
  <2>4. CASE Contracts(chain) = {} /\ FirstCoded(chain) = {}
    <3>1. t.code \in {"network", "usage", "internal"} /\ t.details = NoDetails
      BY <2>4, CodeIs
    <3>. QED BY <3>1, CodeTable
  <2>. QED BY <2>2, <2>3, <2>4
<1>. HIDE DEF t
<1>2. /\ e.exit = ExitCodeFor(t.code) /\ e.retryable = Retryable(t.code) /\ e.code = t.code
      /\ e.details = t.details /\ e.advice = t.advice
  BY DEF Envelope
<1>. HIDE DEF e
<1>3. e.exit = ExitOf[e.code]
  BY <1>1, <1>2 DEF ExitCodeFor
<1>4. ASSUME NEW c \in Codes, ExitOf[c] = e.exit PROVE Retryable(c) = e.retryable
  <2>1. Retryable(c) <=> Retryable(e.code)
    BY Zenon, <1>1, <1>2, <1>3, <1>4, CodeTable
  <2>2. Retryable(c) \in BOOLEAN /\ Retryable(e.code) \in BOOLEAN
    BY DEF Retryable
  <2>3. Retryable(c) = Retryable(e.code)
    BY <2>1, <2>2
  <2>. QED BY Zenon, <1>2, <2>3
<1>5. \A i, j \in DOMAIN e.advice : e.advice[i] = e.advice[j] => i = j
  <2>1. Distinct(t.advice)
    BY Zenon, AdviceIs DEF t
  <2>2. Distinct(e.advice)
    BY Zenon, <1>2, <2>1
  <2>. QED BY Zenon, <2>2 DEF Distinct
<1>6. Consistent(e)
  BY <1>1, <1>2, <1>3, <1>4, <1>5 DEF Consistent
<1>. QED BY <1>6 DEF e, t

-----------------------------------------------------------------------------
(* Facts *)

FactPage(q) ==
    CASE q.fact \in {"no_route", "stranger", "over_quota", "broken", "proxy"} -> NoJSON
      [] OTHER -> CASE q.route = "head" -> ReadPage(q.fact, q.coded)
                    [] q.route = "at"   -> ReadPageAt(q.fact, q.coded)
                    [] q.route = "evolution" -> Evolution(q.fact)
FactRead(q)  == NewHTTPError(Guarded(q.fact, FactPage(q)), q.route = "at")
FactChain(q) == IF q.route = "at" THEN ShowAt(FactRead(q))
                ELSE <<Plain, Coded(FactRead(q).code, FactRead(q).details, << >>)>>

LEMMA BodyIs == \A e, c : Body(e, c).json = TRUE /\ Body(e, c).error = e /\ Body(e, c).code = c
BY DEF Body

LEMMA AnswerIs == \A s, b : HTTPAnswer(s, b).status = s /\ HTTPAnswer(s, b).body = b
BY DEF HTTPAnswer

LEMMA ReadingIs == \A c, d : Reading(c, d).code = c /\ Reading(c, d).details = d
BY DEF Reading

LEMMA NoJSONIs == NoJSON.json = FALSE
BY DEF NoJSON

LEMMA NoCodeIs == NoCode \notin Codes
BY Zenon DEF NoCode, Codes

LEMMA GuardedIs ==
    ASSUME NEW p
    PROVE  /\ Guarded("no_route", p) = HTTPAnswer(404, NoJSON)
           /\ Guarded("stranger", p).status = 403 /\ Guarded("over_quota", p).status = 402
           /\ Guarded("broken", p).status = 500 /\ Guarded("proxy", p).status = 502
           /\ \A f \in {"no_repo", "no_page", "bad_path", "no_sha"} : Guarded(f, p) = p
<1>1. \E b : Guarded("stranger", p) = HTTPAnswer(403, b)
  BY ZenonT(30) DEF Guarded
<1>2. \E b : Guarded("over_quota", p) = HTTPAnswer(402, b)
  BY ZenonT(30) DEF Guarded
<1>3. \E b : Guarded("broken", p) = HTTPAnswer(500, b)
  BY ZenonT(30) DEF Guarded
<1>4. Guarded("proxy", p) = HTTPAnswer(502, NoJSON) /\ Guarded("no_route", p) = HTTPAnswer(404, NoJSON)
  BY ZenonT(30) DEF Guarded
<1>5. \A f \in {"no_repo", "no_page", "bad_path", "no_sha"} : Guarded(f, p) = p
  BY ZenonT(30) DEF Guarded
<1>. QED BY <1>1, <1>2, <1>3, <1>4, <1>5, AnswerIs

(* A 404 of a server that has the route, about the repository or not.      *)
Gone(error, code)     == HTTPAnswer(404, Body(error, code))
RepoMissing(p, code)  == p.status = 404 /\ p.body.json = TRUE /\ p.body.error = "repo not found" /\ p.body.code = code
OtherMissing(p, code) == p.status = 404 /\ p.body.json = TRUE /\ p.body.error # "repo not found" /\ p.body.code = code

LEMMA SaysIs ==
    ASSUME NEW p, NEW error, NEW code, p = Gone(error, code)
    PROVE  /\ error = "repo not found" => RepoMissing(p, code)
           /\ error # "repo not found" => OtherMissing(p, code)
<1>1. p.status = 404 /\ p.body.json = TRUE /\ p.body.error = error /\ p.body.code = code
  BY AnswerIs, BodyIs DEF Gone
<1>. QED BY Zenon, <1>1 DEF RepoMissing, OtherMissing

LEMMA PageSays ==
    ASSUME NEW c \in BOOLEAN
    PROVE  /\ RepoMissing(ReadPage("no_repo", c), NoCode) \/ RepoMissing(ReadPage("no_repo", c), "repo_not_found")
           /\ \/ OtherMissing(ReadPage("no_page", c), NoCode)
              \/ OtherMissing(ReadPage("no_page", c), "page_not_found")
<1>1. c = TRUE \/ c = FALSE
  OBVIOUS
<1>2. /\ ReadPage("no_repo", TRUE) = Gone("repo not found", "repo_not_found")
      /\ ReadPage("no_repo", FALSE) = Gone("repo not found", NoCode)
  BY DEF ReadPage, WithCode, RepoGone, Gone
<1>3. /\ ReadPage("no_page", TRUE) = Gone("page not found", "page_not_found")
      /\ ReadPage("no_page", FALSE) = Gone("page not found", NoCode)
  BY DEF ReadPage, WithCode, Gone
<1>4. RepoMissing(ReadPage("no_repo", TRUE), "repo_not_found") /\ RepoMissing(ReadPage("no_repo", FALSE), NoCode)
  BY Zenon, <1>2, SaysIs
<1>5. OtherMissing(ReadPage("no_page", TRUE), "page_not_found") /\ OtherMissing(ReadPage("no_page", FALSE), NoCode)
  <2>1. "page not found" # "repo not found"
    OBVIOUS
  <2>2. OtherMissing(ReadPage("no_page", TRUE), "page_not_found")
    BY Zenon, <1>3, <2>1, SaysIs
  <2>3. OtherMissing(ReadPage("no_page", FALSE), NoCode)
    BY Zenon, <1>3, <2>1, SaysIs
  <2>. QED BY Zenon, <2>2, <2>3
<1>8. RepoMissing(ReadPage("no_repo", c), NoCode) \/ RepoMissing(ReadPage("no_repo", c), "repo_not_found")
  BY Zenon, <1>1, <1>4
<1>9. \/ OtherMissing(ReadPage("no_page", c), NoCode)
      \/ OtherMissing(ReadPage("no_page", c), "page_not_found")
  BY Zenon, <1>1, <1>5
<1>. QED BY Zenon, <1>8, <1>9

LEMMA BadPathSays == ASSUME NEW c \in BOOLEAN PROVE ReadPage("bad_path", c).status = 400
<1>1. \E b : ReadPage("bad_path", c) = HTTPAnswer(400, b)
  BY Zenon DEF ReadPage
<1>. QED BY <1>1, AnswerIs

LEMMA PageAtSays ==
    ASSUME NEW c \in BOOLEAN
    PROVE  /\ \A f \in {"no_repo", "bad_path"} : ReadPageAt(f, c) = ReadPage(f, c)
           /\ OtherMissing(ReadPageAt("no_page", c), NoCode) \/ OtherMissing(ReadPageAt("no_page", c), "sha_not_found")
           /\ c = TRUE => OtherMissing(ReadPageAt("no_sha", c), "sha_not_found")
<1>1. \A f \in {"no_repo", "bad_path"} : ReadPageAt(f, c) = ReadPage(f, c)
  BY DEF ReadPageAt
<1>2. /\ ReadPageAt("no_page", TRUE) = Gone("page not found at sha", "sha_not_found")
      /\ ReadPageAt("no_page", FALSE) = ReadPage("no_page", FALSE)
      /\ ReadPageAt("no_sha", TRUE) = Gone("sha not found", "sha_not_found")
  BY DEF ReadPageAt, Gone
<1>3. "page not found at sha" # "repo not found" /\ "sha not found" # "repo not found"
  OBVIOUS
<1>4. OtherMissing(ReadPageAt("no_page", TRUE), "sha_not_found") /\ OtherMissing(ReadPageAt("no_sha", TRUE), "sha_not_found")
  BY Zenon, <1>2, <1>3, SaysIs
<1>5. OtherMissing(ReadPageAt("no_page", FALSE), NoCode)
  <2>1. OtherMissing(ReadPage("no_page", FALSE), NoCode)
    <3>1. "page not found" # "repo not found"
      OBVIOUS
    <3>2. ReadPage("no_page", FALSE) = Gone("page not found", NoCode)
      BY DEF ReadPage, WithCode, Gone
    <3>. QED BY Zenon, <3>1, <3>2, SaysIs
  <2>. QED BY Zenon, <1>2, <2>1
<1>6. c = TRUE \/ c = FALSE
  OBVIOUS
<1>. QED BY Zenon, <1>1, <1>4, <1>5, <1>6

LEMMA EvolutionSays ==
    RepoMissing(Evolution("no_repo"), NoCode) /\ OtherMissing(Evolution("no_page"), NoCode)
<1>1. /\ Evolution("no_repo") = Gone("repo not found", NoCode)
      /\ Evolution("no_page") = Gone("path not present in repo", NoCode)
  BY DEF Evolution, Gone
<1>2. "path not present in repo" # "repo not found"
  OBVIOUS
<1>. QED BY Zenon, <1>1, <1>2, SaysIs

LEMMA ErrorIs ==
    ASSUME NEW a, NEW at
    PROVE  /\ a.status = 400 =>
                 NewHTTPError(a, at) = Reading(IF a.body.code = "invalid_path" THEN "invalid_path" ELSE "usage", NoDetails)
           /\ a.status = 402 => NewHTTPError(a, at) = Reading("quota_exceeded", "quota_exceeded")
           /\ a.status = 403 => NewHTTPError(a, at) = Reading("forbidden", NoDetails)
           /\ a.status = 404 =>
                 NewHTTPError(a, at) =
                    IF IsJSON(a.body) THEN Reading(Map404(a.body, at), NoDetails)
                    ELSE Reading("server_unsupported", IF at THEN "server_unsupported" ELSE NoDetails)
           /\ a.status \in {500, 502} => NewHTTPError(a, at) = Reading("server_error", NoDetails)
BY SMTT(30) DEF NewHTTPError

LEMMA MeaningIs ==
    ASSUME NEW f, NEW r
    PROVE  /\ f = "no_repo" => MeaningOf(f, r) = {"repo_not_found"}
           /\ f = "no_page" => MeaningOf(f, r) = (IF r = "at" THEN {"sha_not_found"} ELSE {"page_not_found"})
           /\ f = "no_sha" => MeaningOf(f, r) = {"sha_not_found"}
           /\ f = "bad_path" => MeaningOf(f, r) = {"invalid_path", "usage"}
           /\ f = "no_route" => MeaningOf(f, r) = {"server_unsupported"}
           /\ f = "stranger" => MeaningOf(f, r) = {"forbidden"}
           /\ f = "over_quota" => MeaningOf(f, r) = {"quota_exceeded"}
           /\ f \in {"broken", "proxy"} => MeaningOf(f, r) = {"server_error"}
BY DEF MeaningOf

LEMMA Map404Is ==
    ASSUME NEW a, NEW at \in BOOLEAN, NEW code
    PROVE  /\ RepoMissing(a, code) /\ code \in {NoCode, "repo_not_found"} => Map404(a.body, at) = "repo_not_found"
           /\ OtherMissing(a, code) /\ code \in {"page_not_found", "sha_not_found"} => Map404(a.body, at) = code
           /\ OtherMissing(a, NoCode) => Map404(a.body, at) = IF at THEN "sha_not_found" ELSE "page_not_found"
<1>. DEFINE named == a.body.code \in {"page_not_found", "repo_not_found", "sha_not_found"}
            gone  == a.body.error = "repo not found"
<1>1. NoCode \notin {"page_not_found", "repo_not_found", "sha_not_found"}
  BY NoCodeIs, CodeTable
<1>2. Map404(a.body, at) = IF named THEN a.body.code ELSE IF gone THEN "repo_not_found"
                           ELSE IF at THEN "sha_not_found" ELSE "page_not_found"
  BY Zenon DEF Map404
<1>3. /\ RepoMissing(a, code) => gone /\ a.body.code = code
      /\ OtherMissing(a, code) => ~gone /\ a.body.code = code
      /\ OtherMissing(a, NoCode) => ~gone /\ a.body.code = NoCode
  BY Zenon DEF RepoMissing, OtherMissing
<1>4. gone \in BOOLEAN
  OBVIOUS
<1>. HIDE DEF gone
<1>. QED BY <1>1, <1>2, <1>3, <1>4

LEMMA MissingIs ==
    ASSUME NEW a, NEW at \in BOOLEAN, NEW code, RepoMissing(a, code) \/ OtherMissing(a, code)
    PROVE  NewHTTPError(a, at).code = Map404(a.body, at) /\ NewHTTPError(a, at).details = NoDetails
<1>1. a.status = 404 /\ a.body.json = TRUE
  BY Zenon DEF RepoMissing, OtherMissing
<1>. QED BY <1>1, ErrorIs, ReadingIs DEF IsJSON

LEMMA RepoGoneIs ==
    ASSUME NEW a, NEW at \in BOOLEAN, RepoMissing(a, NoCode) \/ RepoMissing(a, "repo_not_found")
    PROVE  NewHTTPError(a, at).code = "repo_not_found" /\ NewHTTPError(a, at).details = NoDetails
BY MissingIs, Map404Is

LEMMA OtherGoneIs ==
    ASSUME NEW a, NEW at \in BOOLEAN,
           \/ OtherMissing(a, NoCode) \/ OtherMissing(a, IF at THEN "sha_not_found" ELSE "page_not_found")
    PROVE  /\ NewHTTPError(a, at).code = IF at THEN "sha_not_found" ELSE "page_not_found"
           /\ NewHTTPError(a, at).details = NoDetails
BY MissingIs, Map404Is

(* The code that is read from the answer is the fact's own.                *)
LEMMA ReadIs ==
    ASSUME NEW f \in Facts, NEW r \in Routes, NEW c \in BOOLEAN, Meets(r, f, c),
           NEW q, q.fact = f, q.route = r, q.coded = c
    PROVE  /\ FactRead(q).code \in MeaningOf(f, r)
           /\ FactRead(q).details \in {NoDetails, FactRead(q).code}
           /\ r = "head" => (PullPageGone(FactRead(q).code) <=> f = "no_page")
<1>. DEFINE x  == FactRead(q)
            a  == Guarded(f, FactPage(q))
            at == r = "at"
            OK == /\ x.code \in MeaningOf(f, r) /\ x.details \in {NoDetails, x.code}
                  /\ r = "head" => (PullPageGone(x.code) <=> f = "no_page")
<1>1. x = NewHTTPError(a, at) /\ at \in BOOLEAN
  BY Zenon DEF FactRead
<1>2. f \in {"no_repo", "no_page", "bad_path", "no_sha", "no_route", "stranger", "over_quota", "broken", "proxy"}
      /\ r \in {"head", "at", "evolution"}
  BY DEF Facts, Routes
<1>. HIDE DEF x, a, at
<1>3. ASSUME f = "stranger" PROVE OK
  <2>1. a.status = 403
    BY <1>3, AnswerIs, GuardedIs DEF a
  <2>2. x.code = "forbidden" /\ x.details = NoDetails
    BY <1>1, <2>1, ErrorIs, ReadingIs
  <2>3. MeaningOf(f, r) = {"forbidden"}
    BY <1>3, MeaningIs
  <2>. QED BY <1>3, <2>2, <2>3 DEF PullPageGone
<1>4. ASSUME f = "over_quota" PROVE OK
  <2>1. a.status = 402
    BY <1>4, AnswerIs, GuardedIs DEF a
  <2>2. x.code = "quota_exceeded" /\ x.details = "quota_exceeded"
    BY <1>1, <2>1, ErrorIs, ReadingIs
  <2>3. MeaningOf(f, r) = {"quota_exceeded"}
    BY <1>4, MeaningIs
  <2>. QED BY <1>4, <2>2, <2>3 DEF PullPageGone
<1>5. ASSUME f \in {"broken", "proxy"} PROVE OK
  <2>1. a.status \in {500, 502}
    BY <1>5, AnswerIs, GuardedIs DEF a
  <2>2. x.code = "server_error" /\ x.details = NoDetails
    BY <1>1, <2>1, ErrorIs, ReadingIs
  <2>3. MeaningOf(f, r) = {"server_error"}
    BY <1>5, MeaningIs
  <2>. QED BY <1>5, <2>2, <2>3 DEF PullPageGone
<1>6. ASSUME f = "no_route" PROVE OK
  <2>1. a.status = 404 /\ a.body.json = FALSE
    BY <1>6, AnswerIs, NoJSONIs, GuardedIs DEF a
  <2>2. x.code = "server_unsupported" /\ x.details = IF at THEN "server_unsupported" ELSE NoDetails
    BY <1>1, <2>1, ErrorIs, ReadingIs DEF IsJSON
  <2>3. MeaningOf(f, r) = {"server_unsupported"}
    BY <1>6, MeaningIs
  <2>. QED BY <1>6, <2>2, <2>3 DEF PullPageGone
<1>7. ASSUME f \in {"no_repo", "no_page", "bad_path", "no_sha"}
      PROVE  /\ r = "head" => a = ReadPage(f, c)
             /\ r = "at" => a = ReadPageAt(f, c)
             /\ r = "evolution" => a = Evolution(f)
  <2>1. a = FactPage(q)
    BY <1>7, GuardedIs DEF a
  <2>2. /\ r = "head" => FactPage(q) = ReadPage(f, c)
        /\ r = "at" => FactPage(q) = ReadPageAt(f, c)
        /\ r = "evolution" => FactPage(q) = Evolution(f)
    BY <1>7 DEF FactPage
  <2>. QED BY <2>1, <2>2
<1>8. ASSUME f = "bad_path" PROVE OK
  <2>1. r # "evolution"
    BY <1>8 DEF Meets
  <2>2. a = ReadPage("bad_path", c)
    BY <1>2, <1>7, <1>8, <2>1, PageAtSays
  <2>3. a.status = 400
    BY <2>2, BadPathSays
  <2>4. x.code = (IF a.body.code = "invalid_path" THEN "invalid_path" ELSE "usage") /\ x.details = NoDetails
    BY <1>1, <2>3, ErrorIs, ReadingIs
  <2>5. MeaningOf(f, r) = {"invalid_path", "usage"}
    BY <1>8, MeaningIs
  <2>. QED BY <1>8, <2>4, <2>5 DEF PullPageGone
<1>9. ASSUME f = "no_repo" PROVE OK
  <2>1. a = ReadPage("no_repo", c) \/ a = Evolution("no_repo")
    BY <1>2, <1>7, <1>9, PageAtSays
  <2>2. RepoMissing(a, NoCode) \/ RepoMissing(a, "repo_not_found")
    <3>1. RepoMissing(ReadPage("no_repo", c), NoCode) \/ RepoMissing(ReadPage("no_repo", c), "repo_not_found")
      BY Zenon, PageSays
    <3>. QED BY Zenon, <2>1, <3>1, EvolutionSays
  <2>3. x.code = "repo_not_found" /\ x.details = NoDetails
    BY <1>1, <2>2, RepoGoneIs
  <2>4. MeaningOf(f, r) = {"repo_not_found"}
    BY <1>9, MeaningIs
  <2>. QED BY <1>9, <2>3, <2>4 DEF PullPageGone
<1>10. ASSUME f \in {"no_page", "no_sha"} PROVE OK
  <2>1. f = "no_sha" => r = "at" /\ c = TRUE
    BY DEF Meets
  <2>2. OtherMissing(a, NoCode) \/ OtherMissing(a, IF at THEN "sha_not_found" ELSE "page_not_found")
    <3>1. CASE r = "head"
      <4>1. a = ReadPage("no_page", c) /\ ~at
        BY <1>7, <1>10, <2>1, <3>1 DEF at
      <4>2. OtherMissing(a, NoCode) \/ OtherMissing(a, "page_not_found")
        BY Zenon, <4>1, PageSays
      <4>. QED BY <4>1, <4>2
    <3>2. CASE r = "at"
      <4>1. at /\ a = ReadPageAt(f, c)
        BY <1>7, <1>10, <3>2 DEF at
      <4>2. CASE f = "no_page"
        <5>1. a = ReadPageAt("no_page", c)
          BY <4>1, <4>2
        <5>2. OtherMissing(a, NoCode) \/ OtherMissing(a, "sha_not_found")
          BY Zenon, <5>1, PageAtSays
        <5>. QED BY <4>1, <5>2
      <4>3. CASE f = "no_sha"
        <5>1. a = ReadPageAt("no_sha", c)
          BY <4>1, <4>3
        <5>2. OtherMissing(a, "sha_not_found")
          BY Zenon, <2>1, <4>3, <5>1, PageAtSays
        <5>. QED BY <4>1, <5>2
      <4>. QED BY <1>10, <4>2, <4>3
    <3>3. CASE r = "evolution"
      <4>1. a = Evolution("no_page")
        BY <1>7, <1>10, <2>1, <3>3
      <4>. QED BY <4>1, EvolutionSays
    <3>. QED BY <1>2, <3>1, <3>2, <3>3
  <2>3. x.code = IF at THEN "sha_not_found" ELSE "page_not_found"
    BY <1>1, <2>2, OtherGoneIs
  <2>4. x.details = NoDetails
    BY <1>1, <2>2, OtherGoneIs
  <2>5. MeaningOf(f, r) = IF at THEN {"sha_not_found"} ELSE {"page_not_found"}
    BY <1>10, <2>1, MeaningIs DEF at
  <2>6. ~at => f = "no_page"
    BY <1>10, <2>1 DEF at
  <2>7. r = "head" => ~at
    BY DEF at
  <2>. QED BY <1>10, <2>3, <2>4, <2>5, <2>6, <2>7 DEF PullPageGone
<1>11. OK
  <2>. HIDE DEF OK
  <2>. QED BY <1>2, <1>3, <1>4, <1>5, <1>6, <1>8, <1>9, <1>10
<1>. QED BY Zenon, <1>11 DEF x

(* A code the table has is the code of the chain it is wrapped in.         *)
LEMMA CodingIs ==
    ASSUME NEW code \in Words, NEW d \in Words, code \in Detailed => d \in {NoDetails, code}, NEW a \in Seq(Words)
    PROVE  Coded(code, d, a) \in AnyLayer /\ Contract(code, d, a) \in AnyLayer
<1>1. <<code, d>> \in Codings /\ <<code, d>>[1] = code /\ <<code, d>>[2] = d
  BY DEF Codings
<1>2. PICK x \in Codings : x[1] = code /\ x[2] = d
  BY <1>1
<1>3. /\ Coded(code, d, a) \in {Coded(y[1], y[2], b) : y \in Codings, b \in Seq(Words)}
      /\ Contract(code, d, a) \in {Contract(y[1], y[2], b) : y \in Codings, b \in Seq(Words)}
  BY <1>2
<1>. QED BY <1>3 DEF AnyLayer

LEMMA KnownWords == Codes \subseteq Words /\ NoDetails \in Words /\ NoCode \in Words
BY DEF Words

LEMMA NoWords == << >> \in Seq(Words)
OBVIOUS

LEMMA PlainChain ==
    ASSUME NEW code \in Codes, NEW d \in {NoDetails, code}
    PROVE  ToContractError(<<Plain, Coded(code, d, << >>)>>, FALSE).code = code
<1>. DEFINE inner == Coded(code, d, << >>)
            chain == <<Plain, inner>>
<1>1. inner \in AnyLayer /\ Plain \in AnyLayer
  <2>1. code \in Words /\ d \in Words
    BY KnownWords
  <2>2. inner \in AnyLayer
    BY Zenon, <2>1, NoWords, CodingIs
  <2>. HIDE DEF inner
  <2>. QED BY <2>2 DEF AnyLayer
<1>2. Plain.kind = "plain" /\ inner.kind = "coded" /\ inner.code = code /\ code # NoCode
  BY NoCodeIs DEF Plain, Coded
<1>. HIDE DEF inner
<1>3. chain \in Seq(AnyLayer) /\ Len(chain) = 2 /\ chain[1] = Plain /\ chain[2] = inner
  BY <1>1
<1>. HIDE DEF chain
<1>4. Kinds(chain, "contract") = {} /\ Kinds(chain, "coded") = {2}
  BY <1>2, <1>3 DEF Kinds
<1>5. Contracts(chain) = {} /\ FirstCoded(chain) = {2} /\ First({2}) = 2
  BY <1>2, <1>3, <1>4, FirstOfOne DEF Contracts, FirstCoded
<1>6. ToContractError(chain, FALSE).code = Stable(Source2(chain).code)
  BY <1>3, <1>5, CodeIs
<1>7. Source2(chain).code = code
  BY Zenon, <1>2, <1>3, <1>5 DEF Source2
<1>. QED BY <1>6, <1>7 DEF Stable, KnownCode, chain, inner

LEMMA ContractChain ==
    ASSUME NEW code \in Codes, NEW d \in {NoDetails, code}, NEW e \in {NoDetails, code}
    PROVE  ToContractError(<<Contract(code, d, << >>), Coded(code, e, << >>)>>, FALSE).code = code
<1>. DEFINE outer == Contract(code, d, << >>)
            inner == Coded(code, e, << >>)
            chain == <<outer, inner>>
<1>1. inner \in AnyLayer /\ outer \in AnyLayer
  <2>1. code \in Words /\ d \in Words /\ e \in Words
    BY KnownWords
  <2>. QED BY Zenon, <2>1, NoWords, CodingIs
<1>2. outer.kind = "contract" /\ outer.code = code /\ inner.kind = "coded"
  BY DEF Contract, Coded
<1>. HIDE DEF inner, outer
<1>3. chain \in Seq(AnyLayer) /\ Len(chain) = 2 /\ chain[1] = outer /\ chain[2] = inner
  BY <1>1
<1>. HIDE DEF chain
<1>4. Contracts(chain) = {1} /\ First({1}) = 1
  BY <1>2, <1>3, FirstOfOne DEF Contracts, Kinds
<1>5. ToContractError(chain, FALSE).code = Stable(Source1(chain).code)
  BY <1>3, <1>4, CodeIs
<1>6. Source1(chain).code = code
  BY Zenon, <1>2, <1>3, <1>4 DEF Source1
<1>. QED BY <1>5, <1>6 DEF Stable, KnownCode, chain, inner, outer

(* What the code of an answer is, the command shows.                       *)
LEMMA ShownIs ==
    ASSUME NEW q, FactRead(q).code \in Codes, FactRead(q).details \in {NoDetails, FactRead(q).code}
    PROVE  ToContractError(FactChain(q), FALSE).code = FactRead(q).code
<1>. DEFINE x == FactRead(q)
<1>1. ASSUME FactChain(q) = <<Plain, Coded(x.code, x.details, << >>)>>
      PROVE  ToContractError(FactChain(q), FALSE).code = x.code
  <2>1. ToContractError(<<Plain, Coded(x.code, x.details, << >>)>>, FALSE).code = x.code
    BY Zenon, PlainChain
  <2>. QED BY Zenon, <1>1, <2>1
<1>2. ASSUME NEW d \in {NoDetails, x.code},
             FactChain(q) = <<Contract(x.code, d, << >>), Coded(x.code, x.details, << >>)>>
      PROVE  ToContractError(FactChain(q), FALSE).code = x.code
  <2>1. ToContractError(<<Contract(x.code, d, << >>), Coded(x.code, x.details, << >>)>>, FALSE).code = x.code
    BY Zenon, ContractChain
  <2>. QED BY Zenon, <1>2, <2>1
<1>3. \/ FactChain(q) = <<Plain, Coded(x.code, x.details, << >>)>>
      \/ \E d \in {NoDetails, x.code} :
            FactChain(q) = <<Contract(x.code, d, << >>), Coded(x.code, x.details, << >>)>>
  BY DEF FactChain, ShowAt
<1>. QED BY Zenon, <1>1, <1>2, <1>3

-----------------------------------------------------------------------------
(* The invariant *)

FactAnswer  == [read |-> FactRead(asked), shown |-> Envelope(ToContractError(FactChain(asked), FALSE))]
ChainAnswer == [shown |-> Envelope(ToContractError(asked.chain, asked.usage))]

ErrorInv ==
    /\ FactAsked \/ ChainAsked
    /\ answer # Pending /\ asked.table = "fact" => answer = FactAnswer
    /\ answer # Pending /\ asked.table = "chain" => answer = ChainAnswer

(* The failures that are model-checked are among those of the theorem.     *)
LEMMA RunsFailures == ASSUME AskError PROVE FactAsked \/ ChainAsked
<1>1. Layers \subseteq AnyLayer
  <2>1. {<< >>, <<"a">>, <<"b", "a">>, <<"b", "b">>, <<"c">>} \subseteq Seq(Words)
    <3>1. "a" \in Words /\ "b" \in Words /\ "c" \in Words
      BY DEF Words
    <3>. QED BY <3>1
  <2>2. /\ {"busy", "stale", "usage", "forbidden", "quota_exceeded", "conflict", "future", NoCode, NoDetails} \subseteq Words
        /\ {"usage", "forbidden", "future"} \cap Detailed = {}
    BY DEF Words, Codes, Detailed
  <2>3. NoCode \notin Detailed
    <3>1. Detailed \subseteq Codes
      BY DEF Detailed, Codes
    <3>. QED BY <3>1, NoCodeIs
  <2>4. /\ Contract("busy", "busy", <<"a">>) \in AnyLayer
        /\ Contract("stale", "stale", << >>) \in AnyLayer
        /\ Contract("usage", NoDetails, <<"b", "b">>) \in AnyLayer
    BY <2>1, <2>2, CodingIs
  <2>5. /\ Coded(NoCode, NoDetails, << >>) \in AnyLayer
        /\ Coded("forbidden", NoDetails, <<"c">>) \in AnyLayer
        /\ Coded("quota_exceeded", "quota_exceeded", << >>) \in AnyLayer
        /\ Coded("future", "conflict", << >>) \in AnyLayer
    BY <2>1, <2>2, <2>3, CodingIs
  <2>6. CLIError(<<"a">>) \in AnyLayer /\ CLIError(<<"b", "a">>) \in AnyLayer
    BY <2>1, CLIErrorIs
  <2>7. Plain \in AnyLayer /\ Transport \in AnyLayer
    BY DEF AnyLayer
  <2>. QED BY Zenon, <2>4, <2>5, <2>6, <2>7 DEF Layers
<1>2. ASSUME NEW n \in 1 .. 4, NEW c \in [1 .. n -> Layers], NEW u \in BOOLEAN,
             asked = [table |-> "chain", chain |-> c, usage |-> u]
      PROVE  ChainAsked
  <2>1. asked.table = "chain" /\ asked.chain = c /\ asked.usage = u
    BY <1>2
  <2>2. c \in Seq(AnyLayer) /\ Len(c) = n
    BY <1>1
  <2>. QED BY <2>1, <2>2 DEF ChainAsked
<1>. QED BY Zenon, <1>2 DEF AskError, FactAsked

LEMMA ErrorStep == ErrorInv /\ [AnswerFact \/ AnswerChain]_<<asked, answer>> => ErrorInv'
<1> SUFFICES ASSUME ErrorInv, [AnswerFact \/ AnswerChain]_<<asked, answer>> PROVE ErrorInv'
  OBVIOUS
<1>1. asked' = asked
  BY Zenon DEF AnswerFact, AnswerChain, Answers
<1>2. (FactAsked \/ ChainAsked)'
  BY Zenon, <1>1 DEF ErrorInv, FactAsked, ChainAsked
<1>3. FactAnswer' = FactAnswer /\ ChainAnswer' = ChainAnswer
  BY Zenon, <1>1 DEF FactAnswer, ChainAnswer
<1>4. CASE AnswerFact
  <2>1. asked.table = "fact" /\ answer' = FactAnswer
    BY Zenon, <1>4 DEF AnswerFact, Asked, Answers, FactAnswer, FactChain, FactRead, FactPage
  <2>. QED BY Zenon, <1>1, <1>2, <1>3, <2>1 DEF ErrorInv
<1>5. CASE AnswerChain
  <2>1. asked.table = "chain" /\ answer' = ChainAnswer
    BY Zenon, <1>5 DEF AnswerChain, Asked, Answers, ChainAnswer
  <2>. QED BY Zenon, <1>1, <1>2, <1>3, <2>1 DEF ErrorInv
<1>6. CASE UNCHANGED <<asked, answer>>
  BY Zenon, <1>1, <1>2, <1>3, <1>6 DEF ErrorInv
<1>. QED BY Zenon, <1>4, <1>5, <1>6

LEMMA EnvelopeKeeps ==
    ASSUME NEW e
    PROVE  Envelope(e).code = e.code /\ Envelope(e).retryable = Retryable(e.code)
BY DEF Envelope

(* What each fact is read as and shown as.                                 *)
LEMMA FactsAreShown ==
    ASSUME ErrorInv, answer # Pending, asked.table = "fact"
    PROVE  /\ answer.shown.code \in MeaningOf(asked.fact, asked.route)
           /\ answer.shown.retryable => asked.fact \in {"broken", "proxy"}
           /\ asked.route = "head" => (PullPageGone(answer.read.code) <=> asked.fact = "no_page")
<1>. DEFINE x == FactRead(asked)
<1>1. FactAsked /\ answer = FactAnswer
  <2>1. asked.table # "chain"
    BY Zenon
  <2>. QED BY Zenon, <2>1 DEF ErrorInv, ChainAsked
<1>2. PICK f \in Facts, r \in Routes, c \in BOOLEAN :
          Meets(r, f, c) /\ asked = [table |-> "fact", fact |-> f, route |-> r, coded |-> c]
  BY Zenon, <1>1 DEF FactAsked
<1>3. asked.fact = f /\ asked.route = r /\ asked.coded = c
  BY <1>2
<1>4. /\ x.code \in MeaningOf(f, r) /\ x.details \in {NoDetails, x.code}
      /\ r = "head" => (PullPageGone(x.code) <=> f = "no_page")
  BY <1>2, <1>3, ReadIs
<1>5. x.code \in Codes /\ (Retryable(x.code) => f \in {"broken", "proxy"})
  <2>. HIDE DEF x
  <2>. QED BY <1>4, MeaningIs, CodeTable DEF Facts, Retryable
<1>6. ToContractError(FactChain(asked), FALSE).code = x.code
  BY Zenon, <1>4, <1>5, ShownIs
<1>7. answer.read = x /\ answer.shown = Envelope(ToContractError(FactChain(asked), FALSE))
  BY <1>1 DEF FactAnswer
<1>8. answer.shown.code = x.code /\ answer.shown.retryable = Retryable(x.code)
  BY Zenon, <1>6, <1>7, EnvelopeKeeps
<1>. QED BY Zenon, <1>3, <1>4, <1>5, <1>7, <1>8

LEMMA TailOfMore == ASSUME NEW T, NEW q \in Seq(T), Len(q) > 1 PROVE Tail(q) # << >>
<1>1. 1 \in DOMAIN Tail(q)
  OBVIOUS
<1>2. DOMAIN << >> = {}
  OBVIOUS
<1>. QED BY Zenon, <1>1, <1>2

LEMMA ChainsAreKept == ASSUME ErrorInv PROVE WrapKeepsCode
<1> SUFFICES ASSUME answer # Pending, asked.table = "chain"
             PROVE  /\ asked.chain[1].kind \in {"plain", "cli"} /\ Len(asked.chain) > 1 =>
                          Kept(asked.chain) = Kept(Tail(asked.chain))
                    /\ Kept(Suggest(asked.chain, <<"d">>)) = Kept(asked.chain)
                    /\ \E i \in DOMAIN ToContractError(Suggest(asked.chain, <<"d">>), FALSE).advice :
                          ToContractError(Suggest(asked.chain, <<"d">>), FALSE).advice[i] = "d"
  BY Zenon DEF WrapKeepsCode, Given, Asked, Kept
<1>1. asked.chain \in Seq(AnyLayer) /\ asked.chain # << >>
  BY DEF ErrorInv, ChainAsked, FactAsked
<1>2. "d" \in Words /\ "d" # NoAdvice
  <2>1. "d" \in Words
    BY DEF Words
  <2>2. "d" # NoAdvice
    BY Zenon DEF NoAdvice
  <2>. QED BY <2>1, <2>2
<1>3. /\ Kept(Suggest(asked.chain, <<"d">>)) = Kept(asked.chain)
      /\ \E i \in DOMAIN ToContractError(Suggest(asked.chain, <<"d">>), FALSE).advice :
            ToContractError(Suggest(asked.chain, <<"d">>), FALSE).advice[i] = "d"
  BY Zenon, <1>1, <1>2, SuggestKeeps
<1>4. ASSUME asked.chain[1].kind \in {"plain", "cli"}, Len(asked.chain) > 1
      PROVE  Kept(asked.chain) = Kept(Tail(asked.chain))
  <2>1. Tail(asked.chain) # << >>
    BY Zenon, <1>1, <1>4, TailOfMore
  <2>. QED BY Zenon, <1>1, <1>4, <2>1, AroundKeeps
<1>. QED BY Zenon, <1>3, <1>4

LEMMA EnvelopesAreSound == ASSUME ErrorInv PROVE EnvelopeSound
<1> SUFFICES ASSUME answer # Pending, asked.table = "chain"
             PROVE  Consistent(answer.shown)
  BY Zenon DEF EnvelopeSound, Given, Asked, Consistent
<1>1. ChainAsked /\ answer = ChainAnswer
  BY DEF ErrorInv, FactAsked
<1>2. asked.chain \in Seq(AnyLayer) /\ asked.usage \in BOOLEAN
  BY Zenon, <1>1 DEF ChainAsked
<1>3. answer.shown = Envelope(ToContractError(asked.chain, asked.usage))
  BY <1>1 DEF ChainAnswer
<1>. QED BY Zenon, <1>2, <1>3, EnvelopeIs

(* CodesSurvive, for every fact about a repository on every route, and for *)
(* every chain of errors however long, with any advice (map404,            *)
(* ToContractError, mergeAdvice, Suggest, RenderEnvelope).                 *)
THEOREM CodesAreKept == ErrorSpec => []CodesSurvive
<1>1. (FactAsked \/ ChainAsked) /\ answer = Pending => ErrorInv
  BY Zenon DEF ErrorInv
<1>2. ErrorInv /\ [AnswerFact \/ AnswerChain]_<<asked, answer>> => ErrorInv'
  BY ErrorStep
<1>3. ErrorInv => CodesSurvive
  <2>1. ErrorInv => AnswerUnderstood /\ OnlyGoneIsGone
    BY Zenon, FactsAreShown DEF AnswerUnderstood, OnlyGoneIsGone, Given, Asked
  <2>. QED BY Zenon, <2>1, ChainsAreKept, EnvelopesAreSound DEF CodesSurvive
<1>. QED BY <1>1, <1>2, <1>3, PTL DEF ErrorSpec
=============================================================================
