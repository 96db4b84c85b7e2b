-------------------------------- MODULE Desktop --------------------------------
(***************************************************************************)
(* The desktop application (internal/desktop), its page in the browser and *)
(* the privileged daemon (internal/daemon) between a click and its answer: *)
(* one handler per request loads gui-state.json, lets the daemon run the   *)
(* CLI or runs it itself, and saves the file.  What a CLI run does to the  *)
(* tunnel and inside a session is in other modules: here it starts, ends   *)
(* with an exit status or is killed, and leaves or removes the directory   *)
(* of an isolated session.                                                 *)
(***************************************************************************)
EXTENDS FiniteSets

CONSTANTS
    Tabs,        \* browser tabs that show the page
    Handlers,    \* slots for requests in progress (bounds their number)
    Recovery,    \* the slot of the recovery at startup
    Sessions,    \* identifiers newUUID can draw (bounds their number)
    Operations,  \* what the page may ask for
    None         \* no session, no request

Privileged == {"connect", "disconnect", "start", "stop", "cleanup", "recover"}
Unprivileged == {"diagnostics", "isolated-preflight"}

ASSUME DesktopAssumption ==
    /\ Operations \subseteq Privileged \cup Unprivileged \cup {"profile"}
    /\ Recovery \in Handlers
    /\ None \notin Sessions \cup Handlers \cup Privileged \cup Unprivileged
    /\ None \notin {"profile", "startup", "refresh"}
    /\ "refresh" \notin Handlers
    /\ "torn" \notin Sessions \cup {None}

VARIABLES
    file,       \* gui-state.json: a state, or Torn
    field,      \* per tab: the session identifier in its input
    waiting,    \* per tab: the request it waits for
    phase,      \* per handler: see Phases
    op,         \* per handler: the operation it was asked for
    mine,       \* per handler: the state it loaded and changed
    result,     \* per handler: OK of the response it will give
    cancelled,  \* handlers whose request the page has given up
    cli,        \* handlers with a CLI run of their own
    startup,    \* the application has started, its recovery has not
    drawn,      \* identifiers newUUID has drawn
    daemon,     \* the daemon runs
    child,      \* handlers with a CLI run made by the daemon for them
    gone,       \* handlers that have given up the daemon's answer
    dir,        \* per session: its directory under the runtime root
    saved,      \* observation: what the last complete save wrote
    mixed,      \* observation: handlers whose load-save span met another one
    crossed     \* observation: handlers whose run met another one

pageVars == <<field, waiting>>
memoryVars == <<op, mine, result>>
onceVars == <<startup, drawn>>
appVars == <<file, pageVars, phase, memoryVars, cancelled, cli, onceVars>>
daemonVars == <<daemon, child, gone>>
vars == <<appVars, daemonVars, dir, saved, mixed, crossed>>

State == [profile : BOOLEAN, session : Sessions \cup {None}]
Empty == [profile |-> FALSE, session |-> None]

\* A file that does not decode: no handler has this state.
Torn == [profile |-> FALSE, session |-> "torn"]

\* A handler calls the daemon, waits for its answer or for a run of its own, is
\* about to save, or has truncated the file.
Phases == {"free", "call", "wait", "cli", "save", "write"}

\* A session's directory is absent, without a usable record, or has one.
Directories == {"none", "bare", "whole"}

\* loadState: a file that is missing or does not decode is an empty state.
Load == IF file = Torn THEN Empty ELSE file

-------------------------------------------------------------------------------
\* What a CLI run leaves of its session's directory

\* A stop without a record skips every step.
AfterSuccess(o, was) ==
    CASE o = "start" -> {"whole"}
      [] o = "stop" -> {IF was = "whole" THEN "none" ELSE was}
      [] o = "cleanup" -> {"none"}
      [] o \in {"recover", "startup"} -> {was, "none"}
      [] OTHER -> {was}

\* Whatever ends a session may stop anywhere.
Ending(was) == {was, "none"} \cup (IF was = "whole" THEN {"bare"} ELSE {})

\* Refused, failed with or without its rollback, or killed at any step.
AfterFailure(o, was) ==
    CASE o = "start" -> Directories
      [] o \in {"stop", "cleanup", "recover", "startup"} -> Ending(was)
      [] OTHER -> {was}

\* A start of a session that is on record is refused, unless the record came
\* from a run beside it.
Ends(h, ok) ==
    LET After(s) == IF ok THEN AfterSuccess(op[h], dir[s]) ELSE AfterFailure(op[h], dir[s])
        own == IF op[h] \in {"recover", "startup"} THEN Sessions ELSE {mine[h].session}
        refused == op[h] = "start" /\ h \notin crossed /\ dir[mine[h].session] = "whole"
    IN  /\ refused => ~ok
        /\ dir' \in {d \in [Sessions -> Directories] : \A s \in Sessions :
              d[s] \in IF s \in own /\ ~refused THEN After(s) ELSE {dir[s]}}

-------------------------------------------------------------------------------
\* Observations

Busy(h) == phase[h] # "free" \/ h \in child \cup cli

\* Between loadState and the end of saveState.
InSpan(h) == phase[h] # "free" /\ ~(h = Recovery /\ phase[h] = "cli")

Overlaps(h) == \E k \in Handlers \ {h} : InSpan(k)

Crosses(h) == h \in child \cap cli \/ \E k \in Handlers \ {h} : Busy(k)

\* A span that began with a torn file counts as mixed.
Observe(loadedTorn) ==
    /\ mixed' = {h \in Handlers : InSpan(h)' /\ (h \in mixed \cup loadedTorn \/ Overlaps(h)')}
    /\ crossed' = {h \in Handlers : Busy(h)' /\ (h \in crossed \/ Crosses(h)')}

Quiet == Observe({}) /\ UNCHANGED saved

-------------------------------------------------------------------------------
\* What a handler knows goes when it has returned and none of its runs is left.

Released ==
    /\ op' = [h \in Handlers |-> IF Busy(h)' THEN op[h] ELSE None]
    /\ mine' = [h \in Handlers |-> IF Busy(h)' THEN mine[h] ELSE Empty]
    /\ result' = [h \in Handlers |-> Busy(h)' /\ result[h]]

-------------------------------------------------------------------------------
\* The page

Listed == {s \in Sessions : dir[s] # "none"}

\* render: a saved session wins, then what the input holds, then the only
\* session there is.
Rendered(t) ==
    CASE Load.session # None -> {Load.session}
      [] Load.session = None /\ field[t] # None -> {field[t]}
      [] Load.session = None /\ field[t] = None /\ Cardinality(Listed) = 1 -> Listed
      [] OTHER -> {None}

\* The refresh at the end of a task, and the button of that name.
Refresh(t) ==
    /\ waiting[t] \in {None, "refresh"}
    /\ \E s \in Rendered(t) : field' = [field EXCEPT ![t] = s]
    /\ waiting' = [waiting EXCEPT ![t] = None]
    /\ UNCHANGED <<file, phase, memoryVars, cancelled, cli, onceVars, daemonVars, dir>>
    /\ Quiet

\* The user types or clears the identifier.
Types(t) ==
    /\ waiting[t] = None
    /\ \E s \in drawn \cup {None} : field' = [field EXCEPT ![t] = s]
    /\ UNCHANGED <<file, waiting, phase, memoryVars, cancelled, cli, onceVars, daemonVars, dir>>
    /\ Quiet

\* The request times out after three minutes, or the page is loaded anew.
GiveUp(t) ==
    /\ waiting[t] \in Handlers
    /\ \E s \in {field[t], None} : field' = [field EXCEPT ![t] = s]
    /\ waiting' = [waiting EXCEPT ![t] = "refresh"]
    /\ cancelled' = cancelled \cup {waiting[t]}
    /\ UNCHANGED <<file, phase, memoryVars, cli, onceVars, daemonVars, dir>>
    /\ Quiet

-------------------------------------------------------------------------------
\* The handlers of the application

\* Every request carries the tab's input; these handlers look at it.
Merged(t, o) ==
    IF o \in {"start", "stop", "cleanup", "isolated-preflight"} /\ field[t] # None
    THEN [Load EXCEPT !.session = field[t]]
    ELSE Load

\* Answered with 400, nothing saved.
Refused(o, s) ==
    \/ o \in {"connect", "start", "isolated-preflight"} /\ ~s.profile
    \/ o \in {"stop", "cleanup"} /\ s.session = None

\* A start that left it to the CLI to draw an identifier.
PreparedWithoutDrawing(t, o) ==
    LET s == Merged(t, o) IN
    IF o = "profile" THEN {[s EXCEPT !.profile = TRUE]} ELSE {s}

\* What the handler goes on with: a start without a session draws one.
Prepared(t, o) ==
    LET s == Merged(t, o) IN
    CASE o = "start" /\ s.session = None -> {[s EXCEPT !.session = id] : id \in Sessions \ drawn}
      [] o = "profile" -> {[s EXCEPT !.profile = TRUE]}
      [] OTHER -> {s}

Request(t, h, o) ==
    /\ waiting[t] = None /\ h # Recovery /\ ~Busy(h)
    /\ ~Refused(o, Merged(t, o))
    /\ \E s \in Prepared(t, o) :
          /\ mine' = [mine EXCEPT ![h] = s]
          /\ drawn' = drawn \cup ({s.session} \cap Sessions)
    /\ waiting' = [waiting EXCEPT ![t] = h]
    /\ op' = [op EXCEPT ![h] = o]
    /\ result' = [result EXCEPT ![h] = o = "profile"]
    /\ phase' = [phase EXCEPT ![h] =
          CASE o \in Privileged -> "call" [] o \in Unprivileged -> "cli" [] OTHER -> "save"]
    /\ cli' = IF o \in Unprivileged THEN cli \cup {h} ELSE cli
    /\ UNCHANGED <<file, field, cancelled, startup, daemonVars, dir, saved>>
    /\ Observe(IF file = Torn THEN {h} ELSE {})

\* recoverIsolatedOnStartup: only if a session is dirty, always by the CLI.
Startup ==
    /\ startup /\ startup' = FALSE
    /\ \/ UNCHANGED <<phase, op, cli>>
       \/ /\ Listed # {} /\ ~Busy(Recovery)
          /\ phase' = [phase EXCEPT ![Recovery] = "cli"]
          /\ op' = [op EXCEPT ![Recovery] = "startup"]
          /\ cli' = cli \cup {Recovery}
    /\ UNCHANGED <<file, pageVars, mine, result, cancelled, drawn, daemonVars, dir>>
    /\ Quiet

\* The daemon answers at once: it could not use the profile.
DaemonRefuses(h) ==
    /\ phase[h] = "call" /\ daemon
    /\ op[h] \in {"connect", "start"}
    /\ phase' = [phase EXCEPT ![h] = "save"]
    /\ UNCHANGED <<file, pageVars, memoryVars, cancelled, cli, onceVars, daemonVars, dir>>
    /\ Quiet

\* A client without a time limit.
CallFailsAtDial(h) == phase[h] = "call"

\* daemonAction got an error, whatever its cause: nobody listens on the socket,
\* the answer has an error status, ten seconds have passed, the daemon died, or
\* the page has gone.
CallFails(h) == phase[h] \in {"call", "wait"}

\* runCLI, which starts nothing when the request's context has ended.
FallBack(h) ==
    /\ CallFails(h)
    /\ gone' = gone \cup ({h} \cap child)
    /\ phase' = [phase EXCEPT ![h] = IF h \in cancelled THEN "save" ELSE "cli"]
    /\ cli' = IF h \in cancelled THEN cli ELSE cli \cup {h}
    /\ UNCHANGED <<file, pageVars, memoryVars, cancelled, onceVars, daemon, child, dir>>
    /\ Quiet

\* A run of the application's exits, or is killed after two minutes or when the
\* request ends: then cmd.Run reports a failure even if the run succeeded, as
\* one under pkexec may, which an ordinary user cannot kill.  The recovery at
\* startup loads the file only now.
CLIExits(h, ok) ==
    /\ h \in cli
    /\ Ends(h, ok)
    /\ cli' = cli \ {h}
    /\ UNCHANGED <<file, pageVars, cancelled, onceVars, daemonVars, saved>>
    /\ \/ /\ phase[h] = "cli"
          /\ phase' = [phase EXCEPT ![h] = "save"]
          /\ \E told \in {ok, FALSE} : result' = [result EXCEPT ![h] = told]
          /\ mine' = [mine EXCEPT ![h] = IF h = Recovery THEN Load ELSE @]
          /\ UNCHANGED op
       \/ /\ phase[h] # "cli"
          /\ UNCHANGED phase
          /\ Released
    /\ Observe(IF h = Recovery /\ file = Torn THEN {h} ELSE {})

\* saveState: os.WriteFile truncates the file ...
BeginSave(h) ==
    /\ phase[h] = "save"
    /\ phase' = [phase EXCEPT ![h] = "write"]
    /\ file' = Torn
    /\ UNCHANGED <<pageVars, memoryVars, cancelled, cli, onceVars, daemonVars, dir>>
    /\ Quiet

\* A clearing that did not look at the response.
ClearsSessionAlways(h) == op[h] \in {"stop", "cleanup"}

\* clearIsolatedSessionOnSuccess
ClearsSession(h) == op[h] \in {"stop", "cleanup"} /\ result[h]

Payload(h) == [mine[h] EXCEPT !.session = IF ClearsSession(h) THEN None ELSE @]

\* ... and writes it; over what another handler wrote since, the longer of the
\* two shows at the end.
EndSave(h) ==
    /\ phase[h] = "write"
    /\ phase' = [phase EXCEPT ![h] = "free"]
    /\ file' \in IF file = Torn THEN {Payload(h)} ELSE {Payload(h), Torn}
    /\ saved' = Payload(h)
    /\ cancelled' = cancelled \ {h}
    /\ waiting' = [t \in Tabs |-> IF waiting[t] = h THEN "refresh" ELSE waiting[t]]
    /\ UNCHANGED <<field, cli, onceVars, daemonVars, dir>>
    /\ Released
    /\ Observe({})

\* The application is closed and started again: the runs it made go on, and
\* so do those of the daemon until it notices.
Restart ==
    /\ phase' = [h \in Handlers |-> "free"]
    /\ gone' = child
    /\ cancelled' = {}
    /\ waiting' = [t \in Tabs |-> "refresh"]
    /\ field' = [t \in Tabs |-> None]
    /\ startup' = TRUE
    /\ saved' = IF file = Torn THEN Empty ELSE saved
    /\ UNCHANGED <<file, cli, drawn, daemon, child, dir>>
    /\ Released
    /\ Observe({})

-------------------------------------------------------------------------------
\* The daemon

\* A handler of the daemon starts the CLI.
Accept(h) ==
    /\ phase[h] = "call" /\ daemon
    /\ phase' = [phase EXCEPT ![h] = "wait"]
    /\ child' = child \cup {h}
    /\ UNCHANGED <<file, pageVars, memoryVars, cancelled, cli, onceVars, daemon, gone, dir>>
    /\ Quiet

\* A response that says nothing of the run's exit status.
ResponseAlwaysOk(ok) == TRUE

\* OK of the OperationResponse: the CLI exited with status 0.
Response(ok) == ok

\* runCLI of the daemon returns: the response goes to the handler of the
\* application, if it still listens.
Answers(h, ok) ==
    /\ h \in child
    /\ Ends(h, ok)
    /\ child' = child \ {h}
    /\ gone' = gone \ {h}
    /\ UNCHANGED <<file, pageVars, cancelled, cli, onceVars, daemon>>
    /\ \/ /\ h \notin gone
          /\ phase' = [phase EXCEPT ![h] = "save"]
          /\ result' = [result EXCEPT ![h] = Response(ok)]
          /\ UNCHANGED <<op, mine>>
       \/ /\ h \in gone
          /\ UNCHANGED phase
          /\ Released
    /\ Quiet

ChildExits(h, ok) == daemon /\ Answers(h, ok)

\* A run that does not know of its request's context.
CancelledNever(h) == FALSE

\* The context of the run has ended: its client's connection is closed, or five
\* minutes have passed, which no request of the application outlasts.
Cancelled(h) == h \in gone

\* exec.CommandContext kills the run.
CancelChild(h) == daemon /\ Cancelled(h) /\ Answers(h, FALSE)

\* The daemon stops or dies: its clients' connections end with it.
DaemonDies ==
    /\ daemon /\ daemon' = FALSE
    /\ gone' = child
    /\ UNCHANGED <<appVars, child, dir>>
    /\ Quiet

\* systemd ends what is left of the service: at the latest now the run ends.
ChildDiesWithDaemon(h) == ~daemon /\ \E ok \in BOOLEAN : Answers(h, ok)

DaemonStarts ==
    /\ ~daemon /\ daemon' = TRUE
    /\ child = {}
    /\ UNCHANGED <<appVars, child, gone, dir>>
    /\ Quiet

\* The background monitor ends a session whose application has exited.
SessionEnds(s) ==
    /\ dir[s] = "whole"
    /\ \E left \in {"bare", "none"} : dir' = [dir EXCEPT ![s] = left]
    /\ UNCHANGED <<appVars, daemonVars>>
    /\ Quiet

-------------------------------------------------------------------------------

Init ==
    /\ file = Empty
    /\ field = [t \in Tabs |-> None]
    /\ waiting = [t \in Tabs |-> "refresh"]
    /\ phase = [h \in Handlers |-> "free"]
    /\ op = [h \in Handlers |-> None]
    /\ mine = [h \in Handlers |-> Empty]
    /\ result = [h \in Handlers |-> FALSE]
    /\ cancelled = {}
    /\ cli = {}
    /\ startup = TRUE
    /\ drawn = {}
    /\ daemon \in BOOLEAN
    /\ child = {}
    /\ gone = {}
    /\ dir = [s \in Sessions |-> "none"]
    /\ saved = Empty
    /\ mixed = {}
    /\ crossed = {}

\* What a handler of the application does by itself.
HandlerStep(h) ==
    DaemonRefuses(h) \/ Accept(h) \/ FallBack(h) \/ BeginSave(h) \/ EndSave(h)

\* What the daemon does by itself about a run.
DaemonStep(h) == CancelChild(h) \/ ChildDiesWithDaemon(h)

Next ==
    \/ \E t \in Tabs :
          \/ Refresh(t)
          \/ Types(t)
          \/ GiveUp(t)
          \/ \E h \in Handlers, o \in Operations : Request(t, h, o)
    \/ \E h \in Handlers :
          \/ HandlerStep(h)
          \/ DaemonStep(h)
          \/ \E ok \in BOOLEAN : CLIExits(h, ok) \/ ChildExits(h, ok)
    \/ Startup
    \/ Restart
    \/ DaemonDies
    \/ DaemonStarts
    \/ \E s \in Sessions : SessionEnds(s)

Spec == Init /\ [][Next]_vars

\* Handlers and daemon go on running, the daemon's client has a time limit, and
\* a run of the application's own ends by itself (every run of the engine
\* does).  Nothing is assumed of the daemon's runs or of the user.
FairSpec ==
    /\ Spec
    /\ \A h \in Handlers :
          /\ WF_vars(HandlerStep(h))
          /\ WF_vars(DaemonStep(h))
          /\ WF_vars(CLIExits(h, TRUE) \/ CLIExits(h, FALSE))

-------------------------------------------------------------------------------
\* Properties

\* The types, and that a request about a session has one (sessionID is never
\* empty where the CLI is told of it).
TypeOK ==
    /\ file \in State \cup {Torn} /\ saved \in State
    /\ field \in [Tabs -> Sessions \cup {None}]
    /\ waiting \in [Tabs -> Handlers \cup {None, "refresh"}]
    /\ phase \in [Handlers -> Phases]
    /\ op \in [Handlers -> Operations \cup {"startup", None}]
    /\ mine \in [Handlers -> State]
    /\ result \in [Handlers -> BOOLEAN]
    /\ cli \subseteq Handlers /\ child \subseteq Handlers
    /\ startup \in BOOLEAN /\ daemon \in BOOLEAN
    /\ cancelled \subseteq Handlers /\ gone \subseteq Handlers
    /\ mixed \subseteq Handlers /\ crossed \subseteq Handlers
    /\ dir \in [Sessions -> Directories] /\ drawn \subseteq Sessions
    /\ \A h \in Handlers : op[h] \in {"start", "stop", "cleanup"} => mine[h].session \in Sessions

\* A handler that is about to answer OK to a stop or cleanup says what is true
\* of the session: a stop left no record, a cleanup no directory, whether the
\* daemon or the CLI did it and whoever gave up on whom, unless another run went
\* on meanwhile.
OkMeansDone ==
    \A h \in Handlers \ crossed : phase[h] = "save" /\ result[h] =>
        /\ op[h] = "stop" => dir[mine[h].session] # "whole"
        /\ op[h] = "cleanup" => dir[mine[h].session] = "none"

\* gui-state.json never forgets the profile, and forgets a session only when a
\* stop or cleanup succeeded that left no record of the one it was asked for:
\* over fallbacks, restarts, time limits and torn files, as long as no two
\* handlers have the file in hand at once.
KeepsWhatWasSaved ==
    [][\A h \in Handlers \ mixed : EndSave(h) =>
          /\ saved.profile => saved'.profile
          /\ saved.session # None /\ saved'.session = None =>
                op[h] \in {"stop", "cleanup"} /\ (h \in crossed \/ dir[mine[h].session] # "whole")]_vars

\* Every request is answered or given up by its page: no failure of the daemon
\* and no run that hangs there keeps a tab waiting.
EveryRequestAnswered ==
    \A t \in Tabs : waiting[t] \in Handlers ~> waiting[t] \notin Handlers

\* A run of the daemon whose client has given up comes to an end, even one that
\* would go on for ever.
AbandonedRunsEnd == \A h \in Handlers : h \in gone ~> h \notin gone
===============================================================================
