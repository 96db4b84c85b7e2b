----------------------------- MODULE DesktopTunnel -----------------------------
(***************************************************************************)
(* The desktop application, the daemon and the system tunnel together:     *)
(* each CLI run of module Desktop that connects or disconnects is a        *)
(* launcher of module SystemTunnel, the daemon's run one and the           *)
(* application's own another.  A launcher dies only as the daemon's run    *)
(* does: with its request or with the daemon.                              *)
(***************************************************************************)
EXTENDS SystemTunnel

CONSTANTS
    Tabs, Handlers, Recovery, Sessions, Operations, None,
               \* of Desktop; no sessions, and no operation on one
    Clicked,   \* the one slot for the page's requests, beside Recovery
    Helper,    \* the launcher that is the daemon's run, one of two
    Own        \* the launcher that is the application's own run, the other

VARIABLES
    \* The application and the daemon, as in Desktop.
    file, field, waiting, phase, op, mine, result, cancelled, cli, startup, drawn,
    daemon, child, gone, dir, saved, mixed, crossed,
    due   \* launchers whose process has started and not come to its engine yet

desktopVars ==
    <<file, field, waiting, phase, op, mine, result, cancelled, cli, startup, drawn,
      daemon, child, gone, dir, saved, mixed, crossed>>

D == INSTANCE Desktop

\* A connect over a record that matches reports success and changes nothing.
ExitsOk(l) ==
    IF l \in due THEN {op[Clicked] = "connect" /\ Status = "Connected", FALSE}
    ELSE {outcome[l] \in {"Connected", "Idle"}}

-------------------------------------------------------------------------------
\* The processes of the CLI

StartsProcess ==
    \/ D!Accept(Clicked) /\ due' = due \cup {Helper} /\ UNCHANGED vars
    \/ D!FallBack(Clicked) /\ due' = due \cup {l \in {Own} : cli' # cli} /\ UNCHANGED vars

\* The process reads the status and comes to its engine.
BeginsRun(l) ==
    /\ l \in due /\ due' = due \ {l}
    /\ \/ /\ op[Clicked] = "connect"
          /\ \E ips \in SUBSET Endpoints, withDNS \in BOOLEAN : StartConnect(l, ips, withDNS)
       \/ op[Clicked] = "disconnect" /\ StartDisconnect(l)
    /\ UNCHANGED desktopVars

\* The run has returned, or the command was refused before it.
ProcessExits ==
    /\ \/ \E ok \in ExitsOk(Helper) :
             mode[Helper] = "off" /\ D!ChildExits(Clicked, ok) /\ due' = due \ {Helper}
       \/ \E ok \in ExitsOk(Own) :
             mode[Own] = "off" /\ D!CLIExits(Clicked, ok) /\ due' = due \ {Own}
    /\ UNCHANGED vars

\* The daemon's run is killed, before its engine or in it, or has just returned.
ProcessKilled ==
    /\ D!CancelChild(Clicked) \/ D!ChildDiesWithDaemon(Clicked)
    /\ due' = due \ {Helper}
    /\ IF mode[Helper] = "off" THEN UNCHANGED vars
       ELSE /\ Engine!Kill(Helper)
            /\ DiesInside(Helper)
            /\ disclosed' = ~Clean'
            /\ handle' = [handle EXCEPT ![Helper] = NoPid]
            /\ seen' = [seen EXCEPT ![Helper] = Unread]

\* What the page, the application and the daemon do between runs.
OutsideRuns ==
    /\ \/ \E t \in Tabs :
             D!Refresh(t) \/ D!GiveUp(t) \/ \E o \in Operations : D!Request(t, Clicked, o)
       \/ D!DaemonRefuses(Clicked) \/ D!BeginSave(Clicked) \/ D!EndSave(Clicked)
       \/ D!Startup \/ D!DaemonDies \/ D!DaemonStarts
    /\ UNCHANGED <<vars, due>>

-------------------------------------------------------------------------------

DesktopInit == Init /\ D!Init /\ due = {}

DesktopNext ==
    \/ StartsProcess
    \/ \E l \in Launchers :
          \/ BeginsRun(l)
          \/ Step(l) /\ UNCHANGED <<desktopVars, due>>
    \/ ProcessExits
    \/ ProcessKilled
    \/ OutsideRuns

DesktopSpec == DesktopInit /\ [][DesktopNext]_<<vars, desktopVars, due>>

-------------------------------------------------------------------------------
\* Properties

\* A run goes on only while the daemon waits for it (child), or while it is the
\* application's own (cli), whoever was killed and whoever gave up: at most one
\* of each, and no process of the tunnel that nobody has on the books.
RunsAreAsked ==
    /\ due \subseteq {Helper, Own}
    /\ \A l \in Launchers \ {Helper, Own} : mode[l] = "off"
    /\ Helper \in due \/ mode[Helper] # "off" => Clicked \in child
    /\ Own \in due \/ mode[Own] # "off" => Clicked \in cli

\* The application does not fall back to a run of its own while the daemon's
\* still goes on.
NoFallbackBesideRun == Clicked \notin child \cap cli

\* A handler that is about to answer OK says what is true of the host: after a
\* connect the tunnel is up, after a disconnect nothing of it is left, whether the
\* daemon or the CLI did it, unless a death or a FailedDirty disclosed otherwise.
OkIsTrueOfHost ==
    phase[Clicked] \in {"save", "write"} /\ result[Clicked] /\ ~disclosed =>
        /\ op[Clicked] = "connect" => Up
        /\ op[Clicked] = "disconnect" => Clean
===============================================================================
