----------------------------- MODULE DesktopProofs -----------------------------
(***************************************************************************)
(* What holds of the desktop application and the daemon for every number   *)
(* of tabs, of requests at once and of sessions: what a handler reports    *)
(* and what it saves over fallbacks, restarts, abandoned runs and torn     *)
(* files.                                                                  *)
(***************************************************************************)
EXTENDS Desktop, TLAPS

\* The recovery at startup is never asked for anything else.
RecoveryRecovers == op[Recovery] \in {"startup", None}

\* A slot that is free again knows nothing of the request before.
Forgotten == \A h \in Handlers : ~Busy(h) => op[h] = None /\ mine[h] = Empty /\ ~result[h]

\* A handler waits for a run of its own as long as it runs, and only for a run
\* of the daemon's that it has not given up.
RunsAreKnown ==
    /\ gone \subseteq child
    /\ \A h \in Handlers :
          /\ phase[h] = "cli" => h \in cli
          /\ h \in cli => phase[h] \in {"cli", "free"}
          /\ h \in child \ gone => phase[h] = "wait"

NoOkBeforeItsRun ==
    \A h \in Handlers : phase[h] \in {"call", "wait", "cli"} => ~result[h]

\* The observations miss no meeting.
MeetingsAreSeen ==
    \A h \in Handlers :
        /\ Busy(h) /\ Crosses(h) => h \in crossed
        /\ InSpan(h) /\ Overlaps(h) => h \in mixed

\* OkMeansDone until the state is saved, and with no run left to undo it.
OkIsDone ==
    \A h \in Handlers \ crossed : phase[h] \in {"save", "write"} /\ result[h] =>
        /\ h \notin child
        /\ op[h] = "stop" => dir[mine[h].session] # "whole"
        /\ op[h] = "cleanup" => dir[mine[h].session] = "none"

FileIsWhatWasSaved == file # Torn => file = saved

\* A handler that had the file to itself still knows what is saved.
LoadedIsWhatWasSaved ==
    \A h \in Handlers \ mixed : InSpan(h) =>
        /\ saved.profile => mine[h].profile
        /\ saved.session # None => mine[h].session # None

IInv ==
    /\ TypeOK
    /\ RecoveryRecovers
    /\ Forgotten
    /\ RunsAreKnown
    /\ NoOkBeforeItsRun
    /\ MeetingsAreSeen
    /\ OkIsDone
    /\ FileIsWhatWasSaved
    /\ LoadedIsWhatWasSaved

-------------------------------------------------------------------------------
\* What the model's operators yield

LEMMA Operating ==
    /\ None \notin {"start", "stop", "cleanup", "startup"}
    /\ "startup" \notin Operations
BY DesktopAssumption DEF Privileged, Unprivileged

LEMMA StatesAreStates ==
    ASSUME TypeOK
    PROVE  /\ Empty \in State
           /\ Torn \notin State
           /\ Load \in State
           /\ file # Torn => Load = file
           /\ \A h \in Handlers : Payload(h) \in State /\ Payload(h).profile = mine[h].profile
<1>1. Empty \in State /\ Torn \notin State
    BY DesktopAssumption DEF Empty, Torn, State
<1>2. Load \in State /\ (file # Torn => Load = file)
    BY <1>1 DEF TypeOK, Load
<1>3. ASSUME NEW h \in Handlers
       PROVE  Payload(h) \in State /\ Payload(h).profile = mine[h].profile
    BY <1>3 DEF Payload, TypeOK, State
<1> QED BY <1>1, <1>2, <1>3

\* A handler keeps what it loaded and has a session if it needs one.
LEMMA RequestHasItsSession ==
    ASSUME TypeOK, NEW t \in Tabs, NEW o \in Operations, NEW s \in Prepared(t, o),
           ~Refused(o, Merged(t, o))
    PROVE  /\ s \in State
           /\ Load.profile => s.profile
           /\ Load.session # None => s.session # None
           /\ o \in {"start", "stop", "cleanup"} => s.session \in Sessions
<1> DEFINE m == Merged(t, o)
<1>1. /\ m \in State
      /\ Load.profile => m.profile
      /\ Load.session # None => m.session # None
    BY StatesAreStates DEF Merged, TypeOK, State
<1>2. o \in {"stop", "cleanup"} => m.session # None
    BY DEF Refused
<1>3. CASE o = "start" /\ m.session = None
    <2>1. PICK id \in Sessions : s = [m EXCEPT !.session = id]
        BY <1>3 DEF Prepared
    <2> QED BY <1>1, <2>1, DesktopAssumption DEF State
<1>4. CASE o = "profile"
    <2>1. s = [m EXCEPT !.profile = TRUE]
        BY <1>4 DEF Prepared
    <2> QED BY <1>1, <1>4, <2>1 DEF State
<1>5. CASE ~(o = "start" /\ m.session = None) /\ o # "profile"
    <2>1. s = m
        BY <1>5 DEF Prepared
    <2> QED BY <1>1, <1>2, <1>5, <2>1 DEF State
<1> QED BY <1>3, <1>4, <1>5

\* A run that succeeded left what its operation promises.
LEMMA SuccessIsDone ==
    ASSUME TypeOK, NEW h \in Handlers, Ends(h, TRUE)
    PROVE  /\ dir' \in [Sessions -> Directories]
           /\ op[h] = "stop" => dir'[mine[h].session] # "whole"
           /\ op[h] = "cleanup" => dir'[mine[h].session] = "none"
BY DEF Ends, TypeOK, AfterSuccess, Directories

LEMMA FailureLeavesDirectories ==
    ASSUME NEW h \in Handlers, NEW ok, Ends(h, ok)
    PROVE  dir' \in [Sessions -> Directories]
BY DEF Ends

\* Whoever meets another counts as having met it.
LEMMA ObserveSees ==
    ASSUME NEW torn, Observe(torn)
    PROVE  /\ MeetingsAreSeen'
           /\ mixed' \subseteq Handlers /\ crossed' \subseteq Handlers
           /\ \A h \in Handlers \ crossed' : Busy(h)' => h \notin crossed /\ ~Crosses(h)'
           /\ \A h \in Handlers \ mixed' : InSpan(h)' =>
                h \notin mixed \cup torn /\ ~Overlaps(h)'
BY DEF Observe, MeetingsAreSeen

LEMMA ReleasedTypes ==
    ASSUME TypeOK, Released
    PROVE  /\ op' \in [Handlers -> Operations \cup {"startup", None}]
           /\ mine' \in [Handlers -> State]
           /\ result' \in [Handlers -> BOOLEAN]
           /\ \A h \in Handlers :
                op'[h] \in {"start", "stop", "cleanup"} => mine'[h].session \in Sessions
           /\ RecoveryRecovers => RecoveryRecovers'
<1>1. /\ op' \in [Handlers -> Operations \cup {"startup", None}]
      /\ mine' \in [Handlers -> State]
    BY StatesAreStates DEF Released, TypeOK
<1>2. result' \in [Handlers -> BOOLEAN]
    BY Zenon DEF Released, TypeOK
<1>3. ASSUME NEW h \in Handlers, op'[h] \in {"start", "stop", "cleanup"}
       PROVE  mine'[h].session \in Sessions
    <2>1. Busy(h)' /\ op'[h] = op[h] /\ mine'[h] = mine[h]
        BY <1>3, Operating DEF Released, Busy
    <2> QED BY <1>3, <2>1 DEF TypeOK
<1>4. RecoveryRecovers => RecoveryRecovers'
    BY DesktopAssumption DEF Released, RecoveryRecovers
<1> QED BY <1>1, <1>2, <1>3, <1>4

-------------------------------------------------------------------------------
\* What a step keeps

\* Every step ends with the observation.
LEMMA EveryStepObserves ==
    ASSUME IInv, [Next]_vars
    PROVE  MeetingsAreSeen'
<1>1. ASSUME NEW t \in Tabs, Refresh(t)
       PROVE  MeetingsAreSeen'
    BY <1>1, ObserveSees DEF Refresh, Quiet
<1>2. ASSUME NEW t \in Tabs, Types(t)
       PROVE  MeetingsAreSeen'
    BY <1>2, ObserveSees DEF Types, Quiet
<1>3. ASSUME NEW t \in Tabs, GiveUp(t)
       PROVE  MeetingsAreSeen'
    BY <1>3, ObserveSees DEF GiveUp, Quiet
<1>4. ASSUME NEW t \in Tabs, NEW h \in Handlers, NEW o \in Operations, Request(t, h, o)
       PROVE  MeetingsAreSeen'
    BY <1>4, ObserveSees DEF Request
<1>5. ASSUME NEW h \in Handlers, DaemonRefuses(h)
       PROVE  MeetingsAreSeen'
    BY <1>5, ObserveSees DEF DaemonRefuses, Quiet
<1>6. ASSUME NEW h \in Handlers, Accept(h)
       PROVE  MeetingsAreSeen'
    BY <1>6, ObserveSees DEF Accept, Quiet
<1>7. ASSUME NEW h \in Handlers, FallBack(h)
       PROVE  MeetingsAreSeen'
    BY <1>7, ObserveSees DEF FallBack, Quiet
<1>8. ASSUME NEW h \in Handlers, BeginSave(h)
       PROVE  MeetingsAreSeen'
    BY <1>8, ObserveSees DEF BeginSave, Quiet
<1>9. ASSUME NEW h \in Handlers, EndSave(h)
       PROVE  MeetingsAreSeen'
    BY <1>9, ObserveSees DEF EndSave
<1>10. ASSUME NEW h \in Handlers, NEW ok \in BOOLEAN, Answers(h, ok)
       PROVE  MeetingsAreSeen'
    BY <1>10, ObserveSees DEF Answers, Quiet
<1>11. ASSUME NEW h \in Handlers, NEW ok \in BOOLEAN, CLIExits(h, ok)
       PROVE  MeetingsAreSeen'
    BY <1>11, ObserveSees DEF CLIExits
<1>12. ASSUME Startup
       PROVE  MeetingsAreSeen'
    BY <1>12, ObserveSees DEF Startup, Quiet
<1>13. ASSUME Restart
       PROVE  MeetingsAreSeen'
    BY <1>13, ObserveSees DEF Restart
<1>14. ASSUME DaemonDies
       PROVE  MeetingsAreSeen'
    BY <1>14, ObserveSees DEF DaemonDies, Quiet
<1>15. ASSUME DaemonStarts
       PROVE  MeetingsAreSeen'
    BY <1>15, ObserveSees DEF DaemonStarts, Quiet
<1>16. ASSUME NEW s \in Sessions, SessionEnds(s)
       PROVE  MeetingsAreSeen'
    BY <1>16, ObserveSees DEF SessionEnds, Quiet
<1>17. ASSUME UNCHANGED vars
       PROVE  MeetingsAreSeen'
    BY <1>17 DEF IInv, MeetingsAreSeen, Busy, InSpan, Crosses, Overlaps, vars, appVars, daemonVars
<1> QED
    BY <1>1, <1>2, <1>3, <1>4, <1>5, <1>6, <1>7, <1>8, <1>9, <1>10, <1>11, <1>12, <1>13, <1>14,
        <1>15, <1>16, <1>17
    DEF Next, HandlerStep, DaemonStep, CancelChild, ChildDiesWithDaemon, ChildExits

LEMMA TypesKept ==
    ASSUME IInv, [Next]_vars
    PROVE  TypeOK' /\ RecoveryRecovers'
<1>1. ASSUME NEW t \in Tabs, Refresh(t)
       PROVE  TypeOK' /\ RecoveryRecovers'
    <2>1. Rendered(t) \subseteq Sessions \cup {None}
        BY StatesAreStates DEF Rendered, Listed, State, IInv, TypeOK
    <2> QED
        BY <1>1, <2>1, ObserveSees
        DEF Refresh, IInv, TypeOK, RecoveryRecovers, Quiet, memoryVars, onceVars, daemonVars
<1>2. ASSUME NEW t \in Tabs, Types(t)
       PROVE  TypeOK' /\ RecoveryRecovers'
    BY <1>2, DesktopAssumption, StatesAreStates, ObserveSees
    DEF Types, IInv, TypeOK, RecoveryRecovers, Phases, Quiet, memoryVars, onceVars, daemonVars
<1>3. ASSUME NEW t \in Tabs, GiveUp(t)
       PROVE  TypeOK' /\ RecoveryRecovers'
    BY <1>3, DesktopAssumption, StatesAreStates, ObserveSees
    DEF GiveUp, IInv, TypeOK, RecoveryRecovers, Phases, Quiet, memoryVars, onceVars, daemonVars
<1>4. ASSUME NEW t \in Tabs, NEW h \in Handlers, NEW o \in Operations, Request(t, h, o)
       PROVE  TypeOK' /\ RecoveryRecovers'
    <2>1. PICK s \in Prepared(t, o) :
              mine' = [mine EXCEPT ![h] = s] /\ drawn' = drawn \cup ({s.session} \cap Sessions)
        BY <1>4 DEF Request
    <2>2. s \in State /\ (o \in {"start", "stop", "cleanup"} => s.session \in Sessions)
        BY <1>4, RequestHasItsSession DEF Request, IInv
    <2> QED
        BY <1>4, <2>1, <2>2, DesktopAssumption, ObserveSees
        DEF IInv, TypeOK, RecoveryRecovers, Phases, Request, pageVars, daemonVars
<1>5. ASSUME NEW h \in Handlers, DaemonRefuses(h)
       PROVE  TypeOK' /\ RecoveryRecovers'
    BY <1>5, DesktopAssumption, StatesAreStates, ObserveSees
    DEF DaemonRefuses, IInv, TypeOK, RecoveryRecovers, Phases, Quiet, pageVars, memoryVars,
        onceVars, daemonVars
<1>6. ASSUME NEW h \in Handlers, Accept(h)
       PROVE  TypeOK' /\ RecoveryRecovers'
    BY <1>6, DesktopAssumption, StatesAreStates, ObserveSees
    DEF Accept, IInv, TypeOK, RecoveryRecovers, Phases, Quiet, pageVars, memoryVars, onceVars
<1>7. ASSUME NEW h \in Handlers, FallBack(h)
       PROVE  TypeOK' /\ RecoveryRecovers'
    BY <1>7, DesktopAssumption, StatesAreStates, ObserveSees
    DEF FallBack, IInv, TypeOK, RecoveryRecovers, Phases, Quiet, pageVars, memoryVars, onceVars
<1>8. ASSUME NEW h \in Handlers, BeginSave(h)
       PROVE  TypeOK' /\ RecoveryRecovers'
    BY <1>8, DesktopAssumption, StatesAreStates, ObserveSees
    DEF BeginSave, IInv, TypeOK, RecoveryRecovers, Phases, Quiet, pageVars, memoryVars, onceVars,
        daemonVars
<1>9. ASSUME NEW h \in Handlers, EndSave(h)
       PROVE  TypeOK' /\ RecoveryRecovers'
    <2>1. /\ waiting' \in [Tabs -> Handlers \cup {None, "refresh"}]
          /\ phase' \in [Handlers -> Phases]
          /\ file' \in State \cup {Torn} /\ saved' \in State
          /\ mixed' \subseteq Handlers /\ crossed' \subseteq Handlers
        BY <1>9, StatesAreStates, ObserveSees DEF EndSave, IInv, TypeOK, Phases
    <2> QED
        BY <1>9, <2>1, ReleasedTypes DEF EndSave, IInv, TypeOK, onceVars, daemonVars
<1>10. ASSUME NEW h \in Handlers, NEW ok \in BOOLEAN, Answers(h, ok)
       PROVE  TypeOK' /\ RecoveryRecovers'
    <2>1. /\ dir' \in [Sessions -> Directories]
          /\ phase' \in [Handlers -> Phases]
          /\ mixed' \subseteq Handlers /\ crossed' \subseteq Handlers
        BY <1>10, FailureLeavesDirectories, ObserveSees DEF Answers, IInv, TypeOK, Phases, Quiet
    <2>2. /\ file' = file /\ field' = field /\ waiting' = waiting /\ cli' = cli /\ saved' = saved
          /\ startup' = startup /\ drawn' = drawn /\ daemon' = daemon /\ cancelled' = cancelled
          /\ child' \subseteq child /\ gone' \subseteq gone
        BY <1>10 DEF Answers, pageVars, onceVars, Quiet
    <2>3. CASE h \notin gone
        <3>1. op' = op /\ mine' = mine /\ result' \in [Handlers -> BOOLEAN]
            BY <1>10, <2>3 DEF Answers, IInv, TypeOK, Response
        <3> QED BY <2>1, <2>2, <3>1 DEF IInv, TypeOK, RecoveryRecovers
    <2>4. CASE h \in gone
        <3>1. Released
            BY <1>10, <2>4 DEF Answers
        <3> QED BY <2>1, <2>2, <3>1, ReleasedTypes DEF IInv, TypeOK
    <2> QED BY <2>3, <2>4
<1>11. ASSUME NEW h \in Handlers, NEW ok \in BOOLEAN, CLIExits(h, ok)
       PROVE  TypeOK' /\ RecoveryRecovers'
    <2>1. /\ dir' \in [Sessions -> Directories]
          /\ phase' \in [Handlers -> Phases]
          /\ mixed' \subseteq Handlers /\ crossed' \subseteq Handlers
        BY <1>11, FailureLeavesDirectories, ObserveSees DEF CLIExits, IInv, TypeOK, Phases
    <2>2. /\ file' = file /\ field' = field /\ waiting' = waiting /\ cli' \subseteq cli
          /\ startup' = startup /\ drawn' = drawn /\ cancelled' = cancelled /\ saved' = saved
          /\ daemon' = daemon /\ child' = child /\ gone' = gone
        BY <1>11 DEF CLIExits, pageVars, onceVars, daemonVars
    <2>3. CASE phase[h] = "cli"
        <3>1. op' = op /\ \E told \in BOOLEAN : result' = [result EXCEPT ![h] = told]
            BY <1>11, <2>3 DEF CLIExits
        <3>2. /\ mine' \in [Handlers -> State]
              /\ \A k \in Handlers \ {Recovery} : mine'[k] = mine[k]
            BY <1>11, <2>3, StatesAreStates DEF CLIExits, IInv, TypeOK
        <3>3. op'[Recovery] \notin {"start", "stop", "cleanup"}
            BY <3>1, Operating DEF IInv, RecoveryRecovers
        <3>4. result' \in [Handlers -> BOOLEAN]
            BY <3>1 DEF IInv, TypeOK
        <3> QED BY <2>1, <2>2, <3>1, <3>2, <3>3, <3>4 DEF IInv, TypeOK, RecoveryRecovers
    <2>4. CASE phase[h] # "cli"
        <3>1. Released
            BY <1>11, <2>4 DEF CLIExits
        <3> QED BY <2>1, <2>2, <3>1, ReleasedTypes DEF IInv, TypeOK
    <2> QED BY <2>3, <2>4
<1>12. ASSUME Startup
       PROVE  TypeOK' /\ RecoveryRecovers'
    <2>1. /\ file' = file /\ field' = field /\ waiting' = waiting /\ mine' = mine
          /\ result' = result /\ cancelled' = cancelled /\ drawn' = drawn /\ dir' = dir
          /\ daemon' = daemon /\ child' = child /\ gone' = gone /\ saved' = saved
          /\ startup' = FALSE
          /\ mixed' \subseteq Handlers /\ crossed' \subseteq Handlers
        BY <1>12, ObserveSees DEF Startup, Quiet, pageVars, daemonVars
    <2>2. /\ phase' \in [Handlers -> Phases]
          /\ op' \in [Handlers -> Operations \cup {"startup", None}]
          /\ cli' \subseteq Handlers
          /\ op'[Recovery] \in {"startup", None}
          /\ \A h \in Handlers \ {Recovery} : op'[h] = op[h]
        BY <1>12, DesktopAssumption DEF Startup, IInv, TypeOK, RecoveryRecovers, Phases
    <2> QED
        BY <2>1, <2>2, Operating DEF IInv, TypeOK, RecoveryRecovers
<1>13. ASSUME Restart
       PROVE  TypeOK' /\ RecoveryRecovers'
    <2>1. /\ waiting' \in [Tabs -> Handlers \cup {None, "refresh"}]
          /\ field' \in [Tabs -> Sessions \cup {None}]
          /\ phase' \in [Handlers -> Phases]
          /\ saved' \in State /\ file' = file
          /\ mixed' \subseteq Handlers /\ crossed' \subseteq Handlers
        BY <1>13, StatesAreStates, ObserveSees DEF Restart, IInv, TypeOK, Phases
    <2> QED
        BY <1>13, <2>1, ReleasedTypes DEF Restart, IInv, TypeOK
<1>14. ASSUME DaemonDies
       PROVE  TypeOK' /\ RecoveryRecovers'
    BY <1>14, DesktopAssumption, StatesAreStates, ObserveSees
    DEF DaemonDies, IInv, TypeOK, RecoveryRecovers, Phases, Quiet, appVars, pageVars, memoryVars,
        onceVars
<1>15. ASSUME DaemonStarts
       PROVE  TypeOK' /\ RecoveryRecovers'
    BY <1>15, DesktopAssumption, StatesAreStates, ObserveSees
    DEF DaemonStarts, IInv, TypeOK, RecoveryRecovers, Phases, Quiet, appVars, pageVars,
        memoryVars, onceVars
<1>16. ASSUME NEW s \in Sessions, SessionEnds(s)
       PROVE  TypeOK' /\ RecoveryRecovers'
    BY <1>16, DesktopAssumption, StatesAreStates, ObserveSees
    DEF SessionEnds, IInv, TypeOK, RecoveryRecovers, Phases, Quiet, Directories, appVars,
        daemonVars, pageVars, memoryVars, onceVars
<1>17. ASSUME UNCHANGED vars
       PROVE  TypeOK' /\ RecoveryRecovers'
    BY <1>17
    DEF IInv, TypeOK, RecoveryRecovers, Phases, Quiet, vars, appVars, daemonVars, pageVars,
        memoryVars, onceVars
<1> QED
    BY <1>1, <1>2, <1>3, <1>4, <1>5, <1>6, <1>7, <1>8, <1>9, <1>10, <1>11, <1>12, <1>13, <1>14,
        <1>15, <1>16, <1>17
    DEF Next, HandlerStep, DaemonStep, CancelChild, ChildDiesWithDaemon, ChildExits

LEMMA HandlersKept ==
    ASSUME IInv, [Next]_vars
    PROVE  Forgotten' /\ RunsAreKnown' /\ NoOkBeforeItsRun'
<1>1. ASSUME NEW t \in Tabs, Refresh(t)
       PROVE  Forgotten' /\ RunsAreKnown' /\ NoOkBeforeItsRun'
    BY <1>1
    DEF Refresh, IInv, TypeOK, Forgotten, RunsAreKnown, NoOkBeforeItsRun, Busy, memoryVars,
        onceVars, daemonVars
<1>2. ASSUME NEW t \in Tabs, Types(t)
       PROVE  Forgotten' /\ RunsAreKnown' /\ NoOkBeforeItsRun'
    BY <1>2
    DEF Types, IInv, TypeOK, Forgotten, RunsAreKnown, NoOkBeforeItsRun, Busy, memoryVars,
        onceVars, daemonVars
<1>3. ASSUME NEW t \in Tabs, GiveUp(t)
       PROVE  Forgotten' /\ RunsAreKnown' /\ NoOkBeforeItsRun'
    BY <1>3
    DEF GiveUp, IInv, TypeOK, Forgotten, RunsAreKnown, NoOkBeforeItsRun, Busy, memoryVars,
        onceVars, daemonVars
<1>4. ASSUME NEW t \in Tabs, NEW h \in Handlers, NEW o \in Operations, Request(t, h, o)
       PROVE  Forgotten' /\ RunsAreKnown' /\ NoOkBeforeItsRun'
    <2>1. h \notin child \cup cli
        BY <1>4 DEF Request, Busy
    <2>2. /\ phase'[h] # "free" /\ phase'[h] # "wait"
          /\ phase'[h] = "cli" <=> h \in cli'
          /\ result'[h] => phase'[h] = "save"
        BY <1>4, <2>1 DEF Request, IInv, TypeOK, Privileged, Unprivileged
    <2>3. ASSUME NEW k \in Handlers \ {h}
           PROVE  /\ phase'[k] = phase[k] /\ op'[k] = op[k] /\ mine'[k] = mine[k]
                  /\ result'[k] = result[k]
                  /\ k \in cli' <=> k \in cli
        BY <1>4 DEF Request, IInv, TypeOK
    <2>4. child' = child /\ gone' = gone
        BY <1>4 DEF Request, daemonVars
    <2>5. Forgotten'
        BY <2>2, <2>3, <2>4 DEF IInv, Forgotten, Busy
    <2>6. RunsAreKnown' /\ NoOkBeforeItsRun'
        BY <2>1, <2>2, <2>3, <2>4 DEF IInv, RunsAreKnown, NoOkBeforeItsRun
    <2> QED BY <2>5, <2>6
<1>5. ASSUME NEW h \in Handlers, DaemonRefuses(h)
       PROVE  Forgotten' /\ RunsAreKnown' /\ NoOkBeforeItsRun'
    BY <1>5
    DEF DaemonRefuses, IInv, TypeOK, Forgotten, RunsAreKnown, NoOkBeforeItsRun, Busy, pageVars,
        memoryVars, onceVars, daemonVars
<1>6. ASSUME NEW h \in Handlers, Accept(h)
       PROVE  Forgotten' /\ RunsAreKnown' /\ NoOkBeforeItsRun'
    BY <1>6
    DEF Accept, IInv, TypeOK, Forgotten, RunsAreKnown, NoOkBeforeItsRun, Busy, pageVars,
        memoryVars, onceVars
<1>7. ASSUME NEW h \in Handlers, FallBack(h)
       PROVE  Forgotten' /\ RunsAreKnown' /\ NoOkBeforeItsRun'
    BY <1>7
    DEF FallBack, IInv, TypeOK, Forgotten, RunsAreKnown, NoOkBeforeItsRun, Busy, CallFails,
        pageVars, memoryVars, onceVars
<1>8. ASSUME NEW h \in Handlers, BeginSave(h)
       PROVE  Forgotten' /\ RunsAreKnown' /\ NoOkBeforeItsRun'
    BY <1>8
    DEF BeginSave, IInv, TypeOK, Forgotten, RunsAreKnown, NoOkBeforeItsRun, Busy, pageVars,
        memoryVars, onceVars, daemonVars
<1>9. ASSUME NEW h \in Handlers, EndSave(h)
       PROVE  Forgotten' /\ RunsAreKnown' /\ NoOkBeforeItsRun'
    BY <1>9
    DEF EndSave, IInv, TypeOK, Forgotten, RunsAreKnown, NoOkBeforeItsRun, Busy, Released,
        onceVars, daemonVars
<1>10. ASSUME NEW h \in Handlers, NEW ok \in BOOLEAN, Answers(h, ok)
       PROVE  Forgotten' /\ RunsAreKnown' /\ NoOkBeforeItsRun'
    <2>1. child' = child \ {h} /\ gone' = gone \ {h} /\ cli' = cli /\ h \in child
        BY <1>10 DEF Answers
    <2>2. CASE h \notin gone
        <3>1. /\ phase' = [phase EXCEPT ![h] = "save"] /\ op' = op /\ mine' = mine
              /\ result' = [result EXCEPT ![h] = ok]
            BY <1>10, <2>2 DEF Answers, Response
        <3>2. phase[h] = "wait"
            BY <2>1, <2>2 DEF IInv, RunsAreKnown
        <3>3. Forgotten'
            BY <2>1, <3>1 DEF IInv, Forgotten, Busy, TypeOK
        <3>4. RunsAreKnown' /\ NoOkBeforeItsRun'
            BY <2>1, <3>1, <3>2 DEF IInv, RunsAreKnown, NoOkBeforeItsRun, TypeOK
        <3> QED BY <3>3, <3>4
    <2>3. CASE h \in gone
        <3>1. phase' = phase /\ Released
            BY <1>10, <2>3 DEF Answers
        <3>2. Forgotten'
            BY <3>1 DEF Forgotten, Released
        <3>3. RunsAreKnown'
            BY <2>1, <3>1 DEF IInv, RunsAreKnown
        <3>4. NoOkBeforeItsRun'
            BY <3>1 DEF IInv, NoOkBeforeItsRun, Released
        <3> QED BY <3>2, <3>3, <3>4
    <2> QED BY <2>2, <2>3
<1>11. ASSUME NEW h \in Handlers, NEW ok \in BOOLEAN, CLIExits(h, ok)
       PROVE  Forgotten' /\ RunsAreKnown' /\ NoOkBeforeItsRun'
    BY <1>11
    DEF CLIExits, IInv, TypeOK, Forgotten, RunsAreKnown, NoOkBeforeItsRun, Busy, Released,
        pageVars, onceVars, daemonVars
<1>12. ASSUME Startup
       PROVE  Forgotten' /\ RunsAreKnown' /\ NoOkBeforeItsRun'
    BY <1>12
    DEF Startup, IInv, TypeOK, Forgotten, RunsAreKnown, NoOkBeforeItsRun, Busy, RecoveryRecovers,
        pageVars, daemonVars
<1>13. ASSUME Restart
       PROVE  Forgotten' /\ RunsAreKnown' /\ NoOkBeforeItsRun'
    BY <1>13 DEF Restart, IInv, TypeOK, Forgotten, RunsAreKnown, NoOkBeforeItsRun, Busy, Released
<1>14. ASSUME DaemonDies
       PROVE  Forgotten' /\ RunsAreKnown' /\ NoOkBeforeItsRun'
    BY <1>14
    DEF DaemonDies, IInv, TypeOK, Forgotten, RunsAreKnown, NoOkBeforeItsRun, Busy, appVars,
        pageVars, memoryVars, onceVars
<1>15. ASSUME DaemonStarts
       PROVE  Forgotten' /\ RunsAreKnown' /\ NoOkBeforeItsRun'
    BY <1>15
    DEF DaemonStarts, IInv, TypeOK, Forgotten, RunsAreKnown, NoOkBeforeItsRun, Busy, appVars,
        pageVars, memoryVars, onceVars
<1>16. ASSUME NEW s \in Sessions, SessionEnds(s)
       PROVE  Forgotten' /\ RunsAreKnown' /\ NoOkBeforeItsRun'
    BY <1>16
    DEF SessionEnds, IInv, TypeOK, Forgotten, RunsAreKnown, NoOkBeforeItsRun, Busy, appVars,
        daemonVars, pageVars, memoryVars, onceVars
<1>17. ASSUME UNCHANGED vars
       PROVE  Forgotten' /\ RunsAreKnown' /\ NoOkBeforeItsRun'
    BY <1>17
    DEF IInv, TypeOK, Forgotten, RunsAreKnown, NoOkBeforeItsRun, Busy, vars, appVars, daemonVars,
        pageVars, memoryVars, onceVars
<1> QED
    BY <1>1, <1>2, <1>3, <1>4, <1>5, <1>6, <1>7, <1>8, <1>9, <1>10, <1>11, <1>12, <1>13, <1>14,
        <1>15, <1>16, <1>17
    DEF Next, HandlerStep, DaemonStep, CancelChild, ChildDiesWithDaemon, ChildExits

LEMMA OkIsDoneKept ==
    ASSUME IInv, [Next]_vars
    PROVE  OkIsDone'
<1>1. ASSUME NEW t \in Tabs, Refresh(t)
       PROVE  OkIsDone'
    BY <1>1, DesktopAssumption, ObserveSees
    DEF Refresh, IInv, TypeOK, OkIsDone, Forgotten, RunsAreKnown, NoOkBeforeItsRun, Busy, Crosses,
        Quiet, memoryVars, onceVars, daemonVars
<1>2. ASSUME NEW t \in Tabs, Types(t)
       PROVE  OkIsDone'
    BY <1>2, DesktopAssumption, ObserveSees
    DEF Types, IInv, TypeOK, OkIsDone, Forgotten, RunsAreKnown, NoOkBeforeItsRun, Busy, Crosses,
        Quiet, memoryVars, onceVars, daemonVars
<1>3. ASSUME NEW t \in Tabs, GiveUp(t)
       PROVE  OkIsDone'
    BY <1>3, DesktopAssumption, ObserveSees
    DEF GiveUp, IInv, TypeOK, OkIsDone, Forgotten, RunsAreKnown, NoOkBeforeItsRun, Busy, Crosses,
        Quiet, memoryVars, onceVars, daemonVars
<1>4. ASSUME NEW t \in Tabs, NEW h \in Handlers, NEW o \in Operations, Request(t, h, o)
       PROVE  OkIsDone'
    <2> SUFFICES ASSUME NEW k \in Handlers \ crossed', phase'[k] \in {"save", "write"}, result'[k]
                 PROVE  /\ k \notin child'
                        /\ op'[k] = "stop" => dir'[mine'[k].session] # "whole"
                        /\ op'[k] = "cleanup" => dir'[mine'[k].session] = "none"
        BY DEF OkIsDone
    <2>1. dir' = dir /\ child' = child /\ h \notin child
        BY <1>4 DEF Request, daemonVars, Busy
    <2>2. k \notin crossed
        BY <1>4 DEF Request, Observe, Busy
    <2>3. CASE k = h
        <3>1. op'[k] = o /\ (result'[k] => o = "profile")
            BY <1>4, <2>3 DEF Request, IInv, TypeOK
        <3> QED BY <2>1, <2>3, <3>1
    <2>4. CASE k # h
        <3>1. phase'[k] = phase[k] /\ op'[k] = op[k] /\ mine'[k] = mine[k] /\ result'[k] = result[k]
            BY <1>4, <2>4 DEF Request, IInv, TypeOK
        <3> QED BY <2>1, <2>2, <3>1 DEF IInv, OkIsDone
    <2> QED BY <2>3, <2>4
<1>5. ASSUME NEW h \in Handlers, DaemonRefuses(h)
       PROVE  OkIsDone'
    BY <1>5, DesktopAssumption, ObserveSees
    DEF DaemonRefuses, IInv, TypeOK, OkIsDone, Forgotten, RunsAreKnown, NoOkBeforeItsRun, Busy,
        Crosses, Quiet, pageVars, memoryVars, onceVars, daemonVars
<1>6. ASSUME NEW h \in Handlers, Accept(h)
       PROVE  OkIsDone'
    BY <1>6, DesktopAssumption, ObserveSees
    DEF Accept, IInv, TypeOK, OkIsDone, Forgotten, RunsAreKnown, NoOkBeforeItsRun, Busy, Crosses,
        Quiet, pageVars, memoryVars, onceVars
<1>7. ASSUME NEW h \in Handlers, FallBack(h)
       PROVE  OkIsDone'
    BY <1>7, DesktopAssumption, ObserveSees
    DEF FallBack, IInv, TypeOK, OkIsDone, Forgotten, RunsAreKnown, NoOkBeforeItsRun, Busy,
        Crosses, Quiet, CallFails, pageVars, memoryVars, onceVars
<1>8. ASSUME NEW h \in Handlers, BeginSave(h)
       PROVE  OkIsDone'
    BY <1>8, DesktopAssumption, ObserveSees
    DEF BeginSave, IInv, TypeOK, OkIsDone, Forgotten, RunsAreKnown, NoOkBeforeItsRun, Busy,
        Crosses, Quiet, pageVars, memoryVars, onceVars, daemonVars
<1>9. ASSUME NEW h \in Handlers, EndSave(h)
       PROVE  OkIsDone'
    BY <1>9, DesktopAssumption, ObserveSees
    DEF EndSave, IInv, TypeOK, OkIsDone, Forgotten, RunsAreKnown, NoOkBeforeItsRun, Busy, Crosses,
        Quiet, Released, onceVars, daemonVars
<1>10. ASSUME NEW h \in Handlers, NEW ok \in BOOLEAN, Answers(h, ok)
       PROVE  OkIsDone'
    <2> SUFFICES ASSUME NEW k \in Handlers \ crossed', phase'[k] \in {"save", "write"}, result'[k]
                 PROVE  /\ k \notin child'
                        /\ op'[k] = "stop" => dir'[mine'[k].session] # "whole"
                        /\ op'[k] = "cleanup" => dir'[mine'[k].session] = "none"
        BY DEF OkIsDone
    <2>1. h \in child /\ child' = child \ {h} /\ cli' = cli
        BY <1>10 DEF Answers
    <2>2. k \notin crossed
        BY <1>10, ObserveSees DEF Answers, Quiet, Busy
    <2>3. CASE k = h /\ h \notin gone
        <3>1. op' = op /\ mine' = mine /\ result'[h] = ok
            BY <1>10, <2>3 DEF Answers, Response, IInv, TypeOK
        <3>2. Ends(h, TRUE)
            BY <1>10, <2>3, <3>1 DEF Answers
        <3> QED BY <2>1, <2>3, <3>1, <3>2, SuccessIsDone DEF IInv
    <2>4. CASE k = h /\ h \in gone
        <3>1. phase[h] \in {"save", "write"} /\ result[h]
            BY <1>10, <2>4 DEF Answers, Released
        <3> QED BY <2>1, <2>2, <2>4, <3>1 DEF IInv, OkIsDone
    <2>5. CASE k # h
        <3>1. phase[k] # "free"
            BY <1>10, <2>5 DEF Answers, IInv, TypeOK
        <3>2. Busy(k) /\ Crosses(k)
            BY <2>1, <2>5, <3>1 DEF Busy, Crosses
        <3> QED BY <2>2, <3>2 DEF IInv, MeetingsAreSeen
    <2> QED BY <2>3, <2>4, <2>5
<1>11. ASSUME NEW h \in Handlers, NEW ok \in BOOLEAN, CLIExits(h, ok)
       PROVE  OkIsDone'
    <2> SUFFICES ASSUME NEW k \in Handlers \ crossed', phase'[k] \in {"save", "write"}, result'[k]
                 PROVE  /\ k \notin child'
                        /\ op'[k] = "stop" => dir'[mine'[k].session] # "whole"
                        /\ op'[k] = "cleanup" => dir'[mine'[k].session] = "none"
        BY DEF OkIsDone
    <2>1. h \in cli /\ cli' = cli \ {h} /\ child' = child
        BY <1>11 DEF CLIExits, daemonVars
    <2>2. k \notin crossed
        BY <1>11 DEF CLIExits, Observe, Busy
    <2>3. phase[k] # "free"
        BY <1>11 DEF CLIExits, IInv, TypeOK
    <2>4. k = h
        <3>1. k # h => Busy(k) /\ Crosses(k)
            BY <2>1, <2>3 DEF Busy, Crosses
        <3> QED BY <2>2, <3>1 DEF IInv, MeetingsAreSeen
    <2>5. h \notin child
        <3>1. h \in child => Busy(h) /\ Crosses(h)
            BY <2>1 DEF Busy, Crosses
        <3> QED BY <2>2, <2>4, <3>1 DEF IInv, MeetingsAreSeen
    <2>6. phase[h] = "cli"
        BY <2>1, <2>3, <2>4 DEF IInv, RunsAreKnown
    <2>7. PICK told \in {ok, FALSE} : result' = [result EXCEPT ![h] = told]
        BY <1>11, <2>6 DEF CLIExits
    <2>8. Ends(h, TRUE)
        BY <1>11, <2>4, <2>7 DEF CLIExits, IInv, TypeOK
    <2>9. op' = op /\ (h = Recovery \/ mine'[h] = mine[h])
        BY <1>11, <2>6 DEF CLIExits, IInv, TypeOK
    <2>10. CASE h = Recovery
        BY <2>1, <2>4, <2>5, <2>9, <2>10, Operating DEF IInv, RecoveryRecovers
    <2>11. CASE h # Recovery
        BY <2>1, <2>4, <2>5, <2>8, <2>9, <2>11, SuccessIsDone DEF IInv
    <2> QED BY <2>10, <2>11
<1>12. ASSUME Startup
       PROVE  OkIsDone'
    BY <1>12, DesktopAssumption, ObserveSees
    DEF Startup, IInv, TypeOK, OkIsDone, Forgotten, RunsAreKnown, NoOkBeforeItsRun, Busy, Crosses,
        Quiet, pageVars, daemonVars
<1>13. ASSUME Restart
       PROVE  OkIsDone'
    BY <1>13, DesktopAssumption, ObserveSees
    DEF Restart, IInv, TypeOK, OkIsDone, Forgotten, RunsAreKnown, NoOkBeforeItsRun, Busy, Crosses,
        Quiet, Released
<1>14. ASSUME DaemonDies
       PROVE  OkIsDone'
    BY <1>14, DesktopAssumption, ObserveSees
    DEF DaemonDies, IInv, TypeOK, OkIsDone, Forgotten, RunsAreKnown, NoOkBeforeItsRun, Busy,
        Crosses, Quiet, appVars, pageVars, memoryVars, onceVars
<1>15. ASSUME DaemonStarts
       PROVE  OkIsDone'
    BY <1>15, DesktopAssumption, ObserveSees
    DEF DaemonStarts, IInv, TypeOK, OkIsDone, Forgotten, RunsAreKnown, NoOkBeforeItsRun, Busy,
        Crosses, Quiet, appVars, pageVars, memoryVars, onceVars
<1>16. ASSUME NEW s \in Sessions, SessionEnds(s)
       PROVE  OkIsDone'
    BY <1>16, DesktopAssumption, ObserveSees
    DEF SessionEnds, IInv, TypeOK, OkIsDone, Forgotten, RunsAreKnown, NoOkBeforeItsRun, Busy,
        Crosses, Quiet, appVars, daemonVars, pageVars, memoryVars, onceVars
<1>17. ASSUME UNCHANGED vars
       PROVE  OkIsDone'
    BY <1>17
    DEF IInv, TypeOK, OkIsDone, Forgotten, RunsAreKnown, NoOkBeforeItsRun, Busy, Crosses, Quiet,
        vars, appVars, daemonVars, pageVars, memoryVars, onceVars
<1> QED
    BY <1>1, <1>2, <1>3, <1>4, <1>5, <1>6, <1>7, <1>8, <1>9, <1>10, <1>11, <1>12, <1>13, <1>14,
        <1>15, <1>16, <1>17
    DEF Next, HandlerStep, DaemonStep, CancelChild, ChildDiesWithDaemon, ChildExits

LEMMA FileKept ==
    ASSUME IInv, [Next]_vars
    PROVE  FileIsWhatWasSaved' /\ LoadedIsWhatWasSaved'
<1>1. ASSUME NEW t \in Tabs, Refresh(t)
       PROVE  FileIsWhatWasSaved' /\ LoadedIsWhatWasSaved'
    BY <1>1, DesktopAssumption, StatesAreStates, ObserveSees
    DEF Refresh, IInv, TypeOK, FileIsWhatWasSaved, LoadedIsWhatWasSaved, InSpan, Overlaps, Quiet,
        memoryVars, onceVars, daemonVars
<1>2. ASSUME NEW t \in Tabs, Types(t)
       PROVE  FileIsWhatWasSaved' /\ LoadedIsWhatWasSaved'
    BY <1>2, DesktopAssumption, StatesAreStates, ObserveSees
    DEF Types, IInv, TypeOK, FileIsWhatWasSaved, LoadedIsWhatWasSaved, InSpan, Overlaps, Quiet,
        memoryVars, onceVars, daemonVars
<1>3. ASSUME NEW t \in Tabs, GiveUp(t)
       PROVE  FileIsWhatWasSaved' /\ LoadedIsWhatWasSaved'
    BY <1>3, DesktopAssumption, StatesAreStates, ObserveSees
    DEF GiveUp, IInv, TypeOK, FileIsWhatWasSaved, LoadedIsWhatWasSaved, InSpan, Overlaps, Quiet,
        memoryVars, onceVars, daemonVars
<1>4. ASSUME NEW t \in Tabs, NEW h \in Handlers, NEW o \in Operations, Request(t, h, o)
       PROVE  FileIsWhatWasSaved' /\ LoadedIsWhatWasSaved'
    <2>1. /\ file' = file /\ saved' = saved
          /\ Observe(IF file = Torn THEN {h} ELSE {})
        BY <1>4 DEF Request
    <2>2. ASSUME NEW k \in Handlers \ mixed', InSpan(k)'
           PROVE  /\ saved.profile => mine'[k].profile
                  /\ saved.session # None => mine'[k].session # None
        <3>1. CASE k = h
            <4>1. Load = saved
                BY <2>1, <2>2, <3>1, ObserveSees, StatesAreStates DEF IInv, FileIsWhatWasSaved
            <4>2. mine'[h] \in Prepared(t, o) /\ ~Refused(o, Merged(t, o))
                BY <1>4 DEF Request, IInv, TypeOK
            <4> QED BY <3>1, <4>1, <4>2, RequestHasItsSession DEF IInv
        <3>2. CASE k # h
            <4>1. mine'[k] = mine[k] /\ phase'[k] = phase[k]
                BY <1>4, <3>2 DEF Request, IInv, TypeOK
            <4>2. k \notin mixed /\ InSpan(k)
                BY <2>1, <2>2, <4>1 DEF Observe, InSpan
            <4> QED BY <4>1, <4>2 DEF IInv, LoadedIsWhatWasSaved
        <3> QED BY <3>1, <3>2
    <2> QED BY <2>1, <2>2 DEF IInv, FileIsWhatWasSaved, LoadedIsWhatWasSaved
<1>5. ASSUME NEW h \in Handlers, DaemonRefuses(h)
       PROVE  FileIsWhatWasSaved' /\ LoadedIsWhatWasSaved'
    BY <1>5, DesktopAssumption, StatesAreStates, ObserveSees
    DEF DaemonRefuses, IInv, TypeOK, FileIsWhatWasSaved, LoadedIsWhatWasSaved, InSpan, Overlaps,
        Quiet, pageVars, memoryVars, onceVars, daemonVars
<1>6. ASSUME NEW h \in Handlers, Accept(h)
       PROVE  FileIsWhatWasSaved' /\ LoadedIsWhatWasSaved'
    BY <1>6, DesktopAssumption, StatesAreStates, ObserveSees
    DEF Accept, IInv, TypeOK, FileIsWhatWasSaved, LoadedIsWhatWasSaved, InSpan, Overlaps, Quiet,
        pageVars, memoryVars, onceVars
<1>7. ASSUME NEW h \in Handlers, FallBack(h)
       PROVE  FileIsWhatWasSaved' /\ LoadedIsWhatWasSaved'
    BY <1>7, DesktopAssumption, StatesAreStates, ObserveSees
    DEF FallBack, IInv, TypeOK, FileIsWhatWasSaved, LoadedIsWhatWasSaved, InSpan, Overlaps, Quiet,
        CallFails, pageVars, memoryVars, onceVars
<1>8. ASSUME NEW h \in Handlers, BeginSave(h)
       PROVE  FileIsWhatWasSaved' /\ LoadedIsWhatWasSaved'
    BY <1>8, DesktopAssumption, StatesAreStates, ObserveSees
    DEF BeginSave, IInv, TypeOK, FileIsWhatWasSaved, LoadedIsWhatWasSaved, InSpan, Overlaps,
        Quiet, pageVars, memoryVars, onceVars, daemonVars
<1>9. ASSUME NEW h \in Handlers, EndSave(h)
       PROVE  FileIsWhatWasSaved' /\ LoadedIsWhatWasSaved'
    <2>1. /\ phase[h] = "write" /\ phase' = [phase EXCEPT ![h] = "free"]
          /\ file' \in {saved', Torn}
          /\ Observe({})
        BY <1>9 DEF EndSave
    <2>2. FileIsWhatWasSaved'
        BY <2>1 DEF FileIsWhatWasSaved, Torn
    <2>3. ASSUME NEW k \in Handlers \ mixed', InSpan(k)'
           PROVE  FALSE
        <3>1. k # h /\ phase'[k] = phase[k]
            BY <2>1, <2>3 DEF InSpan, IInv, TypeOK
        <3>2. InSpan(k) /\ Overlaps(k) /\ k \notin mixed
            BY <2>1, <2>3, <3>1, ObserveSees DEF InSpan, Overlaps
        <3> QED BY <3>2 DEF IInv, MeetingsAreSeen
    <2> QED BY <2>2, <2>3 DEF LoadedIsWhatWasSaved
<1>10. ASSUME NEW h \in Handlers, NEW ok \in BOOLEAN, Answers(h, ok)
       PROVE  FileIsWhatWasSaved' /\ LoadedIsWhatWasSaved'
    <2>1. file' = file /\ saved' = saved /\ Observe({})
        BY <1>10 DEF Answers, Quiet
    <2>2. ASSUME NEW k \in Handlers \ mixed', InSpan(k)'
           PROVE  k \notin mixed /\ InSpan(k) /\ mine'[k] = mine[k]
        <3>1. k \notin mixed
            BY <2>1, <2>2, ObserveSees
        <3>2. CASE h \notin gone
            <4>1. phase[h] = "wait"
                BY <1>10, <3>2 DEF Answers, IInv, RunsAreKnown
            <4> QED BY <1>10, <2>2, <3>1, <3>2, <4>1 DEF Answers, InSpan, IInv, TypeOK
        <3>3. CASE h \in gone
            BY <1>10, <2>2, <3>1, <3>3 DEF Answers, Released, Busy, InSpan
        <3> QED BY <3>2, <3>3
    <2> QED BY <2>1, <2>2 DEF IInv, FileIsWhatWasSaved, LoadedIsWhatWasSaved
<1>11. ASSUME NEW h \in Handlers, NEW ok \in BOOLEAN, CLIExits(h, ok)
       PROVE  FileIsWhatWasSaved' /\ LoadedIsWhatWasSaved'
    <2>1. /\ file' = file /\ saved' = saved
          /\ Observe(IF h = Recovery /\ file = Torn THEN {h} ELSE {})
        BY <1>11 DEF CLIExits
    <2>2. ASSUME NEW k \in Handlers \ mixed', InSpan(k)'
           PROVE  /\ saved.profile => mine'[k].profile
                  /\ saved.session # None => mine'[k].session # None
        <3>1. k \notin mixed
            BY <2>1, <2>2, ObserveSees
        <3>2. CASE phase[h] = "cli" /\ k = h /\ h = Recovery
            <4>1. Load = saved
                BY <2>1, <2>2, <3>2, ObserveSees, StatesAreStates DEF IInv, FileIsWhatWasSaved
            <4>2. mine'[k] = Load
                BY <1>11, <3>2 DEF CLIExits, IInv, TypeOK
            <4> QED BY <4>1, <4>2
        <3>3. CASE phase[h] = "cli" /\ ~(k = h /\ h = Recovery)
            <4>1. mine'[k] = mine[k] /\ InSpan(k)
                BY <1>11, <2>2, <3>3 DEF CLIExits, InSpan, IInv, TypeOK
            <4> QED BY <3>1, <4>1 DEF IInv, LoadedIsWhatWasSaved
        <3>4. CASE phase[h] # "cli"
            <4>1. mine'[k] = mine[k] /\ InSpan(k)
                BY <1>11, <2>2, <3>4 DEF CLIExits, Released, Busy, InSpan
            <4> QED BY <3>1, <4>1 DEF IInv, LoadedIsWhatWasSaved
        <3> QED BY <3>2, <3>3, <3>4
    <2> QED BY <2>1, <2>2 DEF IInv, FileIsWhatWasSaved, LoadedIsWhatWasSaved
<1>12. ASSUME Startup
       PROVE  FileIsWhatWasSaved' /\ LoadedIsWhatWasSaved'
    BY <1>12, DesktopAssumption, StatesAreStates, ObserveSees
    DEF Startup, IInv, TypeOK, FileIsWhatWasSaved, LoadedIsWhatWasSaved, InSpan, Overlaps, Quiet,
        pageVars, daemonVars
<1>13. ASSUME Restart
       PROVE  FileIsWhatWasSaved' /\ LoadedIsWhatWasSaved'
    BY <1>13, DesktopAssumption, StatesAreStates, ObserveSees
    DEF Restart, IInv, TypeOK, FileIsWhatWasSaved, LoadedIsWhatWasSaved, InSpan, Overlaps, Quiet,
        Released
<1>14. ASSUME DaemonDies
       PROVE  FileIsWhatWasSaved' /\ LoadedIsWhatWasSaved'
    BY <1>14, DesktopAssumption, StatesAreStates, ObserveSees
    DEF DaemonDies, IInv, TypeOK, FileIsWhatWasSaved, LoadedIsWhatWasSaved, InSpan, Overlaps,
        Quiet, appVars, pageVars, memoryVars, onceVars
<1>15. ASSUME DaemonStarts
       PROVE  FileIsWhatWasSaved' /\ LoadedIsWhatWasSaved'
    BY <1>15, DesktopAssumption, StatesAreStates, ObserveSees
    DEF DaemonStarts, IInv, TypeOK, FileIsWhatWasSaved, LoadedIsWhatWasSaved, InSpan, Overlaps,
        Quiet, appVars, pageVars, memoryVars, onceVars
<1>16. ASSUME NEW s \in Sessions, SessionEnds(s)
       PROVE  FileIsWhatWasSaved' /\ LoadedIsWhatWasSaved'
    BY <1>16, DesktopAssumption, StatesAreStates, ObserveSees
    DEF SessionEnds, IInv, TypeOK, FileIsWhatWasSaved, LoadedIsWhatWasSaved, InSpan, Overlaps,
        Quiet, appVars, daemonVars, pageVars, memoryVars, onceVars
<1>17. ASSUME UNCHANGED vars
       PROVE  FileIsWhatWasSaved' /\ LoadedIsWhatWasSaved'
    BY <1>17
    DEF IInv, TypeOK, FileIsWhatWasSaved, LoadedIsWhatWasSaved, InSpan, Overlaps, Quiet, vars,
        appVars, daemonVars, pageVars, memoryVars, onceVars
<1> QED
    BY <1>1, <1>2, <1>3, <1>4, <1>5, <1>6, <1>7, <1>8, <1>9, <1>10, <1>11, <1>12, <1>13, <1>14,
        <1>15, <1>16, <1>17
    DEF Next, HandlerStep, DaemonStep, CancelChild, ChildDiesWithDaemon, ChildExits

-------------------------------------------------------------------------------
\* The invariant and what it says

LEMMA IInvHolds == Spec => []IInv
<1>1. Init => IInv
    <2>1. ASSUME Init
           PROVE  TypeOK /\ RecoveryRecovers
        BY <2>1, StatesAreStates, Operating, DesktopAssumption
        DEF Init, TypeOK, RecoveryRecovers, State, Empty, Phases, Directories
    <2> QED
        BY <2>1 DEF Init, IInv, Forgotten, RunsAreKnown, NoOkBeforeItsRun, MeetingsAreSeen,
            OkIsDone, FileIsWhatWasSaved, LoadedIsWhatWasSaved, Busy, InSpan
<1>2. IInv /\ [Next]_vars => IInv'
    <2> SUFFICES ASSUME IInv, [Next]_vars
                 PROVE  IInv'
        OBVIOUS
    <2> QED BY EveryStepObserves, TypesKept, HandlersKept, OkIsDoneKept, FileKept DEF IInv
<1> QED BY <1>1, <1>2, PTL DEF Spec

\* The state of the page, the handlers, the daemon and the files has its types,
\* and whoever asks for a start, stop or cleanup has a session to name.
THEOREM TypeCorrect == Spec => []TypeOK
<1>1. IInv => TypeOK
    BY DEF IInv
<1> QED BY <1>1, IInvHolds, PTL

\* A handler that answers OK to a stop or a cleanup tells the truth about the
\* session, whether the daemon or the CLI did it, for any number of tabs,
\* requests and sessions, unless another run went on meanwhile.
THEOREM OkMeansDoneHolds == Spec => []OkMeansDone
<1>1. IInv => OkMeansDone
    BY DEF IInv, OkIsDone, OkMeansDone
<1> QED BY <1>1, IInvHolds, PTL

\* gui-state.json never forgets the profile, and a session only after a stop or
\* cleanup that succeeded, whatever number of handlers come one after another.
THEOREM KeepsWhatWasSavedHolds == Spec => KeepsWhatWasSaved
<1>1. ASSUME IInv, NEW h \in Handlers \ mixed, EndSave(h)
       PROVE  /\ saved.profile => saved'.profile
              /\ saved.session # None /\ saved'.session = None =>
                    op[h] \in {"stop", "cleanup"} /\ (h \in crossed \/ dir[mine[h].session] # "whole")
    <2>1. phase[h] = "write" /\ saved' = Payload(h)
        BY <1>1 DEF EndSave
    <2>2. /\ saved.profile => mine[h].profile
          /\ saved.session # None => mine[h].session # None
        BY <1>1, <2>1 DEF IInv, LoadedIsWhatWasSaved, InSpan
    <2>3. saved.profile => saved'.profile
        BY <1>1, <2>1, <2>2, StatesAreStates DEF IInv
    <2>4. ASSUME saved.session # None, saved'.session = None
           PROVE  ClearsSession(h)
        BY <1>1, <2>1, <2>2, <2>4 DEF Payload, IInv, TypeOK, State
    <2>5. ClearsSession(h) /\ h \notin crossed => dir[mine[h].session] # "whole"
        BY <1>1, <2>1 DEF ClearsSession, IInv, OkIsDone
    <2> QED BY <2>3, <2>4, <2>5 DEF ClearsSession
<1>2. IInv /\ [Next]_vars =>
        [\A h \in Handlers \ mixed : EndSave(h) =>
            /\ saved.profile => saved'.profile
            /\ saved.session # None /\ saved'.session = None =>
                  op[h] \in {"stop", "cleanup"} /\ (h \in crossed \/ dir[mine[h].session] # "whole")]_vars
    BY <1>1
<1> QED BY <1>2, IInvHolds, PTL DEF Spec, KeepsWhatWasSaved
===============================================================================
