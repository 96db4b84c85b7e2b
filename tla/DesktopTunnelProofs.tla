------------------------- MODULE DesktopTunnelProofs -------------------------
(***************************************************************************)
(* The composition of the desktop application, the daemon and the system   *)
(* tunnel implements both of its parts: what the runs of the daemon and of *)
(* the application do is a behaviour of SystemTunnel, the daemon's kills   *)
(* included, and what happens around them is a behaviour of Desktop.  What *)
(* is proved of the parts then holds of two runs that race for a click,    *)
(* and without a race an answer OK is true of the host (AnswerInv).        *)
(***************************************************************************)
EXTENDS DesktopTunnel, SystemTunnelProofs

DesktopParts == INSTANCE DesktopProofs

\* How the constants of the two parts fit together: the daemon's run and the
\* application's are launchers, a launcher can be killed, and the requests have
\* a slot of their own.
Wired ==
    /\ Helper \in Launchers /\ Own \in Launchers /\ Helper # Own
    /\ Killable
    /\ Clicked \in Handlers \ {Recovery}
    /\ D!DesktopAssumption

-------------------------------------------------------------------------------
\* The steps of the composition

\* A launcher is killed as SystemTunnel has it, or before it did anything.
LEMMA KilledAsInTunnel ==
    ASSUME Wired, ProcessKilled
    PROVE  Kill(Helper) \/ UNCHANGED vars
BY DEF ProcessKilled, Wired, Kill

LEMMA StepOfTunnel ==
    ASSUME Wired, [DesktopNext]_<<vars, desktopVars, due>>
    PROVE  [Next]_vars
<1>1. CASE StartsProcess
    BY <1>1 DEF StartsProcess
<1>2. ASSUME NEW l \in Launchers, BeginsRun(l)
       PROVE  Next
    BY <1>2 DEF BeginsRun, Next
<1>3. ASSUME NEW l \in Launchers, Step(l)
       PROVE  Next
    BY <1>3 DEF Next
<1>4. CASE ProcessExits
    BY <1>4 DEF ProcessExits
<1>5. CASE ProcessKilled
    BY <1>5, KilledAsInTunnel DEF Next, Wired
<1>6. CASE OutsideRuns
    BY <1>6 DEF OutsideRuns
<1>7. CASE UNCHANGED <<vars, desktopVars, due>>
    BY <1>7
<1> QED BY <1>1, <1>2, <1>3, <1>4, <1>5, <1>6, <1>7 DEF DesktopNext

\* The variables of Desktop are those the composition calls its own.
LEMMA SameVariables == UNCHANGED desktopVars => UNCHANGED D!vars
BY DEF desktopVars, D!vars, D!appVars, D!pageVars, D!memoryVars, D!onceVars, D!daemonVars

\* A process has an exit status.
LEMMA ExitStatus ==
    ASSUME NEW l, NEW ok \in ExitsOk(l)
    PROVE  ok \in BOOLEAN
<1> DEFINE refused == op[Clicked] = "connect" /\ Status = "Connected"
           ended == outcome[l] \in {"Connected", "Idle"}
<1>1. refused \in BOOLEAN /\ ended \in BOOLEAN
    OBVIOUS
<1>2. ok \in {refused, FALSE} \/ ok \in {ended}
    BY DEF ExitsOk
<1> HIDE DEF refused, ended
<1> QED BY <1>1, <1>2

LEMMA StepOfDesktop ==
    ASSUME Wired, [DesktopNext]_<<vars, desktopVars, due>>
    PROVE  [D!Next]_D!vars
<1>1. CASE StartsProcess
    BY <1>1 DEF StartsProcess, Wired, D!Next, D!HandlerStep
<1>2. ASSUME NEW l \in Launchers, BeginsRun(l)
       PROVE  UNCHANGED D!vars
    BY <1>2, SameVariables DEF BeginsRun
<1>3. ASSUME UNCHANGED <<desktopVars, due>>
       PROVE  UNCHANGED D!vars
    BY <1>3, SameVariables
<1>4. CASE ProcessExits
    BY <1>4, ExitStatus DEF ProcessExits, Wired, D!Next
<1>5. CASE ProcessKilled
    BY <1>5 DEF ProcessKilled, Wired, D!Next, D!DaemonStep
<1>6. CASE OutsideRuns
    BY <1>6 DEF OutsideRuns, Wired, D!Next, D!HandlerStep
<1>7. CASE UNCHANGED <<vars, desktopVars, due>>
    BY <1>7, SameVariables
<1> QED BY <1>1, <1>2, <1>3, <1>4, <1>5, <1>6, <1>7 DEF DesktopNext

-------------------------------------------------------------------------------
\* The refinements

\* Whatever the page, the application and the daemon do, the runs they start
\* and kill behave on the host as launchers of SystemTunnel do.
THEOREM ImplementsTunnel == Wired => (DesktopSpec => Spec)
<1> SUFFICES ASSUME Wired
             PROVE  DesktopSpec => Spec
    OBVIOUS
<1>1. DesktopInit => Init
    BY DEF DesktopInit
<1>2. [DesktopNext]_<<vars, desktopVars, due>> => [Next]_vars
    BY StepOfTunnel
<1> QED BY <1>1, <1>2, PTL DEF DesktopSpec, Spec

\* Whatever the runs do to the tunnel, application and daemon go on as Desktop
\* has it: what a run leaves on the host comes back as its exit status only.
THEOREM ImplementsDesktop == Wired => (DesktopSpec => D!Spec)
<1> SUFFICES ASSUME Wired
             PROVE  DesktopSpec => D!Spec
    OBVIOUS
<1>1. DesktopInit => D!Init
    BY DEF DesktopInit
<1>2. [DesktopNext]_<<vars, desktopVars, due>> => [D!Next]_D!vars
    BY StepOfDesktop
<1> QED BY <1>1, <1>2, PTL DEF DesktopSpec, D!Spec

-------------------------------------------------------------------------------
\* Which runs there are

LEMMA RunsAreAskedStep ==
    ASSUME Wired, EngineInv, RunsAreAsked, [DesktopNext]_<<vars, desktopVars, due>>
    PROVE  RunsAreAsked'
<1>1. CASE StartsProcess
  <2>1. CASE D!Accept(Clicked) /\ due' = due \cup {Helper} /\ UNCHANGED vars
    <3>1. child' = child \cup {Clicked} /\ UNCHANGED <<cli, mode>>
        BY <2>1 DEF D!Accept, vars, engineVars
    <3> QED BY <2>1, <3>1 DEF RunsAreAsked, Wired
  <2>2. CASE D!FallBack(Clicked) /\ due' = due \cup {l \in {Own} : cli' # cli} /\ UNCHANGED vars
    <3>1. /\ cli' = cli \/ cli' = cli \cup {Clicked}
          /\ UNCHANGED <<child, mode>>
        BY <2>2 DEF D!FallBack, vars, engineVars
    <3>2. due' \subseteq due \cup {Own} /\ (Own \in due' \ due => cli' # cli)
        BY <2>2
    <3> QED BY <3>1, <3>2 DEF RunsAreAsked, Wired
  <2> QED BY <1>1, <2>1, <2>2 DEF StartsProcess
<1>2. ASSUME NEW l \in Launchers, BeginsRun(l)
      PROVE  RunsAreAsked'
  <2>1. /\ l \in due /\ due' = due \ {l} /\ UNCHANGED <<child, cli>>
        /\ \A k \in Launchers \ {l} : mode'[k] = mode[k]
      BY <1>2, BeginIsItsOwn DEF BeginsRun, desktopVars
  <2> QED BY <2>1 DEF RunsAreAsked, Wired
<1>3. ASSUME NEW l \in Launchers, Step(l), UNCHANGED <<desktopVars, due>>
      PROVE  RunsAreAsked'
  <2>1. /\ mode[l] # "off" /\ UNCHANGED <<child, cli, due>>
        /\ \A k \in Launchers \ {l} : mode'[k] = mode[k]
      BY <1>3, StepIsItsOwn DEF desktopVars
  <2> QED BY <2>1 DEF RunsAreAsked, Wired
<1>4. CASE ProcessExits
  <2>1. ASSUME NEW ok, mode[Helper] = "off", D!ChildExits(Clicked, ok), due' = due \ {Helper}, UNCHANGED vars
        PROVE  RunsAreAsked'
      BY <2>1 DEF D!ChildExits, D!Answers, RunsAreAsked, vars, engineVars
  <2>2. ASSUME NEW ok, mode[Own] = "off", D!CLIExits(Clicked, ok), due' = due \ {Own}, UNCHANGED vars
        PROVE  RunsAreAsked'
      BY <2>2 DEF D!CLIExits, D!daemonVars, RunsAreAsked, vars, engineVars
  <2> QED BY <1>4, <2>1, <2>2 DEF ProcessExits
<1>5. CASE ProcessKilled
  <2>1. due' = due \ {Helper} /\ UNCHANGED cli
      BY <1>5 DEF ProcessKilled, D!CancelChild, D!ChildDiesWithDaemon, D!Answers
  <2>2. mode'[Helper] = "off" /\ \A k \in Launchers \ {Helper} : mode'[k] = mode[k]
    <3>1. CASE mode[Helper] = "off"
        BY <1>5, <3>1 DEF ProcessKilled, vars, engineVars
    <3>2. CASE mode[Helper] # "off"
        BY <1>5, <3>2, KillIsItsOwn DEF ProcessKilled, Wired
    <3> QED BY <3>1, <3>2
  <2> QED BY <2>1, <2>2 DEF RunsAreAsked, Wired
<1>6. CASE OutsideRuns
  <2>1. child \subseteq child' /\ cli \subseteq cli'
      BY <1>6 DEF OutsideRuns, D!Refresh, D!GiveUp, D!Request, D!DaemonRefuses, D!BeginSave, D!EndSave,
             D!Startup, D!DaemonDies, D!DaemonStarts, D!daemonVars, D!appVars
  <2> QED BY <1>6, <2>1 DEF OutsideRuns, RunsAreAsked, vars, engineVars
<1>7. CASE UNCHANGED <<vars, desktopVars, due>>
    BY <1>7 DEF RunsAreAsked, vars, engineVars, desktopVars
<1> QED BY <1>1, <1>2, <1>3, <1>4, <1>5, <1>6, <1>7 DEF DesktopNext

\* No process of the tunnel outlives what waits for it: a run goes on only
\* while the daemon or the application has it on its books, whoever was killed
\* and whoever gave up.
THEOREM RunsAreAskedHolds == Wired => (DesktopSpec => []RunsAreAsked)
<1> SUFFICES ASSUME Wired
             PROVE  DesktopSpec => []RunsAreAsked
    OBVIOUS
<1>1. DesktopInit => RunsAreAsked
    BY DEF DesktopInit, Init, Engine!Init, RunsAreAsked, Wired
<1>2. EngineInv /\ RunsAreAsked /\ [DesktopNext]_<<vars, desktopVars, due>> => RunsAreAsked'
    BY RunsAreAskedStep
<1> QED BY <1>1, <1>2, ImplementsTunnel, EngineInvHolds, PTL DEF DesktopSpec

LEMMA OneRunPerClick == Wired => (DesktopSpec /\ []NoFallbackBesideRun => []OneAtATime)
<1> SUFFICES ASSUME Wired
             PROVE  DesktopSpec /\ []NoFallbackBesideRun => []OneAtATime
    OBVIOUS
<1>1. RunsAreAsked /\ NoFallbackBesideRun => OneAtATime
    BY DEF RunsAreAsked, NoFallbackBesideRun, OneAtATime
<1> QED BY <1>1, RunsAreAskedHolds, PTL

-------------------------------------------------------------------------------
\* What the composition inherits from the tunnel

\* Two runs of one click, the daemon's and the application's, may race: they never
\* stop a process that is not a wstunnel one of them started or read from the
\* record.
THEOREM RacingRunsStopOnlyTheirOwn == Wired => (DesktopSpec => StopsOnlyItsOwn)
BY ImplementsTunnel, StopsOnlyItsOwnHolds

\* The fallback beside a run of the daemon's is the only way to the route loop
\* that desktop_slow finds: without it there is none, whatever the page, the
\* application and the daemon do, deaths of the daemon and of its runs included.
THEOREM NoLoopWithoutRace == Wired => (DesktopSpec /\ []NoFallbackBesideRun => []NoLoop)
<1> SUFFICES ASSUME Wired
             PROVE  DesktopSpec /\ []NoFallbackBesideRun => []NoLoop
    OBVIOUS
<1> QED BY OneRunPerClick, ImplementsTunnel, NoLoopHolds, PTL

\* Nor do status and the Results say anything of the host that is not true.
THEOREM TruthWithoutRace ==
    Wired => (DesktopSpec /\ []NoFallbackBesideRun =>
                /\ []StatusIsTruthful
                /\ [][\A l \in Launchers : Return(l) => Claims(l)']_vars)
<1> SUFFICES ASSUME Wired
             PROVE  DesktopSpec /\ []NoFallbackBesideRun =>
                      /\ []StatusIsTruthful
                      /\ [][\A l \in Launchers : Return(l) => Claims(l)']_vars
    OBVIOUS
<1> QED BY OneRunPerClick, ImplementsTunnel, StatusIsTruthfulHolds, ReturnsAreTrue, PTL

-------------------------------------------------------------------------------
\* What it inherits from the application and the daemon

\* The instance the composition is written with and the one the proofs come
\* from are the same definitions.
LEMMA SameTerms ==
    /\ UNCHANGED D!vars => UNCHANGED DesktopParts!vars
    /\ \A S : D!Observe(S) <=> DesktopParts!Observe(S)
    /\ D!Released <=> DesktopParts!Released
    /\ \A h, ok : D!Ends(h, ok) <=> DesktopParts!Ends(h, ok)
    /\ \A t : D!Rendered(t) = DesktopParts!Rendered(t)
<1>1. UNCHANGED D!vars => UNCHANGED DesktopParts!vars
    BY DEF D!pageVars, DesktopParts!pageVars, D!memoryVars, DesktopParts!memoryVars,
           D!onceVars, DesktopParts!onceVars, D!appVars, DesktopParts!appVars, D!daemonVars,
           DesktopParts!daemonVars, D!vars, DesktopParts!vars
<1>2. \A S : D!Observe(S) <=> DesktopParts!Observe(S)
    BY DEF D!Busy, DesktopParts!Busy, D!InSpan, DesktopParts!InSpan, D!Overlaps,
           DesktopParts!Overlaps, D!Crosses, DesktopParts!Crosses, D!Observe,
           DesktopParts!Observe
<1>3. D!Released <=> DesktopParts!Released
    BY DEF D!Empty, DesktopParts!Empty, D!Busy, DesktopParts!Busy, D!Released,
           DesktopParts!Released
<1>4. \A h, ok : D!Ends(h, ok) <=> DesktopParts!Ends(h, ok)
    BY DEF D!Directories, DesktopParts!Directories, D!AfterSuccess, DesktopParts!AfterSuccess,
           D!Ending, DesktopParts!Ending, D!AfterFailure, DesktopParts!AfterFailure, D!Ends,
           DesktopParts!Ends
<1>5. \A t : D!Rendered(t) = DesktopParts!Rendered(t)
    BY DEF D!Empty, DesktopParts!Empty, D!Torn, DesktopParts!Torn, D!Load, DesktopParts!Load,
           D!Listed, DesktopParts!Listed, D!Rendered, DesktopParts!Rendered
<1> QED BY <1>1, <1>2, <1>3, <1>4, <1>5

LEMMA SameDesktop ==
    /\ D!Init => DesktopParts!Init
    /\ [D!Next]_D!vars => [DesktopParts!Next]_DesktopParts!vars
<1>1. D!Init => DesktopParts!Init
    BY DEF D!Empty, DesktopParts!Empty, D!Init, DesktopParts!Init
<1>2. ASSUME NEW t, D!Refresh(t)
      PROVE  DesktopParts!Refresh(t)
    BY <1>2, SameTerms
       DEF D!memoryVars, DesktopParts!memoryVars, D!onceVars, DesktopParts!onceVars,
           D!daemonVars, DesktopParts!daemonVars, D!Empty, DesktopParts!Empty, D!Torn,
           DesktopParts!Torn, D!Load, DesktopParts!Load, D!Busy, DesktopParts!Busy, D!Quiet,
           DesktopParts!Quiet, D!Listed, DesktopParts!Listed, D!Refresh, DesktopParts!Refresh
<1>3. ASSUME NEW t, D!Types(t)
      PROVE  DesktopParts!Types(t)
    BY <1>3, SameTerms
       DEF D!memoryVars, DesktopParts!memoryVars, D!onceVars, DesktopParts!onceVars,
           D!daemonVars, DesktopParts!daemonVars, D!Busy, DesktopParts!Busy, D!Quiet,
           DesktopParts!Quiet, D!Types, DesktopParts!Types
<1>4. ASSUME NEW t, D!GiveUp(t)
      PROVE  DesktopParts!GiveUp(t)
    BY <1>4, SameTerms
       DEF D!memoryVars, DesktopParts!memoryVars, D!onceVars, DesktopParts!onceVars,
           D!daemonVars, DesktopParts!daemonVars, D!Busy, DesktopParts!Busy, D!Quiet,
           DesktopParts!Quiet, D!GiveUp, DesktopParts!GiveUp
<1>5. ASSUME NEW t, NEW h, NEW o, D!Request(t, h, o)
      PROVE  DesktopParts!Request(t, h, o)
    BY <1>5
       DEF D!Privileged, DesktopParts!Privileged, D!Unprivileged, DesktopParts!Unprivileged,
           D!daemonVars, DesktopParts!daemonVars, D!Empty, DesktopParts!Empty, D!Torn,
           DesktopParts!Torn, D!Load, DesktopParts!Load, D!Busy, DesktopParts!Busy, D!InSpan,
           DesktopParts!InSpan, D!Overlaps, DesktopParts!Overlaps, D!Crosses,
           DesktopParts!Crosses, D!Observe, DesktopParts!Observe, D!Merged,
           DesktopParts!Merged, D!Refused, DesktopParts!Refused, D!Prepared,
           DesktopParts!Prepared, D!Request, DesktopParts!Request
<1>6. ASSUME NEW h, D!DaemonRefuses(h)
      PROVE  DesktopParts!DaemonRefuses(h)
    BY <1>6, SameTerms
       DEF D!pageVars, DesktopParts!pageVars, D!memoryVars, DesktopParts!memoryVars,
           D!onceVars, DesktopParts!onceVars, D!daemonVars, DesktopParts!daemonVars, D!Busy,
           DesktopParts!Busy, D!Quiet, DesktopParts!Quiet, D!DaemonRefuses,
           DesktopParts!DaemonRefuses
<1>7. ASSUME NEW h, D!Accept(h)
      PROVE  DesktopParts!Accept(h)
    BY <1>7, SameTerms
       DEF D!pageVars, DesktopParts!pageVars, D!memoryVars, DesktopParts!memoryVars,
           D!onceVars, DesktopParts!onceVars, D!Busy, DesktopParts!Busy, D!Quiet,
           DesktopParts!Quiet, D!Accept, DesktopParts!Accept
<1>8. ASSUME NEW h, D!FallBack(h)
      PROVE  DesktopParts!FallBack(h)
    BY <1>8, SameTerms
       DEF D!pageVars, DesktopParts!pageVars, D!memoryVars, DesktopParts!memoryVars,
           D!onceVars, DesktopParts!onceVars, D!Busy, DesktopParts!Busy, D!Quiet,
           DesktopParts!Quiet, D!CallFails, DesktopParts!CallFails, D!FallBack,
           DesktopParts!FallBack
<1>9. ASSUME NEW h, D!BeginSave(h)
      PROVE  DesktopParts!BeginSave(h)
    BY <1>9, SameTerms
       DEF D!pageVars, DesktopParts!pageVars, D!memoryVars, DesktopParts!memoryVars,
           D!onceVars, DesktopParts!onceVars, D!daemonVars, DesktopParts!daemonVars, D!Torn,
           DesktopParts!Torn, D!Busy, DesktopParts!Busy, D!Quiet, DesktopParts!Quiet,
           D!BeginSave, DesktopParts!BeginSave
<1>10. ASSUME NEW h, D!EndSave(h)
      PROVE  DesktopParts!EndSave(h)
    BY <1>10, SameTerms
       DEF D!onceVars, DesktopParts!onceVars, D!daemonVars, DesktopParts!daemonVars, D!Empty,
           DesktopParts!Empty, D!Torn, DesktopParts!Torn, D!Busy, DesktopParts!Busy,
           D!ClearsSession, DesktopParts!ClearsSession, D!Payload, DesktopParts!Payload,
           D!EndSave, DesktopParts!EndSave
<1>11. ASSUME NEW h, D!CancelChild(h)
      PROVE  DesktopParts!CancelChild(h)
    BY <1>11, SameTerms
       DEF D!pageVars, DesktopParts!pageVars, D!onceVars, DesktopParts!onceVars, D!Empty,
           DesktopParts!Empty, D!Busy, DesktopParts!Busy, D!Quiet, DesktopParts!Quiet,
           D!Response, DesktopParts!Response, D!Answers, DesktopParts!Answers, D!Cancelled,
           DesktopParts!Cancelled, D!CancelChild, DesktopParts!CancelChild
<1>12. ASSUME NEW h, D!ChildDiesWithDaemon(h)
      PROVE  DesktopParts!ChildDiesWithDaemon(h)
    BY <1>12, SameTerms
       DEF D!pageVars, DesktopParts!pageVars, D!onceVars, DesktopParts!onceVars, D!Empty,
           DesktopParts!Empty, D!Busy, DesktopParts!Busy, D!Quiet, DesktopParts!Quiet,
           D!Response, DesktopParts!Response, D!Answers, DesktopParts!Answers,
           D!ChildDiesWithDaemon, DesktopParts!ChildDiesWithDaemon
<1>13. ASSUME NEW h, NEW ok, D!CLIExits(h, ok)
      PROVE  DesktopParts!CLIExits(h, ok)
    BY <1>13
       DEF D!pageVars, DesktopParts!pageVars, D!onceVars, DesktopParts!onceVars, D!daemonVars,
           DesktopParts!daemonVars, D!Empty, DesktopParts!Empty, D!Torn, DesktopParts!Torn,
           D!Directories, DesktopParts!Directories, D!Load, DesktopParts!Load, D!AfterSuccess,
           DesktopParts!AfterSuccess, D!Ending, DesktopParts!Ending, D!AfterFailure,
           DesktopParts!AfterFailure, D!Ends, DesktopParts!Ends, D!Busy, DesktopParts!Busy,
           D!InSpan, DesktopParts!InSpan, D!Overlaps, DesktopParts!Overlaps, D!Crosses,
           DesktopParts!Crosses, D!Observe, DesktopParts!Observe, D!Released,
           DesktopParts!Released, D!CLIExits, DesktopParts!CLIExits
<1>14. ASSUME NEW h, NEW ok, D!ChildExits(h, ok)
      PROVE  DesktopParts!ChildExits(h, ok)
    BY <1>14, SameTerms
       DEF D!pageVars, DesktopParts!pageVars, D!onceVars, DesktopParts!onceVars, D!Empty,
           DesktopParts!Empty, D!Busy, DesktopParts!Busy, D!Quiet, DesktopParts!Quiet,
           D!Response, DesktopParts!Response, D!Answers, DesktopParts!Answers, D!ChildExits,
           DesktopParts!ChildExits
<1>15. ASSUME D!Startup
      PROVE  DesktopParts!Startup
    BY <1>15, SameTerms
       DEF D!pageVars, DesktopParts!pageVars, D!daemonVars, DesktopParts!daemonVars, D!Busy,
           DesktopParts!Busy, D!Quiet, DesktopParts!Quiet, D!Listed, DesktopParts!Listed,
           D!Startup, DesktopParts!Startup
<1>16. ASSUME D!Restart
      PROVE  DesktopParts!Restart
    BY <1>16, SameTerms
       DEF D!Empty, DesktopParts!Empty, D!Torn, DesktopParts!Torn, D!Busy, DesktopParts!Busy,
           D!Restart, DesktopParts!Restart
<1>17. ASSUME D!DaemonDies
      PROVE  DesktopParts!DaemonDies
    BY <1>17, SameTerms
       DEF D!pageVars, DesktopParts!pageVars, D!memoryVars, DesktopParts!memoryVars,
           D!onceVars, DesktopParts!onceVars, D!appVars, DesktopParts!appVars, D!Busy,
           DesktopParts!Busy, D!Quiet, DesktopParts!Quiet, D!DaemonDies,
           DesktopParts!DaemonDies
<1>18. ASSUME D!DaemonStarts
      PROVE  DesktopParts!DaemonStarts
    BY <1>18, SameTerms
       DEF D!pageVars, DesktopParts!pageVars, D!memoryVars, DesktopParts!memoryVars,
           D!onceVars, DesktopParts!onceVars, D!appVars, DesktopParts!appVars, D!Busy,
           DesktopParts!Busy, D!Quiet, DesktopParts!Quiet, D!DaemonStarts,
           DesktopParts!DaemonStarts
<1>19. ASSUME NEW s, D!SessionEnds(s)
      PROVE  DesktopParts!SessionEnds(s)
    BY <1>19, SameTerms
       DEF D!pageVars, DesktopParts!pageVars, D!memoryVars, DesktopParts!memoryVars,
           D!onceVars, DesktopParts!onceVars, D!appVars, DesktopParts!appVars, D!daemonVars,
           DesktopParts!daemonVars, D!Busy, DesktopParts!Busy, D!Quiet, DesktopParts!Quiet,
           D!SessionEnds, DesktopParts!SessionEnds
<1> QED BY <1>1, <1>2, <1>3, <1>4, <1>5, <1>6, <1>7, <1>8, <1>9, <1>10,
       <1>11, <1>12, <1>13, <1>14, <1>15, <1>16, <1>17, <1>18, <1>19, SameTerms
       DEF D!Next, DesktopParts!Next, D!HandlerStep, DesktopParts!HandlerStep, D!DaemonStep,
           DesktopParts!DaemonStep

LEMMA SameClaims ==
    /\ DesktopParts!TypeOK <=> D!TypeOK
    /\ DesktopParts!KeepsWhatWasSaved => D!KeepsWhatWasSaved
<1>1. DesktopParts!TypeOK <=> D!TypeOK
    BY DEF D!State, DesktopParts!State, D!Torn, DesktopParts!Torn, D!Phases,
           DesktopParts!Phases, D!Directories, DesktopParts!Directories, D!TypeOK,
           DesktopParts!TypeOK
<1>2. ASSUME [\A h \in Handlers \ mixed : DesktopParts!EndSave(h) =>
                /\ saved.profile => saved'.profile
                /\ saved.session # None /\ saved'.session = None =>
                      op[h] \in {"stop", "cleanup"} /\ (h \in crossed \/ dir[mine[h].session] # "whole")]_DesktopParts!vars
      PROVE  [\A h \in Handlers \ mixed : D!EndSave(h) =>
                /\ saved.profile => saved'.profile
                /\ saved.session # None /\ saved'.session = None =>
                      op[h] \in {"stop", "cleanup"} /\ (h \in crossed \/ dir[mine[h].session] # "whole")]_D!vars
    BY <1>2, SameTerms
       DEF D!Busy, DesktopParts!Busy, D!ClearsSession, DesktopParts!ClearsSession, D!Empty,
           DesktopParts!Empty, D!EndSave, DesktopParts!EndSave, D!Payload,
           DesktopParts!Payload, D!Torn, DesktopParts!Torn, D!appVars, DesktopParts!appVars,
           D!daemonVars, DesktopParts!daemonVars, D!memoryVars, DesktopParts!memoryVars,
           D!onceVars, DesktopParts!onceVars, D!pageVars, DesktopParts!pageVars, D!vars,
           DesktopParts!vars
<1> QED BY <1>1, <1>2, PTL DEF DesktopParts!KeepsWhatWasSaved, D!KeepsWhatWasSaved

LEMMA PartsHold == Wired => (DesktopSpec => DesktopParts!Spec)
<1> SUFFICES ASSUME Wired
             PROVE  DesktopSpec => DesktopParts!Spec
    OBVIOUS
<1> QED BY ImplementsDesktop, SameDesktop, PTL DEF D!Spec, DesktopParts!Spec

\* The state of the composition has its types.
THEOREM CompositionTyped == Wired => (DesktopSpec => [](TypeOK /\ D!TypeOK))
<1> SUFFICES ASSUME Wired
             PROVE  DesktopSpec => [](TypeOK /\ D!TypeOK)
    OBVIOUS
<1>1. DesktopParts!Spec => []DesktopParts!TypeOK
    BY DesktopParts!TypeCorrect DEF Wired, D!DesktopAssumption, D!Privileged, D!Unprivileged,
           DesktopParts!Privileged, DesktopParts!Unprivileged
<1> QED BY <1>1, ImplementsTunnel, PartsHold, SameClaims, TypeCorrect, PTL

\* A connect or disconnect that fails, is killed or races another one loses nothing
\* of gui-state.json.
THEOREM RunsLoseNothingSaved == Wired => (DesktopSpec => D!KeepsWhatWasSaved)
<1> SUFFICES ASSUME Wired
             PROVE  DesktopSpec => D!KeepsWhatWasSaved
    OBVIOUS
<1>1. DesktopParts!Spec => DesktopParts!KeepsWhatWasSaved
    BY DesktopParts!KeepsWhatWasSavedHolds DEF Wired, D!DesktopAssumption, D!Privileged, D!Unprivileged,
           DesktopParts!Privileged, DesktopParts!Unprivileged
<1> QED BY <1>1, PartsHold, SameClaims, PTL

-------------------------------------------------------------------------------
\* From the host to the answer

\* What the run behind a click is doing, and what has come of it, is what the
\* click asked for.
Serves(l) ==
    /\ mode[l] \in {"connect", "rollback"} => op[Clicked] = "connect"
    /\ mode[l] = "disconnect" => op[Clicked] = "disconnect"
    /\ mode[l] = "off" =>
          /\ Claims(l)
          /\ outcome[l] = "Connected" => op[Clicked] = "connect"
          /\ outcome[l] = "Idle" => op[Clicked] = "disconnect"

AnswerInv ==
    /\ Clicked \in child /\ Helper \notin due => Serves(Helper)
    /\ Clicked \in cli /\ Own \notin due /\ op[Clicked] \in {"connect", "disconnect"} => Serves(Own)
    /\ ~daemon /\ Clicked \in child => Clicked \in gone
    /\ phase[Clicked] \in {"save", "write"} /\ result[Clicked] => Clicked \notin child \cup cli
    /\ OkIsTrueOfHost

\* What the parts guarantee in every state without a fallback beside a run.
Unraced ==
    /\ OutcomeInv /\ OneAtATime /\ StatusIsTruthful /\ RunsAreAsked /\ NoFallbackBesideRun
    /\ DesktopParts!TypeOK /\ DesktopParts!NoOkBeforeItsRun

LEMMA HostKeepsClaims ==
    ASSUME UNCHANGED vars
    PROVE  /\ UNCHANGED <<mode, outcome, disclosed>> /\ Up' = Up /\ Clean' = Clean
           /\ \A l : Claims(l)' = Claims(l)
BY DEF vars, engineVars, hostVars, memoryVars, Up, Clean, Claims, Removed

LEMMA ServesStays ==
    ASSUME UNCHANGED vars, op'[Clicked] = op[Clicked]
    PROVE  \A l : Serves(l)' = Serves(l)
BY HostKeepsClaims DEF Serves

\* An exit status of 0 speaks of the host as it is.
LEMMA ExitIsTrue ==
    ASSUME Wired, Unraced, AnswerInv, NEW l \in {Helper, Own}, mode[l] = "off", TRUE \in ExitsOk(l),
           IF l = Helper THEN Clicked \in child ELSE Clicked \in cli
    PROVE  ~disclosed => (op[Clicked] = "connect" => Up) /\ (op[Clicked] = "disconnect" => Clean)
<1>1. CASE l \in due
  <2>1. op[Clicked] = "connect" /\ Status = "Connected"
      BY <1>1 DEF ExitsOk
  <2>2. AllOff
      BY DEF AllOff, Unraced, RunsAreAsked, NoFallbackBesideRun, Wired
  <2> QED BY <2>1, <2>2 DEF Unraced, StatusIsTruthful
<1>2. CASE l \notin due
  <2>1. outcome[l] \in {"Connected", "Idle"}
      BY <1>2 DEF ExitsOk
  <2>2. CASE op[Clicked] \in {"connect", "disconnect"}
    <3>1. Serves(l)
        BY <1>2, <2>2 DEF AnswerInv, Wired
    <3> QED BY <2>1, <3>1 DEF Serves, Claims
  <2> QED BY <2>2
<1> QED BY <1>1, <1>2

\* An answer to a handler, or the end of a run that nobody waits for.
LEMMA AnswerKeepsAnswerInv ==
    ASSUME Wired, Unraced, AnswerInv, NEW ok \in BOOLEAN, D!Answers(Clicked, ok), due' = due \ {Helper},
           UNCHANGED daemon,
           \/ Clicked \in gone
           \/ UNCHANGED vars /\ mode[Helper] = "off" /\ ok \in ExitsOk(Helper)
    PROVE  AnswerInv'
<1>1. Clicked \in child /\ Clicked \notin child' /\ Clicked \notin cli'
    BY DEF D!Answers, Unraced, NoFallbackBesideRun
<1>2. ~result[Clicked] \/ phase[Clicked] \notin {"save", "write"}
    BY <1>1 DEF AnswerInv
<1>3. CASE Clicked \in gone
  <2>1. UNCHANGED phase /\ D!Released
      BY <1>3 DEF D!Answers
  <2>2. result'[Clicked] => result[Clicked]
      BY <2>1 DEF D!Released, Wired
  <2>3. ~(phase'[Clicked] \in {"save", "write"} /\ result'[Clicked])
      BY <1>2, <2>1, <2>2
  <2> QED BY <1>1, <2>3 DEF AnswerInv, OkIsTrueOfHost
<1>4. CASE Clicked \notin gone
  <2>1. /\ result' = [result EXCEPT ![Clicked] = D!Response(ok)]
        /\ UNCHANGED op
      BY <1>4 DEF D!Answers
  <2>2. result'[Clicked] = ok
      BY <2>1 DEF D!Response, Unraced, DesktopParts!TypeOK, Wired
  <2>3. UNCHANGED vars /\ mode[Helper] = "off" /\ ok \in ExitsOk(Helper)
      BY <1>4
  <2>4. ok => (~disclosed => (op[Clicked] = "connect" => Up) /\ (op[Clicked] = "disconnect" => Clean))
      BY <1>1, <2>3, ExitIsTrue
  <2> QED BY <1>1, <2>1, <2>2, <2>3, <2>4, HostKeepsClaims DEF AnswerInv, OkIsTrueOfHost
<1> QED BY <1>3, <1>4

\* Between runs the host stays as it is, and so does what a click asked for.
LEMMA OutsideKeepsAnswerInv ==
    ASSUME Wired, Unraced, AnswerInv, OutsideRuns
    PROVE  AnswerInv'
<1>0. UNCHANGED vars /\ UNCHANGED due
    BY DEF OutsideRuns
<1>1. ASSUME UNCHANGED <<op, result, child>>,
             Clicked \in cli' => Clicked \in cli,
             phase'[Clicked] = phase[Clicked] \/ (phase[Clicked] = "save" /\ phase'[Clicked] = "write"),
             ~daemon' /\ Clicked \in child => Clicked \in gone'
      PROVE  AnswerInv'
    BY <1>0, <1>1, HostKeepsClaims, ServesStays DEF AnswerInv, OkIsTrueOfHost
<1>2. ASSUME NEW t \in Tabs, D!Refresh(t) \/ D!GiveUp(t)
      PROVE  AnswerInv'
    BY <1>1, <1>2 DEF D!Refresh, D!GiveUp, D!memoryVars, D!onceVars, D!daemonVars, AnswerInv
<1>3. ASSUME NEW t \in Tabs, NEW o \in Operations, D!Request(t, Clicked, o)
      PROVE  AnswerInv'
  <2>1. /\ Clicked \notin child \cup cli /\ child' = child
        /\ op'[Clicked] = o
        /\ o \notin D!Unprivileged => cli' = cli
        /\ o \in D!Privileged => phase'[Clicked] = "call"
        /\ o \in D!Unprivileged => phase'[Clicked] = "cli"
      BY <1>3 DEF D!Request, D!Busy, D!daemonVars, D!Privileged, D!Unprivileged, Unraced, DesktopParts!TypeOK, Wired
  <2> QED BY <2>1 DEF AnswerInv, OkIsTrueOfHost, D!Privileged, D!Unprivileged
<1>4. CASE D!DaemonRefuses(Clicked)
  <2>1. phase[Clicked] = "call" /\ UNCHANGED <<op, result, cli, child, gone, daemon>>
      BY <1>4 DEF D!DaemonRefuses, D!memoryVars, D!daemonVars
  <2>2. ~result'[Clicked]
      BY <2>1 DEF Unraced, DesktopParts!NoOkBeforeItsRun, Wired
  <2> QED BY <1>0, <2>1, <2>2, ServesStays DEF AnswerInv, OkIsTrueOfHost
<1>5. CASE D!BeginSave(Clicked)
  <2>1. phase[Clicked] = "save" /\ phase'[Clicked] = "write" /\ UNCHANGED <<op, result, cli, child, gone, daemon>>
      BY <1>5 DEF D!BeginSave, D!memoryVars, D!daemonVars, Unraced, DesktopParts!TypeOK, Wired
  <2> QED BY <1>1, <2>1 DEF AnswerInv
<1>6. CASE D!EndSave(Clicked)
  <2>1. phase'[Clicked] = "free" /\ UNCHANGED <<cli, child, gone, daemon>> /\ D!Released
      BY <1>6 DEF D!EndSave, D!daemonVars, Unraced, DesktopParts!TypeOK, Wired
  <2>2. Clicked \in child \cup cli => op'[Clicked] = op[Clicked]
      BY <2>1 DEF D!Released, D!Busy, Wired
  <2> QED BY <1>0, <2>1, <2>2, ServesStays DEF AnswerInv, OkIsTrueOfHost
<1>7. CASE D!Startup
  <2>1. /\ phase'[Clicked] = phase[Clicked] /\ op'[Clicked] = op[Clicked] /\ UNCHANGED <<result, child, gone, daemon>>
        /\ Clicked \in cli' => Clicked \in cli
      BY <1>7 DEF D!Startup, D!daemonVars, Unraced, DesktopParts!TypeOK, Wired
  <2> QED BY <1>0, <2>1, HostKeepsClaims, ServesStays DEF AnswerInv, OkIsTrueOfHost
<1>8. CASE D!DaemonDies \/ D!DaemonStarts
  <2>1. /\ UNCHANGED <<phase, op, result, cli, child>>
        /\ ~daemon' /\ Clicked \in child => Clicked \in gone'
      BY <1>8 DEF D!DaemonDies, D!DaemonStarts, D!appVars, D!memoryVars
  <2> QED BY <1>1, <2>1
<1> QED BY <1>2, <1>3, <1>4, <1>5, <1>6, <1>7, <1>8 DEF OutsideRuns

LEMMA AnswerInvStep ==
    ASSUME Wired, Unraced, Unraced', AnswerInv, [DesktopNext]_<<vars, desktopVars, due>>
    PROVE  AnswerInv'
<1>1. CASE D!Accept(Clicked) /\ due' = due \cup {Helper} /\ UNCHANGED vars
  <2>1. phase'[Clicked] = "wait" /\ daemon' /\ UNCHANGED <<op, cli>>
      BY <1>1 DEF D!Accept, D!memoryVars, Unraced, DesktopParts!TypeOK, Wired
  <2> QED BY <1>1, <2>1, ServesStays DEF AnswerInv, OkIsTrueOfHost, Wired
<1>2. CASE D!FallBack(Clicked) /\ due' = due \cup {l \in {Own} : cli' # cli} /\ UNCHANGED vars
  <2>1. /\ phase[Clicked] \in {"call", "wait"} /\ UNCHANGED <<op, result, child, daemon>>
        /\ gone \subseteq gone'
      BY <1>2 DEF D!FallBack, D!CallFails, D!memoryVars
  <2>2. ~result'[Clicked]
      BY <2>1 DEF Unraced, DesktopParts!NoOkBeforeItsRun, Wired
  <2>3. Own \notin due' => cli' = cli /\ Own \notin due
      BY <1>2
  <2>4. Helper \notin due' => Helper \notin due
      BY <1>2
  <2> QED BY <1>2, <2>1, <2>2, <2>3, <2>4, ServesStays DEF AnswerInv, OkIsTrueOfHost
<1>3. ASSUME NEW l \in {Helper, Own}, UNCHANGED desktopVars,
             IF l = Helper THEN Clicked \in child ELSE Clicked \in cli,
             due' = due \/ due' = due \ {l},
             l \notin due' => Serves(l)' \/ (op[Clicked] \notin {"connect", "disconnect"} /\ l # Helper)
      PROVE  AnswerInv'
  <2>1. UNCHANGED <<phase, op, result, cli, child, daemon, gone>>
      BY <1>3 DEF desktopVars
  <2>2. Clicked \notin child \cap cli
      BY DEF Unraced, NoFallbackBesideRun
  <2>3. ~(phase'[Clicked] \in {"save", "write"} /\ result'[Clicked])
      BY <1>3, <2>1 DEF AnswerInv
  <2> QED BY <1>3, <2>1, <2>2, <2>3 DEF AnswerInv, OkIsTrueOfHost, Wired
<1>4. ASSUME NEW l \in Launchers, BeginsRun(l)
      PROVE  AnswerInv'
  <2>1. l \in {Helper, Own} /\ IF l = Helper THEN Clicked \in child ELSE Clicked \in cli
      BY <1>4 DEF BeginsRun, Unraced, RunsAreAsked
  <2>2. Serves(l)'
    <3>1. CASE \E ips \in SUBSET Endpoints, withDNS \in BOOLEAN : StartConnect(l, ips, withDNS)
      <4>1. mode'[l] = "connect"
          BY <3>1 DEF StartConnect, Engine!Begin, Unraced, OutcomeInv, EngineInv, Engine!TypeOK
      <4>2. op[Clicked] = "connect" \/ StartDisconnect(l)
          BY <1>4 DEF BeginsRun
      <4>3. StartDisconnect(l) => mode'[l] = "disconnect"
          BY DEF StartDisconnect, Engine!Begin, Unraced, OutcomeInv, EngineInv, Engine!TypeOK
      <4> QED BY <1>4, <4>1, <4>2, <4>3 DEF BeginsRun, desktopVars, Serves
    <3>2. CASE op[Clicked] = "disconnect" /\ StartDisconnect(l)
      <4>1. mode'[l] = "disconnect"
          BY <3>2 DEF StartDisconnect, Engine!Begin, Unraced, OutcomeInv, EngineInv, Engine!TypeOK
      <4> QED BY <1>4, <3>2, <4>1 DEF BeginsRun, desktopVars, Serves
    <3> QED BY <1>4, <3>1, <3>2 DEF BeginsRun
  <2>3. due' = due \ {l} /\ UNCHANGED desktopVars
      BY <1>4 DEF BeginsRun
  <2> QED BY <1>3, <2>1, <2>2, <2>3
<1>5. ASSUME NEW l \in Launchers, Step(l), UNCHANGED <<desktopVars, due>>
      PROVE  AnswerInv'
  <2>1. mode[l] # "off"
      BY <1>5, StepIsItsOwn DEF Unraced, OutcomeInv
  <2>2. l \in {Helper, Own} /\ IF l = Helper THEN Clicked \in child ELSE Clicked \in cli
      BY <1>5, <2>1 DEF Unraced, RunsAreAsked
  <2>3. ASSUME Serves(l)
        PROVE  Serves(l)'
    <3>1. op' = op
        BY <1>5 DEF desktopVars
    <3>2. CASE Return(l)
      <4>1. Claims(l)'
          BY <3>2, ReturnClaims DEF Unraced
      <4>2. mode'[l] = "off" /\ outcome'[l] = Engine!Verdict(l)
          BY <3>2 DEF Return, Engine!Return, Unraced, OutcomeInv, EngineInv, Engine!TypeOK
      <4>3. mode[l] \in {"connect", "rollback", "disconnect"}
          BY <2>1 DEF Unraced, OutcomeInv, EngineInv, Engine!TypeOK, Engine!Modes
      <4>4. /\ Engine!Verdict(l) = "Connected" => mode[l] = "connect"
            /\ Engine!Verdict(l) = "Idle" => mode[l] = "disconnect"
          BY <4>3 DEF Engine!Verdict
      <4> QED BY <2>3, <3>1, <4>1, <4>2, <4>4 DEF Serves
    <3>3. CASE ~Return(l)
      <4>1. \/ mode[l] # "off" /\ mode'[l] = mode[l]
            \/ mode[l] = "connect" /\ mode'[l] = "rollback"
          BY <1>5, <3>3, StepGoesOn DEF Unraced, OutcomeInv
      <4> QED BY <2>3, <3>1, <4>1 DEF Serves
    <3> QED BY <3>2, <3>3
  <2>4. l \notin due' => Serves(l) \/ (op[Clicked] \notin {"connect", "disconnect"} /\ l # Helper)
      BY <1>5, <2>2 DEF AnswerInv, Wired
  <2> QED BY <1>3, <1>5, <2>2, <2>3, <2>4
<1>6. ASSUME NEW ok \in ExitsOk(Helper), mode[Helper] = "off", D!ChildExits(Clicked, ok),
             due' = due \ {Helper}, UNCHANGED vars
      PROVE  AnswerInv'
  <2>1. D!Answers(Clicked, ok) /\ UNCHANGED daemon
      BY <1>6 DEF D!ChildExits, D!Answers
  <2> QED BY <1>6, <2>1, ExitStatus, AnswerKeepsAnswerInv
<1>7. ASSUME NEW ok \in ExitsOk(Own), mode[Own] = "off", D!CLIExits(Clicked, ok),
             due' = due \ {Own}, UNCHANGED vars
      PROVE  AnswerInv'
  <2>1. /\ Clicked \in cli /\ Clicked \notin cli' /\ Clicked \notin child'
        /\ UNCHANGED <<child, gone, daemon>>
      BY <1>7 DEF D!CLIExits, D!daemonVars, Unraced, NoFallbackBesideRun
  <2>2. CASE phase[Clicked] = "cli"
    <3>1. PICK told \in {ok, FALSE} : result' = [result EXCEPT ![Clicked] = told] /\ UNCHANGED op
        BY <1>7, <2>2 DEF D!CLIExits
    <3>2. result'[Clicked] = told
        BY <3>1 DEF Unraced, DesktopParts!TypeOK, Wired
    <3>3. ok => TRUE \in ExitsOk(Own)
        BY <1>7, ExitStatus
    <3>4. ok => (~disclosed => (op[Clicked] = "connect" => Up) /\ (op[Clicked] = "disconnect" => Clean))
        BY <1>7, <2>1, <3>3, ExitIsTrue DEF Wired
    <3>5. result'[Clicked] => ok
        BY <3>2
    <3>6. OkIsTrueOfHost'
        BY <1>7, <3>1, <3>4, <3>5, HostKeepsClaims DEF OkIsTrueOfHost
    <3> QED BY <2>1, <3>6 DEF AnswerInv
  <2>3. CASE phase[Clicked] # "cli"
    <3>1. UNCHANGED phase /\ D!Released
        BY <1>7, <2>3 DEF D!CLIExits
    <3>2. result'[Clicked] => result[Clicked]
        BY <3>1 DEF D!Released, Wired
    <3>3. ~(phase'[Clicked] \in {"save", "write"} /\ result'[Clicked])
        BY <2>1, <3>1, <3>2 DEF AnswerInv
    <3> QED BY <2>1, <3>3 DEF AnswerInv, OkIsTrueOfHost
  <2> QED BY <2>2, <2>3
<1>8. CASE ProcessKilled
  <2>1. PICK ok \in BOOLEAN : D!Answers(Clicked, ok) /\ (D!Cancelled(Clicked) \/ ~daemon)
      BY <1>8 DEF ProcessKilled, D!CancelChild, D!ChildDiesWithDaemon
  <2>2. Clicked \in child /\ Clicked \in gone /\ UNCHANGED daemon
      BY <2>1 DEF D!Answers, D!Cancelled, AnswerInv
  <2> QED BY <1>8, <2>1, <2>2, AnswerKeepsAnswerInv DEF ProcessKilled
<1>9. CASE OutsideRuns
    BY <1>9, OutsideKeepsAnswerInv
<1>10. CASE UNCHANGED <<vars, desktopVars, due>>
  <2>1. UNCHANGED <<phase, op, result, cli, child, daemon, gone>>
      BY <1>10 DEF desktopVars
  <2> QED BY <1>10, <2>1, HostKeepsClaims, ServesStays DEF AnswerInv, OkIsTrueOfHost
<1> QED
    BY <1>1, <1>2, <1>4, <1>5, <1>6, <1>7, <1>8, <1>9, <1>10 DEF DesktopNext, StartsProcess, ProcessExits

\* From the page to the host: an answer OK is true, whichever of the two CLI runs
\* gave it, over failures, deaths and fallbacks, as long as the application does
\* not fall back beside a run of the daemon's.
THEOREM OkIsTrueHolds == Wired => (DesktopSpec /\ []NoFallbackBesideRun => []OkIsTrueOfHost)
<1> SUFFICES ASSUME Wired
             PROVE  DesktopSpec /\ []NoFallbackBesideRun => []OkIsTrueOfHost
    OBVIOUS
<1>1. DesktopInit => AnswerInv
    BY DEF DesktopInit, D!Init, AnswerInv, OkIsTrueOfHost, Wired
<1>2. Unraced /\ Unraced' /\ AnswerInv /\ [DesktopNext]_<<vars, desktopVars, due>> => AnswerInv'
    BY AnswerInvStep
<1>3. DesktopParts!Spec => []DesktopParts!IInv
    BY DesktopParts!IInvHolds DEF Wired, D!DesktopAssumption, D!Privileged, D!Unprivileged,
           DesktopParts!Privileged, DesktopParts!Unprivileged
<1>4. DesktopParts!IInv => DesktopParts!TypeOK /\ DesktopParts!NoOkBeforeItsRun
    BY DEF DesktopParts!IInv
<1>5. OutcomeInv /\ OneAtATime /\ StatusIsTruthful /\ RunsAreAsked /\ NoFallbackBesideRun
        /\ DesktopParts!TypeOK /\ DesktopParts!NoOkBeforeItsRun => Unraced
    BY DEF Unraced
<1>6. DesktopSpec /\ []NoFallbackBesideRun => []Unraced
    BY <1>3, <1>4, <1>5, OneRunPerClick, ImplementsTunnel, OutcomeInvHolds, StatusIsTruthfulHolds,
       RunsAreAskedHolds, PartsHold, PTL
<1>7. AnswerInv => OkIsTrueOfHost
    BY DEF AnswerInv
<1> QED BY <1>1, <1>2, <1>6, <1>7, PTL DEF DesktopSpec
===============================================================================
