----------------------------- MODULE MCComputer -----------------------------
(***************************************************************************)
(* How a synth gets the computer, for TLC: the driver daemon and the       *)
(* sessions that hold it (Computer), whose turn it is to act (Lease),      *)
(* which app a call is about (Directory), and the gate in front of the     *)
(* owner's own apps (OwnApps).  None reads what another keeps, so a        *)
(* behaviour is of one kind and the other variables rest.                  *)
(*                                                                         *)
(* Two sessions, of which one only reads the catalog.  Two synths, one of  *)
(* them with two streams open, so that a call is checked before and taken  *)
(* after an action of the other.  One app runs; the other runs too and     *)
(* owns the windows, or is not there yet.  Two calls to the owner's apps,  *)
(* of any two kinds.                                                       *)
(***************************************************************************)
EXTENDS Computer, Lease, Directory, OwnApps

CONSTANTS d1, d2, c1, c2, c3, s1, s2, j1, j2

VARIABLE kind

MCSynthOf == [c \in Streams |-> IF c = c3 THEN s2 ELSE s1]

MCScreens ==
    {[runs |-> [p \in Pids |-> IF p = "p1" THEN "mail" ELSE other], owner |-> [w \in Windows |-> IF other = Nil THEN "p1" ELSE "p2"],
      installed |-> {"mail", other} \ {Nil}] : other \in {"bank", Nil}}

Order == [send |-> 1, run |-> 2, feed |-> 3, file |-> 4, show |-> 5]

DriveInit ==
    /\ ComputerInit /\ Init /\ DirectoryInit /\ screen \in MCScreens /\ OwnAppsInit
    /\ \/ kind \in {"sessions", "lease", "own"} /\ scope = "all" /\ screen.installed = {"mail"}
       \/ kind = "apps"
    /\ kind # "own" => appsMode = "ask" /\ asksFor = [j \in Jobs |-> "show"]
    /\ Order[asksFor[j1]] <= Order[asksFor[j2]]

SessionStep == kind = "sessions" /\ ComputerNext /\ UNCHANGED <<kind, vars, dirVars, ownAppsVars>>
LeaseStep == kind = "lease" /\ Next /\ UNCHANGED <<kind, computerVars, dirVars, ownAppsVars>>
DirectoryStep == kind = "apps" /\ DirectoryNext /\ UNCHANGED <<kind, computerVars, vars, ownAppsVars>>
OwnAppsStep == kind = "own" /\ OwnAppsNext /\ UNCHANGED <<kind, computerVars, vars, dirVars>>

DriveSpec ==
    DriveInit /\ [][SessionStep \/ LeaseStep \/ DirectoryStep \/ OwnAppsStep]_<<kind, computerVars, vars, dirVars, ownAppsVars>>

\* Every variable of the four modules has its type; no lease is from the
\* future, no reading is counted past its time, and a call that reads is at
\* a step that reads.
DriveTypeOK ==
    CASE kind = "sessions" -> ComputerTypeOK /\ HistoryTypeOK
      [] kind = "lease"    -> TypeOK
      [] kind = "apps"     -> DirectoryTypeOK
      [] kind = "own"      -> OwnAppsTypeOK

\* The daemon is the sessions': the count that keeps it alive is theirs, and
\* it is not replaced under one that is open (core.rs, Cua; mcp.rs, stream_cua).
DaemonIsTheSessions == DriveTypeOK /\ CountIsRight /\ NotReplacedUnderSession

\* The daemon is stopped and its copies are taken away when they may be: not started
\* again behind a pause, not taken from one that runs, not stopped under a session
\* that was counted; each up to what the wait for its lock lets pass (core.rs,
\* cua_endpoint_at, pause, cua_ensure; cua_install.rs).
StopsAreRight == PauseStopsDaemon /\ OldCopyIsHeld /\ LookSparesSessions

\* Nothing happens to an app the owner excluded; in the owner's own apps
\* nothing happens that they did not let, the journal tells it as it was, no
\* tool outlives its call and the quota of a minute holds (cua_apps.rs;
\* apps/mod.rs, handle).
AppsAreTheOwners ==
    ExcludedUntouched /\ DoneAsAllowed /\ JournalIsTrue /\ NoToolLeftBehind /\ MinuteIsBounded
=============================================================================
