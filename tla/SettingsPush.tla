---------------------------- MODULE SettingsPush ----------------------------
(***************************************************************************)
(* How a change of the owner's settings reaches a linked synth.  The hello *)
(* of a control stream carries `settings_rev` and the capabilities; after  *)
(* it every change is announced on the watch channel `settings_tx` and the *)
(* stream's writer sends a `settings` message (core.rs, mutate_settings;   *)
(* link.rs, control_loop).                                                 *)
(*                                                                         *)
(* The settings are known by the revision that made them: capabilities     *)
(* "of revision r" are the ones computed from those settings.  Changes of  *)
(* the look alone move neither and are left out.  A message is received    *)
(* when it is written.  One link; every link does the same.                *)
(***************************************************************************)
EXTENDS Integers

CONSTANTS Changers,     \* threads that change settings (the window, the island)
          MaxRev,       \* bound: changes made
          None

ASSUME SettingsPushAssumption == MaxRev \in Nat /\ None \notin Nat

Revs == 0 .. MaxRev

VARIABLES
    rev,        \* persisted.rev, and with it the settings
    mine,       \* each changer's revision that is not announced yet
    told, ver,  \* settings_tx: the value, and its version
    stage,      \* where the control stream stands
    heard,      \* the version its receiver has seen
    msg,        \* the message it is putting together
    synth       \* the last message the synth has on this link

pushVars == <<rev, mine, told, ver, stage, heard, msg, synth>>

PushTypeOK ==
    /\ rev \in Revs /\ told \in Revs /\ ver \in Revs /\ heard \in Revs
    /\ mine \in [Changers -> Revs \cup {None}]
    /\ stage \in {"down", "caps", "rev", "hello", "subscribe", "wait", "status", "write"}
    /\ msg \in [rev : Revs, caps : Revs]
    /\ synth \in [rev : Revs, caps : Revs] \cup {None}

PushInit ==
    /\ rev = 0 /\ told = 0 /\ ver = 0 /\ heard = 0
    /\ mine = [c \in Changers |-> None]
    /\ stage = "down" /\ msg = [rev |-> 0, caps |-> 0] /\ synth = None

-----------------------------------------------------------------------------
(* A change: under the lock the settings and the revision, then, without   *)
(* the lock, the announcement.                                             *)

Change(c) ==
    /\ mine[c] = None /\ rev < MaxRev
    /\ rev' = rev + 1
    /\ mine' = [mine EXCEPT ![c] = rev']
    /\ UNCHANGED <<told, ver, stage, heard, msg, synth>>

\* Mutant of Tell: also who changed nothing announces.
TellAlways(c) ==
    /\ told' = mine[c] /\ ver' = ver + 1
    /\ mine' = [mine EXCEPT ![c] = None]
    /\ UNCHANGED <<rev, stage, heard, msg, synth>>

\* A channel without a receiver keeps its old value; nobody can tell.
Tell(c) ==
    /\ mine[c] # None
    /\ told' = mine[c] /\ ver' = ver + 1
    /\ mine' = [mine EXCEPT ![c] = None]
    /\ UNCHANGED <<rev, stage, heard, msg, synth>>

-----------------------------------------------------------------------------
(* The control stream.                                                     *)

Connect ==
    /\ stage = "down" /\ stage' = "caps"
    /\ UNCHANGED <<rev, mine, told, ver, heard, msg, synth>>

HelloCaps ==
    /\ stage = "caps" /\ stage' = "rev"
    /\ msg' = [msg EXCEPT !.caps = rev]
    /\ UNCHANGED <<rev, mine, told, ver, heard, synth>>

HelloRev ==
    /\ stage = "rev" /\ stage' = "hello"
    /\ msg' = [msg EXCEPT !.rev = rev]
    /\ UNCHANGED <<rev, mine, told, ver, heard, synth>>

HelloSent ==
    /\ stage = "hello" /\ stage' = "subscribe"
    /\ synth' = msg
    /\ UNCHANGED <<rev, mine, told, ver, heard, msg>>

\* A new receiver has seen what was announced before.
Subscribe ==
    /\ stage = "subscribe" /\ stage' = "wait"
    /\ heard' = ver
    /\ UNCHANGED <<rev, mine, told, ver, msg, synth>>

\* settings_rx.changed(): the revision is the channel's ...
Changed ==
    /\ stage = "wait" /\ heard # ver
    /\ stage' = "status"
    /\ heard' = ver
    /\ msg' = [msg EXCEPT !.rev = told]
    /\ UNCHANGED <<rev, mine, told, ver, synth>>

\* Mutant of PushCaps: the capabilities of the last message are sent again.
PushOldCaps ==
    /\ stage = "status" /\ stage' = "write"
    /\ UNCHANGED <<rev, mine, told, ver, heard, msg, synth>>

\* ... and, after the wait for the driver's status, the capabilities are those of
\* the settings as they are then.
PushCaps ==
    /\ stage = "status" /\ stage' = "write"
    /\ msg' = [msg EXCEPT !.caps = rev]
    /\ UNCHANGED <<rev, mine, told, ver, heard, synth>>

\* Mutant of PushSent: what was announced during the wait is taken as seen.
PushSentSeesAll ==
    /\ stage = "write" /\ stage' = "wait"
    /\ synth' = msg
    /\ heard' = ver
    /\ UNCHANGED <<rev, mine, told, ver, msg>>

PushSent ==
    /\ stage = "write" /\ stage' = "wait"
    /\ synth' = msg
    /\ UNCHANGED <<rev, mine, told, ver, heard, msg>>

\* The link drops at any point; the synth's picture of this link ends with it.
Drop ==
    /\ stage # "down" /\ stage' = "down"
    /\ synth' = None
    /\ UNCHANGED <<rev, mine, told, ver, heard, msg>>

StreamStep ==
    HelloCaps \/ HelloRev \/ HelloSent \/ Subscribe \/ Changed \/ PushCaps \/ PushSent

PushNext ==
    \/ \E c \in Changers : Change(c) \/ Tell(c)
    \/ Connect \/ StreamStep \/ Drop

PushSpec == PushInit /\ [][PushNext]_pushVars

\* The tasks and threads go on; nobody has to change a setting, and the network
\* may drop the link or leave it down.
PushFairness ==
    /\ WF_pushVars(StreamStep)
    /\ \A c \in Changers : WF_pushVars(Tell(c))

PushFairSpec == PushSpec /\ PushFairness

-----------------------------------------------------------------------------
(* Properties.                                                             *)

Served == stage \in {"wait", "status", "write"}

\* A `settings` message (not the hello) never carries capabilities older than the
\* revision it names, although the channel, the settings and the driver's status
\* are read at three moments.
PushNotStale == stage = "write" => msg.caps >= msg.rev

\* A change announced while the writer serves reaches the synth, also when it
\* comes in the middle of another message.
ServedCatchesUp ==
    \A r \in Revs : \A c \in Changers :
        (Served /\ mine[c] = r) ~> (~Served \/ (synth # None /\ synth.caps >= r))

-----------------------------------------------------------------------------
(* Claims of the repository that the code does not keep (README.md, 8).    *)

\* README.md of connect-core: a change "pushes a `settings` message".  A link that
\* stays up comes to know the settings.
LinkedCatchesUp ==
    \A r \in Revs :
        (stage # "down" /\ rev = r) ~> (stage = "down" \/ (synth # None /\ synth.caps >= r))

\* README.md of connect-core: "`settings_rev` grows by one on every change".  On
\* one link the synth never sees it go back.
RevGrows == [][(synth # None /\ synth' # None) => synth'.rev >= synth.rev]_pushVars
=============================================================================
