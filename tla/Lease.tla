------------------------------- MODULE Lease -------------------------------
(***************************************************************************)
(* One synth drives the computer at a time: the lease of core.rs           *)
(* (`lease_check`, `lease_take`, `lease_release`) as the gate of a call    *)
(* uses it (`filter_scoped`, mcp.rs).                                      *)
(*                                                                         *)
(* A call is checked, then waits (the choice of apps, the owner's answer,  *)
(* the shared folders), then takes the lease, which checks again under the *)
(* lease's lock, and goes to the driver.  The driver works on it for as    *)
(* long as it takes: nobody waits for its answer before the next line.     *)
(*                                                                         *)
(* An unlink releases the lease.  It does not end the streams of that      *)
(* synth, which go on until the link is closed.                            *)
(***************************************************************************)
EXTENDS Naturals

CONSTANTS Synths, Streams, SynthOf, None,
          Quiet,        \* LEASE_QUIET
          MaxTime,      \* bound: how long we look
          MayUnlink     \* the owner unlinks synths in this instance

ASSUME LeaseAssumption ==
    /\ SynthOf \in [Streams -> Synths]
    /\ Quiet \in Nat /\ MaxTime \in Nat
    /\ MayUnlink \in BOOLEAN
    /\ None \notin Nat /\ None \notin [synth : Synths, last : Nat]

VARIABLES
    now,
    lease,      \* Shared::lease: who acted last, and when
    call,       \* the call each stream has in its gate
    linked,     \* the synths that are linked
    acting,     \* the streams whose action the driver works on
    acted       \* history: the last action of each synth since it was linked

vars == <<now, lease, call, linked, acting, acted>>

TypeOK ==
    /\ now \in Nat
    /\ lease \in [synth : Synths, last : 0 .. now] \cup {None}
    /\ call \in [Streams -> {"none", "checked"}]
    /\ linked \subseteq Synths
    /\ acting \subseteq Streams
    /\ acted \in [Synths -> 0 .. now \cup {None}]

Init ==
    /\ now = 0
    /\ lease = None
    /\ call = [c \in Streams |-> "none"]
    /\ linked = Synths
    /\ acting = {}
    /\ acted = [s \in Synths |-> None]

-----------------------------------------------------------------------------
Tick ==
    /\ now < MaxTime
    /\ now' = now + 1
    /\ UNCHANGED <<lease, call, linked, acting, acted>>

\* Another synth's last action is recent.
DrivenByOther(s) == lease # None /\ lease.synth # s /\ now - lease.last < Quiet

\* lease_check of an acting call; the one that is refused changes nothing.
Check(c) ==
    /\ call[c] = "none"
    /\ ~DrivenByOther(SynthOf[c])
    /\ call' = [call EXCEPT ![c] = "checked"]
    /\ UNCHANGED <<now, lease, linked, acting, acted>>

\* The choice of apps, the owner, a path or the look refuses the call, or the
\* stream ends.
Refuse(c) ==
    /\ call[c] = "checked"
    /\ call' = [call EXCEPT ![c] = "none"]
    /\ UNCHANGED <<now, lease, linked, acting, acted>>

Keep(s) == [synth |-> s, last |-> now]

\* Mutant of TakenByOther: the check at the start of the gate is enough.
NotAskedAgain(s) == FALSE

\* lease_take looks again under the lock.
TakenByOther(s) == DrivenByOther(s)

\* Mutant of Take: the moment the lease runs out is stored.
TakeUntil(c) ==
    /\ call[c] = "checked"
    /\ ~TakenByOther(SynthOf[c])
    /\ lease' = [synth |-> SynthOf[c], last |-> now + Quiet]
    /\ call' = [call EXCEPT ![c] = "none"]
    /\ acting' = acting \cup {c}
    /\ acted' = [acted EXCEPT ![SynthOf[c]] = now]
    /\ UNCHANGED <<now, linked>>

\* The call takes the lease and goes to the driver, unless the owner's policy
\* changed during the gate: then the session ends instead.
Take(c) ==
    /\ call[c] = "checked"
    /\ ~TakenByOther(SynthOf[c])
    /\ lease' = Keep(SynthOf[c])
    /\ call' = [call EXCEPT ![c] = "none"]
    /\ \/ /\ acting' = acting \cup {c}
          /\ acted' = [acted EXCEPT ![SynthOf[c]] = now]
       \/ UNCHANGED <<acting, acted>>
    /\ UNCHANGED <<now, linked>>

\* Another synth took it in between.
Busy(c) ==
    /\ call[c] = "checked"
    /\ TakenByOther(SynthOf[c])
    /\ call' = [call EXCEPT ![c] = "none"]
    /\ UNCHANGED <<now, lease, linked, acting, acted>>

\* The driver is done with the stream's actions.
Done(c) ==
    /\ c \in acting
    /\ acting' = acting \ {c}
    /\ UNCHANGED <<now, lease, call, linked, acted>>

\* Mutant of Released: whoever holds the lease loses it.
ReleasedAnyway(s) == None

\* lease_release: only the synth that holds the lease lets go of it.
Released(s) == IF lease # None /\ lease.synth = s THEN None ELSE lease

\* wipe_slot
Unlink(s) ==
    /\ MayUnlink /\ s \in linked
    /\ linked' = linked \ {s}
    /\ lease' = Released(s)
    /\ acted' = [acted EXCEPT ![s] = None]
    /\ UNCHANGED <<now, call, acting>>

Link(s) ==
    /\ s \notin linked
    /\ linked' = linked \cup {s}
    /\ UNCHANGED <<now, lease, call, acting, acted>>

Next ==
    \/ Tick
    \/ \E c \in Streams : Check(c) \/ Refuse(c) \/ Take(c) \/ Busy(c) \/ Done(c)
    \/ \E s \in Synths : Unlink(s) \/ Link(s)

Spec == Init /\ [][Next]_vars

-----------------------------------------------------------------------------
(* Properties.                                                             *)

\* The last actions of two linked synths are LEASE_QUIET apart, although every
\* call waits between its check and its action.
OneDriver ==
    \A r, s \in Synths :
        (r # s /\ acted[r] # None /\ acted[s] # None) =>
            (acted[r] >= acted[s] + Quiet \/ acted[s] >= acted[r] + Quiet)

\* Whoever acted less than LEASE_QUIET ago holds the lease.
RecentHolds ==
    \A s \in Synths :
        (acted[s] # None /\ now < acted[s] + Quiet) =>
            /\ lease # None
            /\ lease.synth = s /\ lease.last >= acted[s]

\* One synth drives at a time (core.rs, LEASE_QUIET), and computer_driver
\* names it.
TurnsAreKept == OneDriver /\ RecentHolds

-----------------------------------------------------------------------------
(* Claims of the repository that the code does not keep (README.md, 8).    *)

\* core.rs: "while it acts, and this long after, another synth's actions are
\* refused".
OneActsAtATime == \A b, c \in acting : SynthOf[b] = SynthOf[c]

\* README of connect-core, unpair_synth: "then wipe that synth's token, grants,
\* ... and hold on the computer".
UnlinkedLetsGo == lease # None => lease.synth \in linked
=============================================================================
