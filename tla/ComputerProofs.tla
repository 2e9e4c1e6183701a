--------------------------- MODULE ComputerProofs ---------------------------
(***************************************************************************)
(* How a synth gets the computer, for any sessions, synths, streams, apps  *)
(* and calls.  Each of the four parts has an inductive invariant of its    *)
(* own, and a step of one leaves the others' variables alone.              *)
(*                                                                         *)
(*   HInv  the daemon's count is the sessions' that hold it, and a session *)
(*         starts one daemon at most, so that the counters keep their      *)
(*         bounds;                                                         *)
(*   RInv  whoever is past the wait has the lock, so that the end of a     *)
(*         daemon finds no start; during a pause only who was on the way   *)
(*         comes to a daemon, and the installer stops nothing before it    *)
(*         looked nor after it saw a session;                              *)
(*   LInv  a recent action is the one the lease remembers, and with it a   *)
(*         call that finds the lease free, or old, is LEASE_QUIET away     *)
(*         from every other synth's last action;                           *)
(*   DInv  what did not change hands since a reading is as it was read,    *)
(*         and what a call found out from the readings is so unless        *)
(*         something it is about changed hands;                            *)
(*   OInv  a call's tool, its line in the journal and what let it through  *)
(*         go with where the call is, and what the app remembers is what   *)
(*         the owner let it.                                               *)
(***************************************************************************)
EXTENDS MCComputer, Integers, FiniteSetTheorems, TLAPS

-----------------------------------------------------------------------------
(* The daemon and its sessions.                                            *)

\* A session that came as far as a start comes no more before one.
Past == {s \in Sessions : stage[s] \in {"starting", "open", "revoked", "ending", "closed"}}

\* Every session starts one daemon at most, from a binary there is; and who
\* has to stop the daemon holds it until then.
OneStartEach ==
    /\ started <= Cardinality(Past)
    /\ \A s \in Sessions : stage[s] = "starting" => started >= 1 /\ want[s].bin \in Bins
    /\ \A s \in Sessions : stop[s] # "idle" => stage[s] = "revoked"

HInv == ComputerTypeOK /\ CountIsRight /\ NotReplacedUnderSession /\ OneStartEach

\* The sessions of a stage are finitely many.
LEMMA FewSessions ==
    /\ IsFiniteSet(Counted) /\ Cardinality(Counted) \in Nat /\ Cardinality(Counted) <= MaxDaemons
    /\ IsFiniteSet(Past) /\ Cardinality(Past) \in Nat /\ Cardinality(Past) <= MaxDaemons
    /\ MaxDaemons \in Nat
  <1>1. IsFiniteSet(Sessions) /\ Counted \in SUBSET Sessions /\ Past \in SUBSET Sessions
    BY ComputerAssumption DEF ComputerAssumption, Counted, Past
  <1> QED BY <1>1, FS_Subset, FS_CardinalityType DEF MaxDaemons

LEMMA FewSessionsAfter ==
    /\ IsFiniteSet(Counted') /\ Cardinality(Counted') \in Nat /\ Cardinality(Counted') <= MaxDaemons
    /\ IsFiniteSet(Past') /\ Cardinality(Past') \in Nat
  <1>1. IsFiniteSet(Sessions) /\ Counted' \in SUBSET Sessions /\ Past' \in SUBSET Sessions
    BY ComputerAssumption DEF ComputerAssumption, Counted, Past
  <1> QED BY <1>1, FS_Subset, FS_CardinalityType DEF MaxDaemons

LEMMA SessionsStart == ComputerInit => HInv
  <1> SUFFICES ASSUME ComputerInit PROVE HInv
    OBVIOUS
  <1> USE ComputerAssumption DEF ComputerAssumption, ComputerInit
  <1>1. Counted = {} /\ Past = {}
    BY DEF Counted, Past
  <1>2. CountIsRight /\ started <= Cardinality(Past)
    BY <1>1, FS_EmptySet DEF CountIsRight
  <1>3. ComputerTypeOK
    <2>1. /\ want \in [Sessions -> WantSet] /\ mine \in [Sessions -> 0 .. MaxDaemons] /\ started \in 0 .. MaxDaemons
          /\ choice \in 0 .. MaxChoice /\ count \in 0 .. Cardinality(Sessions)
      BY FewSessions DEF WantSet, MaxDaemons
    <2> QED BY <2>1 DEF ComputerTypeOK, Bins
  <1>4. NotReplacedUnderSession
    BY DEF NotReplacedUnderSession
  <1>5. \A s \in Sessions : stage[s] # "starting" /\ stop[s] = "idle"
    BY DEF Stoppers
  <1> QED BY <1>2, <1>3, <1>4, <1>5 DEF HInv, OneStartEach

\* The count after a step: nobody comes or goes, one comes, one goes.
LEMMA NobodyCounts ==
    ASSUME CountIsRight, count' = count,
           \A s \in Sessions : (stage'[s] \in {"open", "revoked", "ending"}) <=> (stage[s] \in {"open", "revoked", "ending"})
    PROVE  CountIsRight'
  <1>1. Counted' = Counted
    BY DEF Counted
  <1> QED BY <1>1 DEF CountIsRight

LEMMA OneCountsIn ==
    ASSUME CountIsRight, NEW s \in Sessions, s \notin Counted, s \in Counted', count' = count + 1,
           \A t \in Sessions \ {s} : stage'[t] = stage[t]
    PROVE  CountIsRight' /\ count' \in 0 .. Cardinality(Sessions)
  <1>1. Counted' = Counted \cup {s}
    BY DEF Counted
  <1>2. Cardinality(Counted') = Cardinality(Counted) + 1
    BY <1>1, FewSessions, FS_AddElement
  <1> QED BY <1>2, FewSessions, FewSessionsAfter DEF CountIsRight, MaxDaemons

LEMMA OneCountsOut ==
    ASSUME CountIsRight, NEW s \in Sessions, s \in Counted, s \notin Counted', count' = count - 1,
           \A t \in Sessions \ {s} : stage'[t] = stage[t]
    PROVE  CountIsRight' /\ count' \in 0 .. Cardinality(Sessions)
  <1>1. Counted' = Counted \ {s}
    BY DEF Counted
  <1>2. Cardinality(Counted') = Cardinality(Counted) - 1
    BY <1>1, FewSessions, FS_RemoveElement
  <1> QED BY <1>2, FewSessions, FewSessionsAfter DEF CountIsRight, MaxDaemons

\* Sessions do not go back before their start.
LEMMA PastGrows ==
    ASSUME started <= Cardinality(Past), started \in Nat, started' = started,
           \A s \in Sessions : s \in Past => s \in Past'
    PROVE  started' <= Cardinality(Past')
  <1>1. Past \in SUBSET Past'
    BY DEF Past
  <1>2. Cardinality(Past) <= Cardinality(Past')
    BY <1>1, FewSessionsAfter, FS_Subset
  <1> QED BY <1>2, FewSessions, FewSessionsAfter

\* What a step does that leaves the daemon, the count and who stops it alone.
LEMMA GateSteps == ASSUME HInv, NEW s \in Sessions, OpenGate(s) \/ Enter(s) PROVE HInv'
  <1> USE DEF HInv
  <1>1. /\ stage[s] \in {"idle", "gated"} /\ stage' = [stage EXCEPT ![s] = stage'[s]] /\ stage'[s] \in {"gated", "queued", "closed"}
        /\ UNCHANGED <<ownerVars, copyVars, lock, daemonVars, backoff, count, want, mine, stop, ensure, cut>>
        /\ modeAt' \in [Sessions -> {"always", "ask"}]
    BY DEF OpenGate, Enter, ComputerTypeOK
  <1>2. ComputerTypeOK'
    BY <1>1 DEF ComputerTypeOK, ownerVars, copyVars, daemonVars
  <1>3. CountIsRight'
    BY <1>1, NobodyCounts DEF ComputerTypeOK
  <1>4. NotReplacedUnderSession'
    BY <1>1 DEF NotReplacedUnderSession
  <1>5. started' <= Cardinality(Past')
    BY <1>1, PastGrows DEF ComputerTypeOK, OneStartEach, Past, daemonVars
  <1>6. OneStartEach'
    BY <1>1, <1>5 DEF ComputerTypeOK, OneStartEach, daemonVars
  <1> QED BY <1>2, <1>3, <1>4, <1>6

\* A daemon is replaced only when none is counted, and the count is right.
LEMMA LockStep == ASSUME HInv, NEW s \in Sessions, Lock(s) PROVE HInv'
  <1> USE DEF HInv
  <1>1. /\ stage[s] = "queued" /\ stage' = [stage EXCEPT ![s] = "locked"] /\ lock' = s
        /\ want' = [want EXCEPT ![s] = [choice |-> choice, bin |-> BinNow]]
        /\ UNCHANGED <<ownerVars, started, backoff, count, modeAt, mine, stop, ensure>>
    BY DEF Lock
  <1>2. BinNow \in Bins \cup {"none"} /\ choice \in 0 .. MaxChoice
    BY DEF BinNow, Bins, ComputerTypeOK, ownerVars
  <1>3. cut' = cut
    <2>1. CASE daemon # Nobody /\ alive /\ MayReplace /\ OutOfDate /\ cut' = cut \cup CutBy("replaced")
      <3>1. Counted = {}
        BY <2>1, FewSessions, FS_EmptySet DEF MayReplace, CountIsRight
      <3> QED BY <2>1, <3>1 DEF CutBy
    <2> QED BY <2>1 DEF Lock
  <1>4. daemon' \in {daemon, Nobody} /\ alive' \in BOOLEAN
    BY DEF Lock, ComputerTypeOK
  <1>5. pinned' \in BOOLEAN /\ oldThere' \in BOOLEAN /\ held' \in BOOLEAN /\ daemonBin' \in Bins \cup {"none"}
    BY DEF Lock, DaemonGone, ComputerTypeOK, copyVars
  <1>6. stage' \in [Sessions -> {"idle", "gated", "queued", "locked", "starting", "open", "revoked", "ending", "closed"}]
    BY <1>1 DEF ComputerTypeOK
  <1>7. want' \in [Sessions -> WantSet]
    BY <1>1, <1>2 DEF ComputerTypeOK, WantSet
  <1>8. ComputerTypeOK'
    BY <1>1, <1>3, <1>4, <1>5, <1>6, <1>7 DEF ComputerTypeOK, ownerVars
  <1>9. CountIsRight'
    BY <1>1, NobodyCounts DEF ComputerTypeOK
  <1>10. NotReplacedUnderSession'
    BY <1>3 DEF NotReplacedUnderSession
  <1>11. started' <= Cardinality(Past')
    BY <1>1, PastGrows DEF ComputerTypeOK, OneStartEach, Past
  <1>12. OneStartEach'
    BY <1>1, <1>7, <1>11 DEF ComputerTypeOK, OneStartEach
  <1> QED BY <1>8, <1>9, <1>10, <1>12

\* A start, and one that is refused or fails.
LEMMA StartSteps ==
    ASSUME HInv, NEW s \in Sessions, StartRefused(s) \/ StartBegins(s) \/ StartFails(s) PROVE HInv'
  <1> USE DEF HInv
  <1>1. /\ stage[s] \in {"locked", "starting"}
        /\ UNCHANGED <<ownerVars, copyVars, daemon, alive, count, modeAt, want, mine, stop, ensure, cut>>
        /\ lock' \in {lock, Nobody} /\ backoff' \in BOOLEAN
    BY DEF StartRefused, StartBegins, StartFails, daemonVars, ComputerTypeOK
  <1>2. /\ stage' = [stage EXCEPT ![s] = stage'[s]]
        /\ stage'[s] \in {"starting", "closed"}
    BY DEF StartRefused, StartBegins, StartFails, ComputerTypeOK
  <1>3. started' \in Nat /\ started' <= Cardinality(Past')
    <2>1. CASE started' = started
      BY <1>1, <1>2, <2>1, PastGrows DEF ComputerTypeOK, OneStartEach, Past
    <2>2. CASE StartBegins(s)
      <3>1. started' = started + 1 /\ stage[s] = "locked" /\ stage'[s] = "starting"
        BY <2>2 DEF StartBegins, ComputerTypeOK
      <3>2. Past' = Past \cup {s} /\ s \notin Past
        BY <1>2, <3>1 DEF Past, ComputerTypeOK
      <3>3. Cardinality(Past') = Cardinality(Past) + 1
        BY <3>2, FewSessions, FS_AddElement
      <3> QED BY <3>1, <3>3, FewSessions DEF ComputerTypeOK, OneStartEach
    <2> QED BY <2>1, <2>2 DEF StartRefused, StartFails, daemonVars
  <1>4. started' \in 0 .. MaxDaemons
    <2>1. Past' \in SUBSET Sessions /\ IsFiniteSet(Sessions)
      BY ComputerAssumption DEF ComputerAssumption, Past
    <2>2. Cardinality(Past') <= MaxDaemons
      BY <2>1, FS_Subset DEF MaxDaemons
    <2> QED BY <1>3, <2>2, FewSessions, FewSessionsAfter
  <1>5. ComputerTypeOK'
    BY <1>1, <1>2, <1>4 DEF ComputerTypeOK, ownerVars, copyVars
  <1>6. CountIsRight'
    BY <1>1, <1>2, NobodyCounts DEF ComputerTypeOK
  <1>7. NotReplacedUnderSession'
    BY <1>1 DEF NotReplacedUnderSession
  <1>8. stage'[s] = "starting" => started' >= 1 /\ want[s].bin \in Bins
    <2>1. CASE StartBegins(s)
      BY <2>1 DEF StartBegins, BinIsFile, Bins, ComputerTypeOK
    <2>2. CASE StartRefused(s) \/ StartFails(s)
      BY <2>2 DEF StartRefused, StartFails, ComputerTypeOK
    <2> QED BY <2>1, <2>2
  <1>9. started' >= started
    BY DEF StartRefused, StartBegins, StartFails, daemonVars, ComputerTypeOK
  <1>10. OneStartEach'
    BY <1>1, <1>2, <1>3, <1>8, <1>9 DEF ComputerTypeOK, OneStartEach
  <1> QED BY <1>5, <1>6, <1>7, <1>10

\* A session is counted while it holds the lock.
LEMMA OpenSteps == ASSUME HInv, NEW s \in Sessions, Reuse(s) \/ StartEnds(s) PROVE HInv'
  <1> USE DEF HInv
  <1>1. /\ stage[s] \in {"locked", "starting"} /\ stage' = [stage EXCEPT ![s] = "open"] /\ count' = count + 1
        /\ lock' = Nobody /\ want' = [want EXCEPT ![s] = [choice |-> 0, bin |-> "none"]]
        /\ UNCHANGED <<ownerVars, started, modeAt, stop, ensure, cut>>
    BY DEF Reuse, StartEnds, Opened, daemonVars
  <1>2. stage' \in [Sessions -> {"idle", "gated", "queued", "locked", "starting", "open", "revoked", "ending", "closed"}]
    BY <1>1 DEF ComputerTypeOK
  <1>3. CountIsRight' /\ count' \in 0 .. Cardinality(Sessions)
    BY <1>1, OneCountsIn DEF ComputerTypeOK, Counted
  <1>4. /\ daemon' \in Daemons \cup {Nobody} /\ mine' \in [Sessions -> 0 .. MaxDaemons] /\ alive' \in BOOLEAN /\ backoff' \in BOOLEAN
        /\ pinned' \in BOOLEAN /\ oldThere' \in BOOLEAN /\ held' \in BOOLEAN /\ daemonBin' \in Bins \cup {"none"}
    <2>1. CASE Reuse(s)
      <3>1. daemon \in Daemons /\ mine' = [mine EXCEPT ![s] = daemon.id]
        BY <2>1 DEF Reuse, Opened, ComputerTypeOK
      <3>2. daemon.id \in 0 .. MaxDaemons
        BY <3>1, FewSessions DEF Daemons
      <3>3. mine' \in [Sessions -> 0 .. MaxDaemons]
        BY <3>1, <3>2 DEF ComputerTypeOK
      <3> QED BY <2>1, <3>3 DEF Reuse, ComputerTypeOK, copyVars, daemonVars
    <2>2. CASE StartEnds(s)
      <3>1. /\ stage[s] = "starting" /\ mine' = [mine EXCEPT ![s] = started]
            /\ daemon' = [id |-> started, choice |-> want[s].choice, bin |-> want[s].bin]
            /\ alive' = TRUE /\ backoff' = FALSE /\ held' = (held \/ want[s].bin = "old") /\ daemonBin' = want[s].bin
            /\ pinned' = pinned /\ oldThere' = oldThere
        BY <2>2 DEF StartEnds, Opened
      <3>2. started \in 1 .. MaxDaemons /\ want[s].bin \in Bins /\ want[s].choice \in 0 .. MaxChoice
        BY <3>1, FewSessions DEF ComputerTypeOK, OneStartEach, WantSet
      <3>3. daemon' \in Daemons
        BY <3>1, <3>2 DEF Daemons
      <3>4. mine' \in [Sessions -> 0 .. MaxDaemons]
        BY <3>1, <3>2, FewSessions DEF ComputerTypeOK
      <3> QED BY <3>1, <3>2, <3>3, <3>4 DEF ComputerTypeOK
    <2> QED BY <2>1, <2>2
  <1>5. want' \in [Sessions -> WantSet]
    <2>1. [choice |-> 0, bin |-> "none"] \in WantSet
      BY ComputerAssumption DEF ComputerAssumption, WantSet
    <2> QED BY <1>1, <2>1 DEF ComputerTypeOK
  <1>6. ComputerTypeOK'
    BY <1>1, <1>2, <1>3, <1>4, <1>5 DEF ComputerTypeOK, ownerVars
  <1>7. NotReplacedUnderSession'
    BY <1>1 DEF NotReplacedUnderSession
  <1>8. started' <= Cardinality(Past')
    BY <1>1, PastGrows DEF ComputerTypeOK, OneStartEach, Past
  <1>9. OneStartEach'
    BY <1>1, <1>2, <1>8 DEF ComputerTypeOK, OneStartEach
  <1> QED BY <1>3, <1>6, <1>7, <1>9

\* The ends of a session: by itself, by the policy, with its stream.
LEMMA CloseStep == ASSUME HInv, NEW s \in Sessions, Close(s) PROVE HInv'
  <1> USE DEF HInv
  <1>1. /\ stage[s] \in {"open", "ending"} /\ stage' = [stage EXCEPT ![s] = "closed"] /\ count' = count - 1
        /\ UNCHANGED <<ownerVars, copyVars, lock, daemonVars, backoff, modeAt, want, mine, stop, ensure, cut>>
    BY DEF Close
  <1>2. CountIsRight' /\ count' \in 0 .. Cardinality(Sessions)
    BY <1>1, OneCountsOut DEF ComputerTypeOK, Counted
  <1>3. ComputerTypeOK'
    BY <1>1, <1>2 DEF ComputerTypeOK, ownerVars, copyVars, daemonVars
  <1>4. NotReplacedUnderSession'
    BY <1>1 DEF NotReplacedUnderSession
  <1>5. started' <= Cardinality(Past')
    BY <1>1, PastGrows DEF ComputerTypeOK, OneStartEach, Past, daemonVars
  <1>6. OneStartEach'
    BY <1>1, <1>5 DEF ComputerTypeOK, OneStartEach, daemonVars
  <1> QED BY <1>2, <1>3, <1>4, <1>6

LEMMA WatchStep == ASSUME HInv, NEW s \in Sessions, WatchEnds(s) PROVE HInv'
  <1> USE DEF HInv
  <1>1. /\ stage[s] = "open" /\ stage' = [stage EXCEPT ![s] = "revoked"] /\ stop' = [stop EXCEPT ![s] = "want"]
        /\ UNCHANGED <<ownerVars, copyVars, lock, daemonVars, backoff, count, modeAt, want, mine, ensure, cut>>
    BY DEF WatchEnds
  <1>2. CountIsRight'
    BY <1>1, NobodyCounts DEF ComputerTypeOK
  <1>3. ComputerTypeOK'
    <2>1. stage' \in [Sessions -> {"idle", "gated", "queued", "locked", "starting", "open", "revoked", "ending", "closed"}]
      BY <1>1 DEF ComputerTypeOK
    <2>2. stop' \in [Stoppers -> {"idle", "want", "took"}]
      BY <1>1 DEF ComputerTypeOK
    <2> QED BY <1>1, <2>1, <2>2 DEF ComputerTypeOK, ownerVars, copyVars, daemonVars
  <1>4. NotReplacedUnderSession'
    BY <1>1 DEF NotReplacedUnderSession
  <1>5. started' <= Cardinality(Past')
    BY <1>1, PastGrows DEF ComputerTypeOK, OneStartEach, Past, daemonVars
  <1>6. OneStartEach'
    BY <1>1, <1>5 DEF ComputerTypeOK, OneStartEach, daemonVars, Stoppers
  <1> QED BY <1>2, <1>3, <1>4, <1>6

LEMMA AbortStep == ASSUME HInv, NEW s \in Sessions, Abort(s) PROVE HInv'
  <1> USE DEF HInv
  <1>1. /\ stage' = [stage EXCEPT ![s] = "closed"] /\ stop' = [stop EXCEPT ![s] = "idle"]
        /\ lock' \in {lock, Nobody} /\ count' = IF s \in Counted THEN count - 1 ELSE count
        /\ UNCHANGED <<ownerVars, copyVars, daemonVars, backoff, modeAt, want, mine, ensure, cut>>
    BY DEF Abort, Unlocked, LetGo
  <1>2. CountIsRight' /\ count' \in 0 .. Cardinality(Sessions)
    <2>1. CASE s \in Counted
      BY <1>1, <2>1, OneCountsOut DEF ComputerTypeOK, Counted
    <2>2. CASE s \notin Counted
      BY <1>1, <2>2, NobodyCounts DEF ComputerTypeOK, Counted
    <2> QED BY <2>1, <2>2
  <1>3. ComputerTypeOK'
    <2>1. stage' \in [Sessions -> {"idle", "gated", "queued", "locked", "starting", "open", "revoked", "ending", "closed"}]
      BY <1>1 DEF ComputerTypeOK
    <2>2. stop' \in [Stoppers -> {"idle", "want", "took"}]
      BY <1>1 DEF ComputerTypeOK
    <2> QED BY <1>1, <1>2, <2>1, <2>2 DEF ComputerTypeOK, ownerVars, copyVars, daemonVars
  <1>4. NotReplacedUnderSession'
    BY <1>1 DEF NotReplacedUnderSession
  <1>5. started' <= Cardinality(Past')
    BY <1>1, PastGrows DEF ComputerTypeOK, OneStartEach, Past, daemonVars
  <1>6. OneStartEach'
    BY <1>1, <1>5 DEF ComputerTypeOK, OneStartEach, daemonVars, Stoppers
  <1> QED BY <1>2, <1>3, <1>4, <1>6

\* stop_cua: the daemon is taken out under the lock ...
LEMMA StopTakesStep == ASSUME HInv, NEW p \in Stoppers, StopTakes(p) PROVE HInv'
  <1> USE DEF HInv
  <1>1. /\ daemon' = Nobody /\ alive' = FALSE /\ stop[p] = "want" /\ stop' = [stop EXCEPT ![p] = "took"]
        /\ UNCHANGED <<ownerVars, copyVars, lock, started, backoff, count, sessionVars, ensure>>
        /\ cut' \subseteq cut \cup (Sessions \X {Installer})
    BY DEF StopTakes, CutBy, Counted
  <1>2. CountIsRight'
    BY <1>1, NobodyCounts DEF ComputerTypeOK, sessionVars
  <1>3. ComputerTypeOK'
    <2>1. stop' \in [Stoppers -> {"idle", "want", "took"}] /\ cut' \subseteq Sessions \X {Installer, "replaced"}
      BY <1>1 DEF ComputerTypeOK
    <2> QED BY ZenonT(60), <1>1, <2>1 DEF ComputerTypeOK, ownerVars, copyVars, sessionVars
  <1>4. NotReplacedUnderSession'
    BY <1>1, ComputerAssumption DEF ComputerAssumption, NotReplacedUnderSession
  <1>5. started' <= Cardinality(Past')
    BY <1>1, PastGrows DEF ComputerTypeOK, OneStartEach, Past, sessionVars
  <1>6. OneStartEach'
    BY <1>1, <1>5 DEF ComputerTypeOK, OneStartEach, Stoppers, sessionVars
  <1> QED BY <1>2, <1>3, <1>4, <1>6

\* ... and is gone outside it.
LEMMA StopEndsStep == ASSUME HInv, NEW p \in Stoppers, StopEnds(p) PROVE HInv'
  <1> USE DEF HInv
  <1>1. /\ stop[p] = "took" /\ stop' = [stop EXCEPT ![p] = "idle"]
        /\ stage' = [s \in Sessions |-> IF s = p THEN "ending" ELSE stage[s]]
        /\ ensure' \in {"done", ensure}
        /\ UNCHANGED <<ownerVars, lock, daemonVars, backoff, count, modeAt, want, mine, cut>>
    BY DEF StopEnds
  <1>2. \A s \in Sessions : s = p => stage[s] = "revoked"
    BY <1>1 DEF OneStartEach
  <1>3. CountIsRight'
    BY <1>1, <1>2, NobodyCounts
  <1>4. ComputerTypeOK'
    <2>1. stop' \in [Stoppers -> {"idle", "want", "took"}]
      BY <1>1 DEF ComputerTypeOK
    <2>2. stage' \in [Sessions -> {"idle", "gated", "queued", "locked", "starting", "open", "revoked", "ending", "closed"}]
      BY <1>1 DEF ComputerTypeOK
    <2>3. pinned' \in BOOLEAN /\ oldThere' \in BOOLEAN /\ held' \in BOOLEAN /\ daemonBin' \in Bins \cup {"none"}
      BY DEF StopEnds, DaemonGone, ComputerTypeOK
    <2> QED BY <1>1, <2>1, <2>2, <2>3 DEF ComputerTypeOK, ownerVars, daemonVars
  <1>5. NotReplacedUnderSession'
    BY <1>1 DEF NotReplacedUnderSession
  <1>6. started' <= Cardinality(Past')
    BY <1>1, <1>2, PastGrows DEF ComputerTypeOK, OneStartEach, Past, daemonVars
  <1>7. OneStartEach'
    BY <1>1, <1>2, <1>6 DEF ComputerTypeOK, OneStartEach, daemonVars, Stoppers
  <1> QED BY <1>3, <1>4, <1>5, <1>7

\* What leaves the sessions alone: the owner, the installer, the daemon's death.
LEMMA OthersStep ==
    ASSUME HInv, Pause \/ Resume \/ ChangeSettings \/ Install \/ EnsureChecks \/ DaemonDies \/ BackoffEnds
                 \/ UNCHANGED computerVars
    PROVE  HInv'
  <1> USE DEF HInv
  <1>1. /\ UNCHANGED <<sessionVars, lock, count, cut, daemon, started, held, daemonBin>>
        /\ \A p \in Sessions : stop'[p] = stop[p]
    BY ComputerAssumption DEF ComputerAssumption, ComputerTypeOK, Pause, Resume, ChangeSettings, Install, EnsureChecks, DaemonDies, BackoffEnds,
          computerVars, ownerVars, copyVars, daemonVars, sessionVars, Stoppers
  <1>2. /\ paused' \in BOOLEAN /\ enabled' \in BOOLEAN /\ mode' \in {"always", "ask"} /\ choice' \in 0 .. MaxChoice
    <2>1. CASE UNCHANGED ownerVars
      BY <2>1 DEF ComputerTypeOK, ownerVars
    <2>2. CASE Pause \/ Resume
      BY <2>2 DEF ComputerTypeOK, Pause, Resume
    <2>3. CASE ChangeSettings
      <3>1. enabled' \in BOOLEAN /\ paused' \in BOOLEAN
        BY <2>3 DEF ComputerTypeOK, ChangeSettings
      <3>2. mode' \in {"always", "ask"}
        BY <2>3 DEF ComputerTypeOK, ChangeSettings
      <3>3. choice' \in 0 .. MaxChoice
        BY <2>3, ComputerAssumption DEF ComputerAssumption, ComputerTypeOK, ChangeSettings
      <3> QED BY <3>1, <3>2, <3>3
    <2> QED BY <2>1, <2>2, <2>3 DEF Install, EnsureChecks, DaemonDies, BackoffEnds, computerVars
  <1>3. pinned' \in BOOLEAN /\ oldThere' \in BOOLEAN /\ alive' \in BOOLEAN /\ backoff' \in BOOLEAN
    BY DEF ComputerTypeOK, Pause, Resume, ChangeSettings, Install, EnsureChecks, DaemonDies, BackoffEnds, computerVars, copyVars, daemonVars
  <1>4. ensure' \in {"idle", "placed", "stopping", "done"} /\ stop' \in [Stoppers -> {"idle", "want", "took"}]
    BY DEF ComputerTypeOK, Pause, Resume, ChangeSettings, Install, EnsureChecks, DaemonDies, BackoffEnds, computerVars
  <1>5. ComputerTypeOK'
    BY <1>1, <1>2, <1>3, <1>4 DEF ComputerTypeOK, sessionVars
  <1>6. CountIsRight'
    BY <1>1, NobodyCounts DEF sessionVars
  <1>7. NotReplacedUnderSession'
    BY <1>1 DEF NotReplacedUnderSession
  <1>8. started' <= Cardinality(Past')
    BY <1>1, PastGrows DEF ComputerTypeOK, OneStartEach, Past, sessionVars
  <1>9. OneStartEach'
    BY <1>1, <1>8 DEF OneStartEach, sessionVars
  <1> QED BY <1>5, <1>6, <1>7, <1>9

LEMMA SessionsKeep == ASSUME HInv, [ComputerNext]_computerVars PROVE HInv'
  <1>1. CASE UNCHANGED computerVars
    BY <1>1, OthersStep
  <1>2. CASE Pause \/ Resume \/ ChangeSettings \/ Install \/ EnsureChecks \/ DaemonDies \/ BackoffEnds
    BY <1>2, OthersStep
  <1>3. ASSUME NEW s \in Sessions, OpenGate(s) \/ Enter(s) \/ Lock(s) \/ Reuse(s) \/ StartRefused(s) \/ StartBegins(s)
                 \/ StartEnds(s) \/ StartFails(s) \/ Close(s) \/ WatchEnds(s) \/ Abort(s)
        PROVE  HInv'
    BY <1>3, GateSteps, LockStep, StartSteps, OpenSteps, CloseStep, WatchStep, AbortStep
  <1>4. ASSUME NEW p \in Stoppers, StopTakes(p) \/ StopEnds(p) PROVE HInv'
    BY <1>4, StopTakesStep, StopEndsStep
  <1> QED BY <1>1, <1>2, <1>3, <1>4 DEF ComputerNext

-----------------------------------------------------------------------------
(* Pauses, copies and the look of the installer.                           *)

\* Who is past the wait has the lock.
LockHeld == \A s \in Sessions : stage[s] \in {"locked", "starting"} => lock = s

\* Nobody comes to the lock during a pause.
NoneComes == paused => OnTheWay \subseteq late

\* A start from the older copy has it, and so has the daemon that runs from it, as
\* long as it is held.
CopyIsThere == ~swept => (StartsOld => oldThere) /\ (RunsOld => held /\ oldThere)

\* The installer stops nothing before it looked, nor after it saw somebody.
LooksFirst ==
    /\ ensure \in {"idle", "placed"} => spared = {}
    /\ ensure \in {"idle", "placed"} \/ spared # {} =>
          stop[Installer] = "idle" /\ \A s \in Sessions : <<s, Installer>> \notin cut
    /\ spared # {} => ensure = "done"

RInv ==
    /\ HistoryTypeOK /\ LockHeld
    /\ NoneComes /\ PauseStopsDaemon
    /\ CopyIsThere /\ LooksFirst

LEMMA StopsStart == ComputerInit => RInv
  BY ComputerAssumption DEF ComputerAssumption, ComputerInit, RInv, HistoryTypeOK, LockHeld, NoneComes, PauseStopsDaemon, CopyIsThere,
     RunsOld, StartsOld, LooksFirst, Stoppers

\* A session's step changes its own stage alone; the owner, the installer and the
\* daemon's death change none, and the end of a stop that of whose it is.
LEMMA OneStage ==
    ASSUME HInv
    PROVE  /\ \A s \in Sessions :
                 OpenGate(s) \/ Enter(s) \/ Lock(s) \/ Reuse(s) \/ StartRefused(s) \/ StartBegins(s) \/ StartEnds(s) \/ StartFails(s)
                 \/ Close(s) \/ WatchEnds(s) \/ Abort(s) => stage' = [stage EXCEPT ![s] = stage'[s]]
           /\ Pause \/ Resume \/ ChangeSettings \/ Install \/ EnsureChecks \/ DaemonDies \/ BackoffEnds \/ UNCHANGED computerVars
              \/ (\E p \in Stoppers : StopTakes(p)) => UNCHANGED <<stage, lock, mine, want>>
           /\ \A p \in Stoppers : StopEnds(p) => \A t \in Sessions : stage'[t] # stage[t] => stage'[t] = "ending"
  <1> USE DEF HInv, ComputerTypeOK
  <1>1. ASSUME NEW s \in Sessions,
               OpenGate(s) \/ Enter(s) \/ Lock(s) \/ Reuse(s) \/ StartRefused(s) \/ StartBegins(s) \/ StartEnds(s) \/ StartFails(s)
               \/ Close(s) \/ WatchEnds(s) \/ Abort(s)
        PROVE  stage' = [stage EXCEPT ![s] = stage'[s]]
    BY <1>1 DEF OpenGate, Enter, Lock, Reuse, StartRefused, StartBegins, StartEnds, StartFails, Opened, Close, WatchEnds, Abort
  <1>2. Pause \/ Resume \/ ChangeSettings \/ Install \/ EnsureChecks \/ DaemonDies \/ BackoffEnds \/ UNCHANGED computerVars
        \/ (\E p \in Stoppers : StopTakes(p)) => UNCHANGED <<stage, lock, mine, want>>
    BY DEF Pause, Resume, ChangeSettings, Install, EnsureChecks, DaemonDies, BackoffEnds, StopTakes, computerVars, sessionVars
  <1>3. \A p \in Stoppers : StopEnds(p) => \A t \in Sessions : stage'[t] # stage[t] => stage'[t] = "ending"
    BY DEF StopEnds
  <1> QED BY <1>1, <1>2, <1>3

\* What a step of a session does to the lock.
LEMMA LockKeeps == ASSUME HInv, RInv, [ComputerNext]_computerVars PROVE LockHeld'
  <1> USE DEF HInv, RInv, LockHeld
  <1>1. ASSUME NEW s \in Sessions, OpenGate(s) \/ Enter(s) \/ Close(s) \/ WatchEnds(s) PROVE LockHeld'
    <2>1. lock' = lock /\ stage' = [stage EXCEPT ![s] = stage'[s]] /\ stage'[s] \notin {"locked", "starting"}
      BY <1>1, OneStage DEF OpenGate, Enter, Close, WatchEnds, ComputerTypeOK
    <2> QED BY <2>1 DEF ComputerTypeOK
  <1>2. ASSUME NEW s \in Sessions, Lock(s) PROVE LockHeld'
    <2>1. stage' = [stage EXCEPT ![s] = "locked"] /\ lock = Nobody /\ lock' = s
      BY <1>2 DEF Lock
    <2> QED BY <2>1, ComputerAssumption DEF ComputerAssumption, ComputerTypeOK
  <1>3. ASSUME NEW s \in Sessions, Reuse(s) \/ StartRefused(s) \/ StartEnds(s) \/ StartFails(s) \/ Abort(s) PROVE LockHeld'
    <2>1. /\ stage' = [stage EXCEPT ![s] = stage'[s]] /\ stage'[s] \in {"open", "closed"}
          /\ lock' = (IF lock = s THEN Nobody ELSE lock)
      BY <1>3, OneStage DEF Reuse, StartRefused, StartEnds, StartFails, Opened, Abort, Unlocked, ComputerTypeOK
    <2> QED BY <2>1, ComputerAssumption DEF ComputerAssumption, ComputerTypeOK
  <1>4. ASSUME NEW s \in Sessions, StartBegins(s) PROVE LockHeld'
    <2>1. stage[s] = "locked" /\ stage' = [stage EXCEPT ![s] = "starting"] /\ lock' = lock
      BY <1>4 DEF StartBegins
    <2> QED BY <2>1 DEF ComputerTypeOK
  <1>5. ASSUME NEW p \in Stoppers, StopEnds(p) PROVE LockHeld'
    BY <1>5, OneStage DEF StopEnds
  <1>6. CASE Pause \/ Resume \/ ChangeSettings \/ Install \/ EnsureChecks \/ DaemonDies \/ BackoffEnds \/ UNCHANGED computerVars
             \/ (\E p \in Stoppers : StopTakes(p))
    BY <1>6, OneStage
  <1> QED BY <1>1, <1>2, <1>3, <1>4, <1>5, <1>6 DEF ComputerNext

\* A pause: whoever comes to a daemon during it was on the way when it began.
LEMMA PauseKeeps == ASSUME HInv, RInv, [ComputerNext]_computerVars PROVE NoneComes' /\ PauseStopsDaemon'
  <1> USE DEF HInv, RInv, NoneComes, PauseStopsDaemon, OnTheWay
  <1>1. ASSUME NEW s \in Sessions, OpenGate(s) \/ Enter(s) \/ Lock(s) \/ StartRefused(s) \/ StartBegins(s) \/ StartFails(s)
               \/ Close(s) \/ WatchEnds(s) \/ Abort(s)
        PROVE  NoneComes' /\ PauseStopsDaemon'
    <2>1. stage' = [stage EXCEPT ![s] = stage'[s]]
      BY <1>1, OneStage
    <2>3. UNCHANGED <<paused, late, mine>> /\ daemon' \in {daemon, Nobody}
      BY <1>1 DEF OpenGate, Enter, Lock, StartRefused, StartBegins, StartFails, Close, WatchEnds, Abort,
             ownerVars, daemonVars, stopHistory
    <2>4. stop'[Owner] = stop[Owner]
      <3>1. s # Owner /\ (stop' = stop \/ stop' = [stop EXCEPT ![s] = "want"] \/ stop' = [stop EXCEPT ![s] = "idle"])
        BY <1>1, ComputerAssumption
           DEF ComputerAssumption, OpenGate, Enter, Lock, StartRefused, StartBegins, StartFails, Close, WatchEnds, Abort
      <3> QED BY <3>1 DEF ComputerTypeOK, Stoppers
    <2>2. paused /\ stage'[s] \in {"queued", "locked", "starting"} => stage[s] \in {"queued", "locked", "starting"}
      BY <1>1 DEF ComputerTypeOK, OpenGate, Enter, Policy, Lock, StartRefused, StartBegins, StartFails, Close, WatchEnds, Abort
    <2> QED BY <2>1, <2>2, <2>3, <2>4 DEF ComputerTypeOK
  <1>2. ASSUME NEW s \in Sessions, Reuse(s) \/ StartEnds(s) PROVE NoneComes' /\ PauseStopsDaemon'
    <2>1. /\ stage' = [stage EXCEPT ![s] = "open"] /\ UNCHANGED <<paused, late, stop>> /\ stage[s] \in {"locked", "starting"}
          /\ mine' = [mine EXCEPT ![s] = daemon'.id] /\ (Reuse(s) => daemon # Nobody /\ daemon' = daemon)
      BY <1>2 DEF Reuse, StartEnds, Opened, ownerVars, daemonVars, stopHistory
    <2>2. NoneComes'
      BY <2>1 DEF ComputerTypeOK
    <2>3. paused => s \in late /\ mine'[s] = daemon'.id
      BY <2>1 DEF ComputerTypeOK
    <2> QED BY <2>1, <2>2, <2>3
  <1>3. ASSUME NEW p \in Stoppers, StopTakes(p) \/ StopEnds(p) PROVE NoneComes' /\ PauseStopsDaemon'
    <2>1. UNCHANGED <<paused, late, mine>> /\ \A t \in Sessions : stage'[t] # stage[t] => stage'[t] = "ending"
      BY <1>3, OneStage DEF StopTakes, StopEnds, ownerVars, sessionVars
    <2>2. NoneComes'
      BY <2>1 DEF ComputerTypeOK
    <2>3. daemon' = Nobody \/ (daemon' = daemon /\ (stop'[Owner] # "want" => stop[Owner] # "want"))
      BY <1>3 DEF StopTakes, StopEnds, daemonVars, ComputerTypeOK, Stoppers
    <2> QED BY <2>1, <2>2, <2>3
  <1>4. CASE Pause
    BY <1>4 DEF Pause, ComputerTypeOK, sessionVars, Stoppers
  <1>5. CASE Resume
    BY <1>5 DEF Resume
  <1>6. CASE ChangeSettings \/ Install \/ EnsureChecks \/ DaemonDies \/ BackoffEnds \/ UNCHANGED computerVars
    <2>1. UNCHANGED <<paused, late, mine, stage, daemon>> /\ stop'[Owner] = stop[Owner]
      BY <1>6, ComputerAssumption DEF ComputerAssumption, ComputerTypeOK, ChangeSettings, Install, EnsureChecks, DaemonDies, BackoffEnds,
         computerVars, ownerVars, daemonVars, sessionVars, stopHistory, Stoppers
    <2> QED BY <2>1
  <1> QED BY <1>1, <1>2, <1>3, <1>4, <1>5, <1>6 DEF ComputerNext

\* A start has the lock, so that the end of a daemon finds none.
LEMMA CopyKeeps == ASSUME HInv, RInv, [ComputerNext]_computerVars PROVE CopyIsThere'
  <1> USE DEF HInv, RInv, CopyIsThere, StartsOld, RunsOld
  <1>1. ASSUME NEW s \in Sessions,
               OpenGate(s) \/ Enter(s) \/ Reuse(s) \/ StartRefused(s) \/ StartFails(s) \/ Close(s) \/ WatchEnds(s) \/ Abort(s)
        PROVE  CopyIsThere'
    <2>1. stage' = [stage EXCEPT ![s] = stage'[s]] /\ stage'[s] # "starting"
      BY <1>1, OneStage DEF OpenGate, Enter, Reuse, StartRefused, StartFails, Opened, Close, WatchEnds, Abort, ComputerTypeOK
    <2>2. UNCHANGED <<copyVars, daemon, swept>> /\ \A t \in Sessions \ {s} : want'[t] = want[t]
      BY <1>1 DEF OpenGate, Enter, Reuse, StartRefused, StartFails, Opened, Close, WatchEnds, Abort, daemonVars, stopHistory, ComputerTypeOK
    <2> QED BY <2>1, <2>2 DEF ComputerTypeOK, copyVars
  <1>2. ASSUME lock = Nobody, NEW t \in Sessions, stage'[t] = "starting" => stage[t] = "starting" PROVE stage'[t] # "starting"
    BY <1>2, ComputerAssumption DEF ComputerAssumption, LockHeld
  <1>3. ASSUME NEW s \in Sessions, Lock(s) PROVE CopyIsThere'
    <2>1. \A t \in Sessions : stage'[t] # "starting"
      BY <1>2, <1>3 DEF Lock, ComputerTypeOK
    <2>2. daemon' = Nobody \/ UNCHANGED <<copyVars, daemon, swept>>
      BY <1>3 DEF Lock
    <2> QED BY <2>1, <2>2 DEF copyVars
  <1>4. ASSUME NEW s \in Sessions, StartBegins(s) PROVE CopyIsThere'
    BY <1>4 DEF StartBegins, BinIsFile, copyVars, stopHistory, ComputerTypeOK
  <1>5. ASSUME NEW s \in Sessions, StartEnds(s) PROVE CopyIsThere'
    <2>1. /\ stage[s] = "starting" /\ stage' = [stage EXCEPT ![s] = "open"] /\ swept' = swept /\ oldThere' = oldThere
          /\ \A t \in Sessions \ {s} : want'[t] = want[t]
          /\ daemon'.bin = want[s].bin /\ held' = (held \/ want[s].bin = "old")
      BY <1>5 DEF StartEnds, Opened, stopHistory, ComputerTypeOK
    <2>2. ~swept /\ daemon'.bin = "old" => held' /\ oldThere
      BY <2>1
    <2> QED BY <2>1, <2>2 DEF ComputerTypeOK
  <1>6. ASSUME NEW p \in Stoppers, StopTakes(p) PROVE CopyIsThere'
    <2>1. daemon' = Nobody /\ lock = Nobody /\ stage' = stage
      BY <1>6 DEF StopTakes, sessionVars
    <2> QED BY <1>2, <2>1
  <1>7. ASSUME NEW p \in Stoppers, StopEnds(p) PROVE CopyIsThere'
    <2>1. swept' = (swept \/ StartsOld \/ RunsOld) /\ daemon' = daemon /\ want' = want
      BY <1>7 DEF StopEnds, daemonVars
    <2>2. \A t \in Sessions : stage'[t] = "starting" => stage[t] = "starting"
      BY <1>7, OneStage DEF StopEnds
    <2> QED BY <2>1, <2>2
  <1>8. CASE Install
    BY <1>8 DEF Install, sessionVars, daemonVars
  <1>9. CASE Pause \/ Resume \/ ChangeSettings \/ EnsureChecks \/ DaemonDies \/ BackoffEnds \/ UNCHANGED computerVars
    <2>1. UNCHANGED <<stage, want, copyVars, daemon, swept>>
      BY <1>9 DEF Pause, Resume, ChangeSettings, EnsureChecks, DaemonDies, BackoffEnds, computerVars, sessionVars, daemonVars, stopHistory
    <2> QED BY <2>1 DEF copyVars
  <1> QED BY <1>1, <1>3, <1>4, <1>5, <1>6, <1>7, <1>8, <1>9 DEF ComputerNext

\* The installer: it looks once, and goes on only when nobody is counted.
LEMMA LookKeeps == ASSUME HInv, RInv, [ComputerNext]_computerVars PROVE LooksFirst'
  <1> USE DEF HInv, RInv, LooksFirst
  <1>1. ASSUME UNCHANGED <<ensure, spared>>, stop'[Installer] = stop[Installer],
               \A s \in Sessions : <<s, Installer>> \in cut' => <<s, Installer>> \in cut
        PROVE  LooksFirst'
    BY <1>1
  <1>2. ASSUME NEW s \in Sessions,
               OpenGate(s) \/ Enter(s) \/ Lock(s) \/ Reuse(s) \/ StartRefused(s) \/ StartBegins(s) \/ StartEnds(s) \/ StartFails(s)
               \/ Close(s) \/ WatchEnds(s) \/ Abort(s)
        PROVE  LooksFirst'
    <2>1. UNCHANGED <<ensure, spared>>
      BY <1>2 DEF OpenGate, Enter, Lock, Reuse, StartRefused, StartBegins, StartEnds, StartFails, Close, WatchEnds, Abort, stopHistory
    <2>2. stop'[Installer] = stop[Installer]
      <3>1. s # Installer /\ (stop' = stop \/ stop' = [stop EXCEPT ![s] = "want"] \/ stop' = [stop EXCEPT ![s] = "idle"])
        BY <1>2, ComputerAssumption
           DEF ComputerAssumption, OpenGate, Enter, Lock, Reuse, StartRefused, StartBegins, StartEnds, StartFails, Close, WatchEnds, Abort
      <3> QED BY <3>1 DEF ComputerTypeOK, Stoppers
    <2>3. cut' \subseteq cut \cup (Counted \X {"replaced"})
      BY <1>2 DEF OpenGate, Enter, Lock, CutBy, Reuse, StartRefused, StartBegins, StartEnds, StartFails, Close, WatchEnds, Abort
    <2> QED BY <1>1, <2>1, <2>2, <2>3, ComputerAssumption DEF ComputerAssumption
  <1>3. ASSUME NEW p \in Stoppers, StopTakes(p) PROVE LooksFirst'
    <2>1. CASE p = Installer
      <3>1. ensure \notin {"idle", "placed"} /\ spared = {} /\ UNCHANGED <<ensure, spared>>
        BY <1>3, <2>1 DEF StopTakes
      <3> QED BY <3>1
    <2>2. CASE p # Installer
      <3>1. UNCHANGED <<ensure, spared, cut>> /\ stop'[Installer] = stop[Installer]
        BY <1>3, <2>2 DEF StopTakes, ComputerTypeOK, Stoppers
      <3> QED BY <1>1, <3>1
    <2> QED BY <2>1, <2>2
  <1>4. ASSUME NEW p \in Stoppers, StopEnds(p) PROVE LooksFirst'
    <2>1. CASE p = Installer
      <3>1. ensure' = "done" /\ spared' = spared /\ spared = {}
        BY <1>4, <2>1 DEF StopEnds
      <3> QED BY <3>1
    <2>2. CASE p # Installer
      <3>1. UNCHANGED <<ensure, spared, cut>> /\ stop'[Installer] = stop[Installer]
        BY <1>4, <2>2 DEF StopEnds, ComputerTypeOK, Stoppers
      <3> QED BY <1>1, <3>1
    <2> QED BY <2>1, <2>2
  <1>5. CASE EnsureChecks
    <2>1. CASE count = 0 /\ ensure' = "stopping"
      <3>1. Counted = {}
        BY <2>1, FewSessions, FS_EmptySet DEF CountIsRight
      <3> QED BY <1>5, <2>1, <3>1 DEF EnsureChecks
    <2>2. CASE ensure' = "done" /\ UNCHANGED stop
      BY <1>5, <2>2 DEF EnsureChecks
    <2> QED BY <1>5, <2>1, <2>2 DEF EnsureChecks
  <1>6. CASE Install
    BY <1>6 DEF Install
  <1>7. CASE Pause \/ Resume \/ ChangeSettings \/ DaemonDies \/ BackoffEnds \/ UNCHANGED computerVars
    <2>1. UNCHANGED <<ensure, spared, cut>> /\ stop'[Installer] = stop[Installer]
      BY <1>7, ComputerAssumption DEF ComputerAssumption, Pause, Resume, ChangeSettings, DaemonDies, BackoffEnds, computerVars, stopHistory,
         ComputerTypeOK, Stoppers
    <2> QED BY <1>1, <2>1
  <1> QED BY <1>2, <1>3, <1>4, <1>5, <1>6, <1>7 DEF ComputerNext

LEMMA HistoryTyped == ASSUME RInv, [ComputerNext]_computerVars PROVE HistoryTypeOK'
  BY DEF RInv, HistoryTypeOK, OnTheWay, Counted, ComputerNext, OpenGate, Enter, Lock, Reuse, StartRefused, StartBegins, StartEnds, StartFails,
     Close, WatchEnds, Abort, StopTakes, StopEnds, Pause, Resume, ChangeSettings, Install, EnsureChecks, DaemonDies, BackoffEnds,
     computerVars, stopHistory, StartsOld, RunsOld

LEMMA StopsKeep == ASSUME HInv, RInv, [ComputerNext]_computerVars PROVE RInv'
  BY HistoryTyped, LockKeeps, PauseKeeps, CopyKeeps, LookKeeps DEF RInv

LEMMA StopsRight == RInv => StopsAreRight
  <1> SUFFICES ASSUME RInv PROVE StopsAreRight
    OBVIOUS
  <1>1. LookSparesSessions
    BY DEF RInv, HistoryTypeOK, LooksFirst, LookSparesSessions
  <1> QED BY <1>1 DEF RInv, CopyIsThere, OldCopyIsHeld, StopsAreRight

-----------------------------------------------------------------------------
(* Whose turn it is.                                                       *)

\* The lease: types, whose action the lease remembers, and the
\* distance of the actions.
LInv == TypeOK /\ RecentHolds /\ OneDriver

\* The initial state: nobody acted.
LEMMA LeaseInit == Init => LInv
  BY LeaseAssumption DEF Init, LInv, TypeOK, RecentHolds, OneDriver

\* An action that goes to the driver (lease_take succeeded): no other synth's
\* last action is less than Quiet ago.
LEMMA TakeIsApart ==
  ASSUME LInv, NEW c \in Streams, ~TakenByOther(SynthOf[c]),
         NEW r \in Synths, r # SynthOf[c], acted[r] # None
  PROVE  now >= acted[r] + Quiet
  <1>1. acted[r] \in 0 .. now /\ now \in Nat /\ Quiet \in Nat
    BY LeaseAssumption DEF LInv, TypeOK
  <1>2. SUFFICES ASSUME now < acted[r] + Quiet PROVE FALSE
    BY <1>1
  <1>3. lease # None /\ lease.synth = r /\ lease.last >= acted[r]
    BY <1>2 DEF LInv, RecentHolds
  <1>4. lease.last \in 0 .. now
    BY <1>3 DEF LInv, TypeOK
  <1>5. now - lease.last < Quiet
    BY <1>1, <1>2, <1>3, <1>4
  <1> QED BY <1>3, <1>5 DEF TakenByOther, DrivenByOther

\* Types are kept by every step of the gate, the clock and the unlink.
LEMMA LeaseTypes == ASSUME LInv, [Next]_vars PROVE TypeOK'
  <1> USE LeaseAssumption DEF LInv, TypeOK
  <1>1. CASE Tick
    BY <1>1 DEF Tick
  <1>2. ASSUME NEW c \in Streams, Check(c) \/ Refuse(c) \/ Busy(c) \/ Done(c)
        PROVE TypeOK'
    BY <1>2 DEF Check, Refuse, Busy, Done
  <1>3. ASSUME NEW c \in Streams, Take(c) PROVE TypeOK'
    <2>1. SynthOf[c] \in Synths /\ now \in 0 .. now
      OBVIOUS
    <2>2. lease' \in [synth : Synths, last : 0 .. now'] \cup {None}
      BY <1>3, <2>1 DEF Take, Keep
    <2>3. acted' \in [Synths -> 0 .. now' \cup {None}] /\ acting' \subseteq Streams
      BY <1>3, <2>1 DEF Take
    <2> QED BY <1>3, <2>2, <2>3 DEF Take
  <1>4. ASSUME NEW s \in Synths, Unlink(s) \/ Link(s) PROVE TypeOK'
    BY <1>4 DEF Unlink, Link, Released
  <1>5. CASE UNCHANGED vars
    BY <1>5 DEF vars
  <1> QED BY <1>1, <1>2, <1>3, <1>4, <1>5 DEF Next

\* A recent action stays the one the lease remembers: taking it needs a lease
\* that is free, old or one's own, and an unlink releases only one's own.
LEMMA LeaseRecent == ASSUME LInv, [Next]_vars PROVE RecentHolds'
  <1> SUFFICES ASSUME NEW s \in Synths, acted'[s] # None, now' < acted'[s] + Quiet
               PROVE  lease' # None /\ lease'.synth = s /\ lease'.last >= acted'[s]
    BY DEF RecentHolds
  <1>0. now \in Nat /\ Quiet \in Nat /\ acted \in [Synths -> 0 .. now \cup {None}]
    BY LeaseAssumption DEF LInv, TypeOK
  <1>a. ASSUME acted'[s] = acted[s], now' \in Nat, now' >= now, lease' = lease
        PROVE  lease' # None /\ lease'.synth = s /\ lease'.last >= acted'[s]
    <2>1. acted[s] \in 0 .. now
      BY <1>0, <1>a
    <2>2. now < acted[s] + Quiet
      BY <1>0, <1>a, <2>1
    <2> QED BY <1>a, <2>2 DEF LInv, RecentHolds
  <1>1. CASE Tick
    BY <1>0, <1>1, <1>a DEF Tick
  <1>2. ASSUME NEW c \in Streams, Check(c) \/ Refuse(c) \/ Busy(c) \/ Done(c)
        PROVE  lease' # None /\ lease'.synth = s /\ lease'.last >= acted'[s]
    BY <1>0, <1>2, <1>a DEF Check, Refuse, Busy, Done
  <1>3. ASSUME NEW c \in Streams, Take(c)
        PROVE  lease' # None /\ lease'.synth = s /\ lease'.last >= acted'[s]
    <2>0. SynthOf[c] \in Synths
      BY LeaseAssumption
    <2>1. lease' = [synth |-> SynthOf[c], last |-> now] /\ now' = now
      BY <1>3 DEF Take, Keep
    <2>2. lease' # None
      BY <1>0, <2>0, <2>1, LeaseAssumption
    <2>3. s = SynthOf[c]
      <3>1. SUFFICES ASSUME s # SynthOf[c] PROVE FALSE
        OBVIOUS
      <3>2. acted'[s] = acted[s]
        BY <1>3, <1>0, <3>1 DEF Take
      <3>3. now >= acted[s] + Quiet
        BY <1>3, <3>1, <3>2, TakeIsApart DEF Take
      <3> QED BY <1>0, <2>1, <3>2, <3>3
    <2>4. acted'[s] = now \/ acted'[s] = acted[s]
      BY <1>3, <1>0 DEF Take
    <2>5. acted'[s] <= now
      BY <1>0, <2>4
    <2> QED BY <1>0, <2>1, <2>2, <2>3, <2>4, <2>5
  <1>4. ASSUME NEW u \in Synths, Unlink(u)
        PROVE  lease' # None /\ lease'.synth = s /\ lease'.last >= acted'[s]
    <2>1. u # s /\ acted'[s] = acted[s] /\ now' = now
      BY <1>0, <1>4 DEF Unlink
    <2>2. lease # None /\ lease.synth = s
      BY <2>1 DEF LInv, RecentHolds
    <2>3. lease' = lease
      BY <1>4, <2>1, <2>2 DEF Unlink, Released
    <2> QED BY <1>0, <1>a, <2>1, <2>3
  <1>5. ASSUME NEW u \in Synths, Link(u)
        PROVE  lease' # None /\ lease'.synth = s /\ lease'.last >= acted'[s]
    BY <1>0, <1>5, <1>a DEF Link
  <1>6. CASE UNCHANGED vars
    BY <1>0, <1>6, <1>a DEF vars
  <1> QED BY <1>1, <1>2, <1>3, <1>4, <1>5, <1>6 DEF Next

\* The distance of two synths' last actions, from TakeIsApart.
LEMMA LeaseApart == ASSUME LInv, [Next]_vars PROVE OneDriver'
  <1>0. now \in Nat /\ Quiet \in Nat /\ acted \in [Synths -> 0 .. now \cup {None}]
    BY LeaseAssumption DEF LInv, TypeOK
  <1>1. ASSUME UNCHANGED acted PROVE OneDriver'
    BY <1>1 DEF LInv, OneDriver
  <1>2. ASSUME NEW c \in Streams, Take(c) PROVE OneDriver'
    <2> SUFFICES ASSUME NEW r \in Synths, NEW s \in Synths, r # s,
                        acted'[r] # None, acted'[s] # None
                 PROVE acted'[r] >= acted'[s] + Quiet \/ acted'[s] >= acted'[r] + Quiet
      BY DEF OneDriver
    <2>1. CASE UNCHANGED acted
      BY <1>1, <2>1 DEF OneDriver
    <2>2. CASE acted' = [acted EXCEPT ![SynthOf[c]] = now]
      <3>1. \A t \in Synths : (t # SynthOf[c] /\ acted[t] # None) => now >= acted[t] + Quiet
        BY <1>2, TakeIsApart DEF Take
      <3>2. CASE r = SynthOf[c]
        BY <1>0, <2>2, <3>1, <3>2
      <3>3. CASE s = SynthOf[c]
        BY <1>0, <2>2, <3>1, <3>3
      <3>4. CASE r # SynthOf[c] /\ s # SynthOf[c]
        BY <1>0, <2>2, <3>4 DEF LInv, OneDriver
      <3> QED BY <3>2, <3>3, <3>4
    <2> QED BY <1>2, <2>1, <2>2 DEF Take
  <1>3. ASSUME NEW u \in Synths, Unlink(u) PROVE OneDriver'
    BY <1>0, <1>3 DEF Unlink, LInv, OneDriver
  <1>4. CASE Tick \/ UNCHANGED vars
    BY <1>1, <1>4 DEF Tick, vars
  <1>5. ASSUME NEW c \in Streams, Check(c) \/ Refuse(c) \/ Busy(c) \/ Done(c) PROVE OneDriver'
    BY <1>1, <1>5 DEF Check, Refuse, Busy, Done
  <1>6. ASSUME NEW u \in Synths, Link(u) PROVE OneDriver'
    BY <1>1, <1>6 DEF Link
  <1> QED BY <1>2, <1>3, <1>4, <1>5, <1>6 DEF Next

-----------------------------------------------------------------------------
(* Which app a call is about.                                              *)

Screens == [runs : [Pids -> Apps \cup {Nil}], owner : [Windows -> Pids \cup {Nil}], installed : SUBSET Apps]

Calls ==
    [at : Stages, want : Wants, pids : SUBSET Pids, known : SUBSET Pids, moved : BOOLEAN, late : BOOLEAN,
     fresh : SUBSET Lists, foreground : {"always", "never", "ask"}, touched : SUBSET Apps]

DirTypes ==
    /\ screen \in Screens /\ rows \in Screens
    /\ age \in [Lists -> Nat] /\ \A l \in Lists : age[l] <= TTL(l)
    /\ moved \in [Lists -> SUBSET (Pids \cup Apps \cup Windows)] /\ \A l \in Lists : moved[l] \subseteq Of(l)
    /\ reading \in [who : {Nil, "call", "owner"}, list : Lists \cup {Nil}]
    /\ reading.who # Nil => reading.list \in Lists
    /\ scope \in {"all", "except", "only"}
    /\ set \in [ok : BOOLEAN, denied : BOOLEAN, foreground : {"never", "ask"}]
    /\ req \in Calls /\ req.known \subseteq req.pids
    /\ reading.who = "call" => req.at \in {"owner", "app", "answer", "launch"}
    /\ events \in 0 .. MaxEvents

\* What did not change hands since a reading is as it was read.
AsRead ==
    /\ \A p \in Pids \ moved["apps"] : rows.runs[p] = screen.runs[p]
    /\ \A a \in Apps \ moved["apps"] : a \in rows.installed <=> a \in screen.installed
    /\ \A w \in Windows \ moved["windows"] : rows.owner[w] = screen.owner[w]

Late == {"foreground", "asked", "ready", "driver"}

\* A call at a stage is a call of that stage's kinds.
RightKind ==
    /\ req.want.kind = "launch" => req.at \in {"launch"} \cup Late /\ req.pids = {}
    /\ req.at = "launch" => req.want.kind = "launch"
    /\ req.at = "owner" => req.want.window # Nil
    /\ req.at \in {"owner", "app"} => req.want.kind \in {"window", "page", "windows"}
    /\ req.at = "answer" => req.want.kind \in {"apps", "windows"}
    /\ req.at \in Late => req.want = Nothing \/ req.want.kind = "launch" \/ req.known = req.pids
    /\ req.want.pid # Nil => req.want.pid \in req.pids

\* What a call that nothing changed hands under has found out is so.
FoundOut ==
    ~req.moved =>
        /\ \A p \in req.known : Allows(screen.runs[p])
        /\ req.want.window # Nil /\ req.at \in {"app"} \cup Late => screen.owner[req.want.window] \in req.pids
        /\ req.want.kind = "launch" /\ req.at \in Late =>
             \A a \in Named(req.want.name, screen.installed) : Allows(a)

DInv ==
    /\ DirTypes /\ AsRead
    /\ req.at \in Underway => RightKind /\ FoundOut
    /\ ~req.late
    /\ ExcludedUntouched

LEMMA WantKinds ==
    /\ Nothing \in Wants /\ Nothing.kind = "free"
    /\ \A w \in Wants :
         /\ w.pid \in Pids \cup {Nil} /\ w.window \in Windows \cup {Nil}
         /\ w.kind = "launch" => w.pid = Nil /\ w.window = Nil
         /\ w.kind \in {"windows", "apps"} => w.window = Nil
         /\ w.kind \in {"launch", "windows", "apps", "clipboard", "free", "unknown", "screen", "window", "page", "pointer"}
         /\ w.kind \in {"apps", "pointer"} => w.pid = Nil
  <1>3. Nothing \in Wants
    BY DEF Wants
  <1>4. ASSUME NEW w \in Wants
        PROVE  /\ w.pid \in Pids \cup {Nil} /\ w.window \in Windows \cup {Nil}
               /\ w.kind = "launch" => w.pid = Nil /\ w.window = Nil
               /\ w.kind \in {"windows", "apps"} => w.window = Nil
               /\ w.kind \in {"launch", "windows", "apps", "clipboard", "free", "unknown", "screen", "window", "page", "pointer"}
               /\ w.kind \in {"apps", "pointer"} => w.pid = Nil
    <2>1. CASE w \in [kind : {"window", "page"}, pid : Pids \cup {Nil}, window : Windows \cup {Nil}, desktop : {FALSE}, name : {Nil}]
      BY <2>1
    <2>2. CASE \E d \in BOOLEAN : w = [Nothing EXCEPT !.kind = "pointer", !.desktop = d]
      BY <2>2 DEF Nothing
    <2>3. CASE \E n \in {NameOf(a) : a \in Apps} \cup {Nil} : w = [Nothing EXCEPT !.kind = "launch", !.name = n]
      BY <2>3 DEF Nothing
    <2>4. CASE \E p \in Pids \cup {Nil} : w = [Nothing EXCEPT !.kind = "windows", !.pid = p]
      BY <2>4 DEF Nothing
    <2>5. CASE \E k \in {"apps", "screen", "clipboard", "unknown"} : w = [Nothing EXCEPT !.kind = k]
      BY <2>5 DEF Nothing
    <2>6. CASE w = Nothing
      BY <2>6 DEF Nothing
    <2> QED BY <2>1, <2>2, <2>3, <2>4, <2>5, <2>6 DEF Wants
  <1> QED BY <1>3, <1>4 DEF Nothing

LEMMA DirStart == DirectoryInit => DInv
  <1> SUFFICES ASSUME DirectoryInit PROVE DInv
    OBVIOUS
  <1> USE DirectoryAssumption DEF DirectoryAssumption, DirectoryInit
  <1>1. screen \in Screens /\ rows \in Screens
    BY DEF Screens
  <1>2. age \in [Lists -> Nat] /\ \A l \in Lists : age[l] <= TTL(l)
    BY DEF TTL
  <1>3. moved \in [Lists -> SUBSET (Pids \cup Apps \cup Windows)] /\ \A l \in Lists : moved[l] \subseteq Of(l)
    BY DEF Of
  <1>4. moved["apps"] = Pids \cup Apps /\ moved["windows"] = Windows
    BY DEF Of, Lists
  <1>5. req \in Calls /\ req.known \subseteq req.pids /\ ~req.late /\ req.touched = {} /\ req.at = "idle"
    BY WantKinds DEF Calls, NoCall, Stages
  <1>6. reading \in [who : {Nil, "call", "owner"}, list : Lists \cup {Nil}] /\ reading.who = Nil
    BY DEF NoReading
  <1>7. set \in [ok : BOOLEAN, denied : BOOLEAN, foreground : {"never", "ask"}] /\ events \in 0 .. MaxEvents
    OBVIOUS
  <1>8. DirTypes
    BY <1>1, <1>2, <1>3, <1>5, <1>6, <1>7 DEF DirTypes, Nil
  <1>9. AsRead
    BY <1>4 DEF AsRead
  <1> QED BY <1>5, <1>8, <1>9 DEF DInv, ExcludedUntouched, Underway

\* Something changes hands: what it is not about stays as it was read and
\* found out.
LEMMA MovesKeep ==
    ASSUME DInv, NEW x, NEW s \in Screens, Moves(x, s), events' \in 0 .. MaxEvents,
           \A p \in Pids \ x : s.runs[p] = screen.runs[p],
           \A a \in Apps \ x : a \in s.installed <=> a \in screen.installed,
           \A w \in Windows \ x : s.owner[w] = screen.owner[w]
    PROVE  DInv'
  <1>1. screen' = s /\ UNCHANGED <<rows, age, reading, scope, set>>
    BY DEF Moves
  <1>2. /\ moved' \in [Lists -> SUBSET (Pids \cup Apps \cup Windows)] /\ \A l \in Lists : moved'[l] = moved[l] \cup (x \cap Of(l))
    BY DEF Moves, DInv, DirTypes, Of
  <1>3. /\ req' \in Calls /\ req'.at = req.at /\ req'.want = req.want /\ req'.pids = req.pids /\ req'.known = req.known
        /\ req'.late = req.late /\ req'.touched = req.touched
        /\ req'.moved = (req.moved \/ (req.at \in Underway /\ x \cap About(req) # {}))
    <2>1. req \in Calls
      BY DEF DInv, DirTypes
    <2> DEFINE m == req.moved \/ (req.at \in Underway /\ x \cap About(req) # {})
    <2>2. req' = [req EXCEPT !.moved = m] /\ m \in BOOLEAN
      BY <2>1 DEF Moves, Calls
    <2> HIDE DEF m
    <2>3. /\ req' \in Calls /\ req'.at = req.at /\ req'.want = req.want /\ req'.pids = req.pids /\ req'.known = req.known
          /\ req'.late = req.late /\ req'.touched = req.touched /\ req'.moved = m
      BY <2>1, <2>2 DEF Calls
    <2> QED BY <2>3 DEF m
  <1>4. DirTypes'
    <2>1. \A l \in Lists : moved'[l] \subseteq Of(l)
      BY <1>2 DEF DInv, DirTypes
    <2> QED BY <1>1, <1>2, <1>3, <2>1 DEF DInv, DirTypes, TTL
  <1>5. AsRead'
    BY <1>1, <1>2 DEF DInv, AsRead, Of, Lists
  <1>6. RightKind => RightKind'
    BY <1>3 DEF RightKind
  <1>7. ASSUME req.at \in Underway, RightKind, FoundOut PROVE FoundOut'
    <2> SUFFICES ASSUME ~req'.moved
                 PROVE  /\ \A p \in req.known : Allows(s.runs[p])
                        /\ req.want.window # Nil /\ req.at \in {"app"} \cup Late => s.owner[req.want.window] \in req.pids
                        /\ req.want.kind = "launch" /\ req.at \in Late => \A a \in Named(req.want.name, s.installed) : Allows(a)
      BY <1>1, <1>3 DEF FoundOut, Allows
    <2>1. ~req.moved /\ x \cap About(req) = {} /\ req.want \in Wants /\ req.pids \subseteq Pids /\ req.known \subseteq req.pids
      BY <1>3, <1>7 DEF DInv, DirTypes, Calls
    <2>2. req.want.kind # "launch" => req.pids \cap x = {}
      <3>1. CASE req.want.kind = "windows"
        BY <3>1, <2>1 DEF About
      <3>2. CASE req.want.kind \notin {"windows", "launch"}
        BY <3>2, <2>1 DEF About
      <3> QED BY <3>1, <3>2
    <2>3. req.want.window # Nil => req.want.window \in Windows \ x
      <3>1. req.want.window # Nil => req.want.kind \notin {"launch", "windows"} /\ req.want.window \in Windows
        BY <2>1, WantKinds
      <3> QED BY <3>1, <2>1 DEF About
    <2>4. req.want.kind = "launch" => req.pids = {} /\ Named(req.want.name, Apps) \cap x = {}
      BY <2>1, <1>7 DEF About, RightKind
    <2>5. req.want.kind = "launch" => Named(req.want.name, s.installed) \subseteq Named(req.want.name, screen.installed)
      BY <2>4 DEF Named, Screens
    <2>6. \A p \in req.known : Allows(s.runs[p])
      BY <2>1, <2>2, <2>4, <1>7 DEF FoundOut
    <2>7. req.want.window # Nil /\ req.at \in {"app"} \cup Late => s.owner[req.want.window] \in req.pids
      BY <2>1, <2>3, <1>7 DEF FoundOut
    <2>8. req.want.kind = "launch" /\ req.at \in Late => \A a \in Named(req.want.name, s.installed) : Allows(a)
      BY <2>1, <2>5, <1>7 DEF FoundOut
    <2> QED BY <2>6, <2>7, <2>8
  <1>8. ExcludedUntouched'
    BY <1>1, <1>3 DEF DInv, ExcludedUntouched, Allows
  <1> QED BY <1>3, <1>4, <1>5, <1>6, <1>7, <1>8 DEF DInv

LEMMA ScreenKeeps == ASSUME DInv, ScreenMoves PROVE DInv'
  <1> USE DirectoryAssumption DEF DirectoryAssumption
  <1>0. screen \in Screens /\ (Event => events' \in 0 .. MaxEvents)
    BY DEF DInv, DirTypes, Event
  <1>1. ASSUME NEW p \in Pids, Quits(p) PROVE DInv'
    <2> DEFINE its == {w \in Windows : screen.owner[w] = p}
               runs == [screen.runs EXCEPT ![p] = Nil]
               owner == [w \in Windows |-> IF w \in its THEN Nil ELSE screen.owner[w]]
               s == [screen EXCEPT !.runs = runs, !.owner = owner]
    <2>1. Event /\ Moves({p} \cup its, s)
      BY <1>1 DEF Quits
    <2>2. runs \in [Pids -> Apps \cup {Nil}] /\ owner \in [Windows -> Pids \cup {Nil}]
      BY <1>0 DEF Screens
    <2> HIDE DEF runs, owner
    <2>3. s \in Screens /\ s.runs = runs /\ s.owner = owner /\ s.installed = screen.installed
      BY <1>0, <2>2 DEF Screens
    <2>4. /\ \A q \in Pids \ ({p} \cup its) : runs[q] = screen.runs[q]
          /\ \A w \in Windows \ ({p} \cup its) : owner[w] = screen.owner[w]
      BY <1>0 DEF runs, owner, Screens
    <2> HIDE DEF s, its
    <2> QED BY <1>0, <2>1, <2>3, <2>4, MovesKeep
  <1>2. ASSUME NEW p \in Pids, NEW a \in Apps, Starts(p, a) PROVE DInv'
    <2> DEFINE runs == [screen.runs EXCEPT ![p] = a]
               s == [screen EXCEPT !.runs = runs]
    <2>1. Event /\ Moves({p}, s)
      BY <1>2 DEF Starts
    <2>2. runs \in [Pids -> Apps \cup {Nil}] /\ \A q \in Pids \ {p} : runs[q] = screen.runs[q]
      BY <1>0 DEF Screens
    <2> HIDE DEF runs
    <2>3. s \in Screens /\ s.runs = runs /\ s.owner = screen.owner /\ s.installed = screen.installed
      BY <1>0, <2>2 DEF Screens
    <2> HIDE DEF s
    <2> QED BY <1>0, <2>1, <2>2, <2>3, MovesKeep
  <1>3. ASSUME NEW w \in Windows, NEW p \in Pids, Opens(w, p) PROVE DInv'
    <2> DEFINE owner == [screen.owner EXCEPT ![w] = p]
               s == [screen EXCEPT !.owner = owner]
    <2>1. Event /\ Moves({w}, s)
      BY <1>3 DEF Opens
    <2>2. owner \in [Windows -> Pids \cup {Nil}] /\ \A v \in Windows \ {w} : owner[v] = screen.owner[v]
      BY <1>0 DEF Screens
    <2> HIDE DEF owner
    <2>3. s \in Screens /\ s.owner = owner /\ s.runs = screen.runs /\ s.installed = screen.installed
      BY <1>0, <2>2 DEF Screens
    <2> HIDE DEF s
    <2> QED BY <1>0, <2>1, <2>2, <2>3, MovesKeep
  <1>4. ASSUME NEW a \in Apps, Installs(a) PROVE DInv'
    <2> DEFINE s == [screen EXCEPT !.installed = @ \cup {a}]
    <2>1. Event /\ Moves({a}, s)
      BY <1>4 DEF Installs
    <2>2. s \in Screens /\ s.installed = screen.installed \cup {a} /\ s.runs = screen.runs /\ s.owner = screen.owner
      BY <1>0 DEF Screens
    <2> HIDE DEF s
    <2> QED BY <1>0, <2>1, <2>2, MovesKeep
  <1> QED BY <1>1, <1>2, <1>3, <1>4 DEF ScreenMoves

\* A step that leaves the screen alone, and the call or ends it.
LEMMA CallRests ==
    ASSUME DInv, UNCHANGED <<screen, scope>>, DirTypes', AsRead', NEW at \in {"idle", "done", "closed"},
           req' = req \/ req' = NoCall \/ req' = Ended(at)
    PROVE  DInv'
  <1>1. CASE req' = req
    BY <1>1 DEF DInv, RightKind, FoundOut, ExcludedUntouched, Allows
  <1>2. CASE req' = Ended(at)
    <2>1. req'.at = at /\ ~req'.late /\ req'.touched = {}
      BY <1>2 DEF Ended, NoCall
    <2> QED BY <2>1 DEF DInv, ExcludedUntouched, Underway
  <1>3. CASE req' = NoCall
    <2>1. req'.at = "idle" /\ ~req'.late /\ req'.touched = {}
      BY <1>3 DEF NoCall
    <2> QED BY <2>1 DEF DInv, ExcludedUntouched, Underway
  <1> QED BY <1>1, <1>2, <1>3

LEMMA EndedIsACall ==
    /\ NoCall \in Calls /\ NoCall.at = "idle" /\ NoCall.known = {} /\ ~NoCall.late /\ NoCall.touched = {}
    /\ \A at \in Stages : Ended(at) \in Calls /\ Ended(at).at = at /\ Ended(at).known = {}
                           /\ ~Ended(at).late /\ Ended(at).touched = {}
  BY WantKinds DEF Ended, NoCall, Calls, Stages

LEMMA ListsKeep ==
    ASSUME DInv, TimePasses \/ OwnerReads \/ ReadsRows \/ ReadFails \/ Stops
    PROVE  DInv'
  <1> USE DirectoryAssumption DEF DirectoryAssumption
  <1>1. CASE TimePasses
    <2>1. UNCHANGED <<screen, rows, moved, reading, scope, set, req, events>>
      BY <1>1 DEF TimePasses
    <2>2. age' \in [Lists -> Nat] /\ \A l \in Lists : age'[l] <= TTL(l)
      BY <1>1 DEF TimePasses, DInv, DirTypes, TTL
    <2>3. DirTypes' /\ AsRead'
      BY <2>1, <2>2 DEF DInv, DirTypes, AsRead, TTL, Of
    <2> QED BY <2>1, <2>3, CallRests
  <1>2. CASE OwnerReads
    <2>1. UNCHANGED <<screen, rows, age, moved, scope, set, req>>
      BY <1>2 DEF OwnerReads
    <2>2. reading' = [who |-> "owner", list |-> "apps"] /\ events' \in 0 .. MaxEvents
      BY <1>2 DEF OwnerReads, Reads, Event, DInv, DirTypes
    <2>3. DirTypes' /\ AsRead'
      BY <2>1, <2>2 DEF DInv, DirTypes, AsRead, TTL, Of, Lists
    <2> QED BY <2>1, <2>3, CallRests
  <1>3. CASE ReadsRows
    <2>0. reading.list \in Lists /\ screen \in Screens /\ rows \in Screens /\ req \in Calls
      BY <1>3 DEF ReadsRows, DInv, DirTypes
    <2>1. UNCHANGED <<screen, scope, set, events>> /\ reading' = NoReading
      BY <1>3 DEF ReadsRows
    <2>2. /\ age' \in [Lists -> Nat] /\ \A l \in Lists : age'[l] <= TTL(l)
      BY <2>0, <1>3 DEF ReadsRows, DInv, DirTypes, TTL
    <2>3. /\ moved' \in [Lists -> SUBSET (Pids \cup Apps \cup Windows)] /\ \A l \in Lists : moved'[l] \subseteq Of(l)
          /\ \A l \in Lists : moved'[l] = IF l = reading.list THEN {} ELSE moved[l]
      BY <2>0, <1>3 DEF ReadsRows, DInv, DirTypes, Of
    <2>4. /\ rows' \in Screens
          /\ reading.list = "apps" => rows'.runs = screen.runs /\ rows'.installed = screen.installed /\ rows'.owner = rows.owner
          /\ reading.list # "apps" => rows'.runs = rows.runs /\ rows'.installed = rows.installed /\ rows'.owner = screen.owner
      BY <2>0, <1>3 DEF ReadsRows, Screens
    <2>5. /\ req' \in Calls /\ req'.at = req.at /\ req'.want = req.want /\ req'.pids = req.pids /\ req'.known = req.known
          /\ req'.late = req.late /\ req'.touched = req.touched /\ req'.moved = req.moved
      <3>1. req' = req \/ req' = [req EXCEPT !.fresh = @ \cup {reading.list}]
        BY <1>3 DEF ReadsRows
      <3> QED BY <2>0, <3>1 DEF Calls
    <2>6. DirTypes'
      <3>1. reading' \in [who : {Nil, "call", "owner"}, list : Lists \cup {Nil}] /\ reading'.who = Nil
        BY <2>1 DEF NoReading
      <3>2. "call" # Nil
        BY DEF Nil
      <3> QED BY <2>1, <2>2, <2>3, <2>4, <2>5, <3>1, <3>2 DEF DInv, DirTypes, TTL, Of
    <2>7. AsRead'
      BY <2>0, <2>1, <2>3, <2>4 DEF DInv, AsRead, Lists
    <2>8. (RightKind => RightKind') /\ (FoundOut => FoundOut') /\ ExcludedUntouched'
      BY <2>1, <2>5 DEF RightKind, FoundOut, DInv, ExcludedUntouched, Allows
    <2> QED BY <2>5, <2>6, <2>7, <2>8 DEF DInv
  <1>4. CASE ReadFails
    <2>1. UNCHANGED <<screen, rows, age, moved, scope, set, events>> /\ reading' = NoReading
      BY <1>4 DEF ReadFails
    <2>2. req' = req \/ req' = NoCall
      BY <1>4 DEF ReadFails
    <2>3. req' \in Calls /\ req'.known \subseteq req'.pids
      BY <2>2, EndedIsACall DEF DInv, DirTypes, Stages
    <2>4. DirTypes' /\ AsRead'
      <3>1. reading' \in [who : {Nil, "call", "owner"}, list : Lists \cup {Nil}] /\ reading'.who = Nil /\ "call" # Nil
        BY <2>1 DEF NoReading, Nil
      <3> QED BY <2>1, <2>3, <3>1 DEF DInv, DirTypes, AsRead, TTL, Of
    <2> QED BY <2>1, <2>2, <2>4, CallRests
  <1>5. CASE Stops
    <2>1. UNCHANGED <<screen, rows, moved, reading, scope, set, events>> /\ reading.who = Nil
      BY <1>5 DEF Stops
    <2>2. age' \in [Lists -> Nat] /\ \A l \in Lists : age'[l] <= TTL(l)
      BY <1>5 DEF Stops, TTL
    <2>3. req' = NoCall /\ req' \in Calls /\ req'.known \subseteq req'.pids
      BY <1>5, EndedIsACall DEF Stops, Stages
    <2>4. DirTypes' /\ AsRead'
      BY <2>1, <2>2, <2>3 DEF DInv, DirTypes, AsRead, TTL, Of, Nil
    <2> QED BY <2>1, <2>3, <2>4, CallRests
  <1> QED BY <1>1, <1>2, <1>3, <1>4, <1>5

LEMMA OwnerSetsKeep ==
    ASSUME DInv, NEW s \in [ok : BOOLEAN, denied : BOOLEAN, foreground : {"never", "ask"}], OwnerSets(s)
    PROVE  DInv'
  <1> USE DirectoryAssumption DEF DirectoryAssumption
  <1>1. set' = s /\ UNCHANGED <<screen, rows, age, moved, reading, scope, req>> /\ events' \in 0 .. MaxEvents
    BY DEF OwnerSets, Event, DInv, DirTypes
  <1>2. DirTypes' /\ AsRead'
    BY <1>1 DEF DInv, DirTypes, AsRead, TTL, Of
  <1> QED BY <1>1, <1>2, CallRests

\* A step of the call: the lists and the screen rest.
LEMMA CallSteps ==
    ASSUME DInv, UNCHANGED <<screen, rows, age, moved, reading, scope, set, events>>,
           reading.who # "call",
           req' \in Calls, req'.known \subseteq req'.pids, ~req'.late, ExcludedUntouched',
           req'.at \in Underway => RightKind' /\ FoundOut'
    PROVE  DInv'
  <1>1. DirTypes' /\ AsRead'
    BY DEF DInv, DirTypes, AsRead, TTL, Of
  <1> QED BY <1>1 DEF DInv

LEMMA FirstStages ==
    ASSUME NEW w \in Wants
    PROVE  LET f == FirstStage(w)
           IN  /\ f \in {"foreground", "idle", "answer", "app", "launch", "owner"}
               /\ f = "answer" => w.kind \in {"apps", "windows"}
               /\ f = "app" => w.kind \in {"window", "page", "windows"} /\ w.window = Nil
               /\ f = "launch" => w.kind = "launch"
               /\ f = "owner" => w.kind \in {"window", "page"} /\ w.window # Nil
               /\ f = "foreground" \/ f = "idle" \/ w.kind # "launch" \/ f = "launch"
  BY WantKinds DEF FirstStage

LEMMA ArrivesKeeps ==
    ASSUME DInv, NEW w \in Wants, NEW fore \in BOOLEAN, Arrives(w, fore)
    PROVE  DInv'
  <1> DEFINE f == FirstStage(w)
             c == [NoCall EXCEPT !.at = f, !.want = IF f = "foreground" THEN Nothing ELSE w,
                                 !.foreground = IF fore THEN set.foreground ELSE "always",
                                 !.pids = IF w.pid = Nil THEN {} ELSE {w.pid}]
  <1>1. /\ UNCHANGED <<screen, rows, age, moved, reading, scope, set, events>> /\ reading.who # "call"
        /\ req' = NoCall \/ (req' = c /\ f # "idle")
    BY DEF Arrives, DInv, DirTypes, Underway, Stages
  <1>2. CASE req' = NoCall
    <2>1. req'.at = "idle" /\ ~req'.late /\ req'.touched = {} /\ req' \in Calls /\ req'.known \subseteq req'.pids
      BY <1>2, EndedIsACall DEF NoCall
    <2> QED BY <1>1, <2>1, CallSteps DEF ExcludedUntouched, Underway
  <1>3. CASE req' = c /\ f # "idle"
    <2> DEFINE about == IF f = "foreground" THEN Nothing ELSE w
               fg == IF fore THEN set.foreground ELSE "always"
               pids == IF w.pid = Nil THEN {} ELSE {w.pid}
    <2>1. about \in Wants /\ fg \in {"always", "never", "ask"} /\ pids \in SUBSET Pids /\ f \in Stages
      BY WantKinds, FirstStages DEF DInv, DirTypes, Stages
    <2>2. req' = [NoCall EXCEPT !.at = f, !.want = about, !.foreground = fg, !.pids = pids]
      BY <1>3
    <2> HIDE DEF about, fg, pids, f, c
    <2>3. /\ req' \in Calls /\ req'.at = f /\ req'.want = about /\ req'.pids = pids /\ req'.known = {} /\ ~req'.late
          /\ req'.touched = {}
      BY <2>1, <2>2, EndedIsACall DEF Calls, NoCall
    <2>4. ExcludedUntouched'
      BY <2>3 DEF ExcludedUntouched
    <2>5. /\ f = "foreground" => about = Nothing
          /\ f # "foreground" => about = w
          /\ about.pid # Nil => about.pid \in pids
          /\ about.kind = "launch" => pids = {}
      BY WantKinds DEF about, pids, Nothing
    <2>6. /\ f \in {"foreground", "answer", "app", "launch", "owner"}
          /\ f = "answer" => w.kind \in {"apps", "windows"}
          /\ f = "app" => w.kind \in {"window", "page", "windows"} /\ w.window = Nil
          /\ f = "launch" => w.kind = "launch"
          /\ f = "owner" => w.kind \in {"window", "page"} /\ w.window # Nil
          /\ f = "foreground" \/ w.kind # "launch" \/ f = "launch"
      BY <1>3, FirstStages DEF f
    <2>7. Nothing.kind = "free" /\ Nothing.pid = Nil /\ Nothing.window = Nil
      BY DEF Nothing
    <2>8. RightKind'
      BY <2>3, <2>5, <2>6, <2>7 DEF RightKind, Late
    <2>9. FoundOut'
      BY <2>3, <2>5, <2>6, <2>7 DEF FoundOut, Late
    <2> QED BY <1>1, <2>3, <2>4, <2>8, <2>9, CallSteps
  <1> QED BY <1>1, <1>2, <1>3

\* The call is over, without having touched anything.
LEMMA CallEndsKeep ==
    ASSUME DInv, req' \in {NoCall, Ended("idle"), Ended("closed")}, UNCHANGED <<screen, rows, age, moved, reading, scope, set, events>>,
           reading.who # "call"
    PROVE  DInv'
  <1>1. req' \in Calls /\ req'.known \subseteq req'.pids /\ ~req'.late /\ req'.touched = {} /\ req'.at \notin Underway
    <2>1. "idle" \in Stages \ Underway /\ "closed" \in Stages \ Underway
      BY DEF Stages, Underway
    <2> QED BY <2>1, EndedIsACall
  <1> QED BY <1>1, CallSteps DEF ExcludedUntouched

LEMMA StreamEndsKeeps == ASSUME DInv, StreamEnds PROVE DInv'
  <1>1. UNCHANGED <<screen, rows, age, moved, scope, set, events>> /\ req' = Ended("closed")
    BY DEF StreamEnds
  <1>2. reading' \in [who : {Nil, "call", "owner"}, list : Lists \cup {Nil}] /\ reading'.who # "call"
        /\ (reading'.who # Nil => reading'.list \in Lists)
    BY DEF StreamEnds, DInv, DirTypes, NoReading, Nil
  <1>3. req' \in Calls /\ req'.known \subseteq req'.pids
    BY <1>1, EndedIsACall DEF Stages
  <1>4. DirTypes' /\ AsRead'
    BY <1>1, <1>2, <1>3 DEF DInv, DirTypes, AsRead, TTL, Of
  <1> QED BY <1>1, <1>4, CallRests

\* The call takes the lock and reads.
LEMMA CallReadsKeeps ==
    ASSUME DInv, NEW l \in Lists, CallReads(l), req.at \in {"owner", "app", "answer", "launch"}
    PROVE  DInv'
  <1>1. UNCHANGED <<screen, rows, age, moved, scope, set, req, events>> /\ reading' = [who |-> "call", list |-> l]
    BY DEF CallReads, Reads
  <1>2. DirTypes' /\ AsRead'
    BY <1>1 DEF DInv, DirTypes, AsRead, TTL, Of
  <1> QED BY <1>1, <1>2, CallRests

\* What a look at list l makes of the call: it found nothing changed only
\* where nothing changed hands since the reading, and that was recent.
LEMMA UsesMakes ==
    ASSUME DInv, NEW l \in Lists, NEW c \in Calls, Uses(l, c), Trusted(l), ~c.late
    PROVE  /\ req' \in Calls /\ req'.at = c.at /\ req'.want = c.want /\ req'.pids = c.pids /\ req'.known = c.known
           /\ req'.touched = c.touched /\ ~req'.late
           /\ ~req'.moved => ~c.moved /\ moved[l] \cap About(c) = {}
           /\ UNCHANGED <<screen, rows, age, moved, reading, scope, set, events>>
  <1> DEFINE m == c.moved \/ moved[l] \cap About(c) # {}
             b == c.late \/ (l \notin req.fresh /\ age[l] >= TTL(l))
             fr == c.fresh \ {l}
  <1>1. m \in BOOLEAN /\ ~(c.moved \/ moved[l] \cap About(c) # {}) => ~c.moved /\ moved[l] \cap About(c) = {}
    BY DEF Calls
  <1>2. b = FALSE
    <2>1. age[l] \in Nat /\ TTL(l) \in Nat
      BY DirectoryAssumption DEF DInv, DirTypes, TTL, DirectoryAssumption
    <2> QED BY <2>1 DEF Trusted
  <1>3. req' = [c EXCEPT !.fresh = fr, !.moved = m, !.late = b] /\ fr \in SUBSET Lists
    BY DEF Uses, Calls
  <1>4. m => c.moved \/ moved[l] \cap About(c) # {}
    OBVIOUS
  <1>5. ~m => ~c.moved /\ moved[l] \cap About(c) = {}
    OBVIOUS
  <1>6. m \in BOOLEAN
    BY DEF Calls
  <1> HIDE DEF m, b, fr
  <1>7. /\ req' \in Calls /\ req'.at = c.at /\ req'.want = c.want /\ req'.pids = c.pids /\ req'.known = c.known
        /\ req'.touched = c.touched /\ req'.late = b /\ req'.moved = m
    BY <1>2, <1>3, <1>6 DEF Calls
  <1> QED BY <1>2, <1>5, <1>7 DEF Uses

LEMMA LooksOwnerKeeps == ASSUME DInv, LooksOwner PROVE DInv'
  <1> DEFINE w == req.want.window
             p == rows.owner[w]
             pids == req.pids \cup {p}
             c == [req EXCEPT !.at = "app", !.pids = pids]
  <1>0. /\ req \in Calls /\ req.at = "owner" /\ reading.who = Nil /\ Nil # "call" /\ req.want \in Wants /\ w \in Windows
        /\ RightKind /\ FoundOut /\ ~req.late /\ req.known \subseteq req.pids
    <2>1. req \in Calls /\ req.at = "owner" /\ reading.who = Nil /\ Nil # "call" /\ ~req.late /\ req.known \subseteq req.pids
      BY DEF LooksOwner, DInv, DirTypes, Nil
    <2>2. RightKind /\ FoundOut
      BY <2>1 DEF DInv, Underway, Stages
    <2>3. req.want \in Wants
      BY <2>1 DEF Calls
    <2> QED BY <2>1, <2>2, <2>3, WantKinds DEF RightKind
  <1>1. CASE Known("windows", p) /\ Uses("windows", c)
    <2>1. p \in Pids /\ Trusted("windows")
      BY <1>0, <1>1 DEF Known, DInv, DirTypes, Screens
    <2>2. /\ c \in Calls /\ c.at = "app" /\ c.pids = pids /\ c.want = req.want /\ c.known = req.known /\ c.moved = req.moved
          /\ c.late = req.late /\ c.touched = req.touched
      <3>1. pids \in SUBSET Pids /\ "app" \in Stages
        BY <1>0, <2>1 DEF Calls, Stages
      <3> HIDE DEF pids
      <3> QED BY <1>0, <3>1 DEF Calls
    <2> HIDE DEF c
    <2>3. "windows" \in Lists
      BY DEF Lists
    <2>4. /\ req' \in Calls /\ req'.at = "app" /\ req'.want = req.want /\ req'.pids = pids /\ req'.known = req.known
          /\ req'.touched = req.touched /\ ~req'.late
          /\ ~req'.moved => ~req.moved /\ moved["windows"] \cap About(c) = {}
          /\ UNCHANGED <<screen, rows, age, moved, reading, scope, set, events>>
      BY <1>0, <1>1, <2>1, <2>2, <2>3, UsesMakes
    <2>5. req.want.kind \in {"window", "page", "windows"}
      BY <1>0 DEF RightKind
    <2>6. w \in About(c)
      BY <1>0, <2>2, <2>5, WantKinds DEF About
    <2>7. RightKind'
      BY <1>0, <2>4, <2>5 DEF RightKind, Late
    <2>8. ASSUME ~req'.moved PROVE screen.owner[w] = p
      BY <1>0, <2>4, <2>6, <2>8 DEF DInv, AsRead
    <2>9. FoundOut'
      BY <1>0, <2>4, <2>5, <2>8 DEF FoundOut, Late, Allows
    <2>10. ExcludedUntouched'
      BY <1>0, <2>4 DEF DInv, ExcludedUntouched, Allows
    <2> QED BY <1>0, <2>4, <2>7, <2>9, <2>10, CallSteps
  <1>2. CASE Refused
    BY <1>0, <1>2, CallEndsKeep DEF Refused, CallGoes, Underway
  <1>3. CASE CallReads("windows")
    BY <1>0, <1>3, CallReadsKeeps DEF Lists
  <1> QED BY <1>1, <1>2, <1>3 DEF LooksOwner, WithOwner

LEMMA LooksAppKeeps == ASSUME DInv, LooksApp PROVE DInv'
  <1>0. /\ req \in Calls /\ req.at = "app" /\ reading.who = Nil /\ Nil # "call" /\ req.want \in Wants
        /\ RightKind /\ FoundOut /\ ~req.late /\ req.known \subseteq req.pids /\ req.pids \subseteq Pids
    <2>1. req \in Calls /\ req.at = "app" /\ reading.who = Nil /\ Nil # "call" /\ ~req.late /\ req.known \subseteq req.pids
      BY DEF LooksApp, DInv, DirTypes, Nil
    <2>2. RightKind /\ FoundOut
      BY <2>1 DEF DInv, Underway, Stages
    <2> QED BY <2>1, <2>2 DEF Calls
  <1>1. PICK p \in req.pids \ req.known :
           LET a == rows.runs[p]
               c == [req EXCEPT !.known = @ \cup {p}]
           IN  \/ Known("apps", a) /\ ~Allows(a) /\ Refused
               \/ Known("apps", a) /\ Allows(a) /\ c.known # c.pids /\ Uses("apps", c)
               \/ /\ Known("apps", a) /\ Allows(a) /\ c.known = c.pids
                  /\ Uses("apps", [c EXCEPT !.at = IF req.want.kind = "windows" THEN "answer" ELSE "foreground"])
               \/ Unknown("apps", a) /\ Refused
               \/ MustRead("apps", a) /\ CallReads("apps")
    BY DEF LooksApp
  <1> DEFINE a == rows.runs[p]
             known == req.known \cup {p}
             c == [req EXCEPT !.known = @ \cup {p}]
             at == IF req.want.kind = "windows" THEN "answer" ELSE "foreground"
             d == [c EXCEPT !.at = at]
  <1>2. p \in Pids /\ known \in SUBSET Pids /\ "apps" \in Lists /\ at \in Stages
    BY <1>0 DEF Lists, Stages
  <1>3. c \in Calls /\ c = [req EXCEPT !.known = known] /\ c.known = known /\ c.at = "app"
    BY <1>0, <1>2 DEF Calls
  <1>4. /\ c.pids = req.pids /\ c.want = req.want /\ c.late = req.late /\ c.touched = req.touched /\ c.moved = req.moved
    BY <1>0 DEF Calls
  <1>5. req.want.kind \in {"window", "page", "windows"} /\ (req.want.kind = "windows" => req.want.window = Nil)
    BY <1>0, WantKinds DEF RightKind
  \* The call it goes on as knows one more process, and may be done with them.
  <1>6. ASSUME NEW e \in Calls, e.at \in {"app", at}, e.known = known, e.pids = req.pids, e.want = req.want,
               e.late = req.late, e.touched = req.touched, e.moved = req.moved,
               e.at = at => known = req.pids,
               Known("apps", a), Allows(a), Uses("apps", e)
        PROVE  DInv'
    <2>1. Trusted("apps")
      BY <1>6 DEF Known
    <2>2. /\ req' \in Calls /\ req'.at = e.at /\ req'.want = req.want /\ req'.pids = req.pids /\ req'.known = known
          /\ req'.touched = req.touched /\ ~req'.late
          /\ ~req'.moved => ~req.moved /\ moved["apps"] \cap About(e) = {}
          /\ UNCHANGED <<screen, rows, age, moved, reading, scope, set, events>>
      BY <1>0, <1>2, <1>6, <2>1, UsesMakes
    <2>3. p \in About(e)
      BY <1>1, <1>2, <1>5, <1>6 DEF About
    <2>4. ~req'.moved => screen.runs[p] = a
      BY <1>2, <2>2, <2>3 DEF DInv, AsRead
    <2>5. RightKind'
      BY <1>0, <1>5, <1>6, <2>2 DEF RightKind, Late
    <2>6. FoundOut'
      BY <1>0, <1>5, <1>6, <2>2, <2>4 DEF FoundOut, Late, Allows
    <2>7. ExcludedUntouched'
      BY <1>0, <2>2 DEF DInv, ExcludedUntouched, Allows
    <2> QED BY <1>0, <1>1, <2>2, <2>5, <2>6, <2>7, CallSteps
  <1>7. CASE Known("apps", a) /\ Allows(a) /\ Uses("apps", c)
    <2>1. at # "app"
      OBVIOUS
    <2> HIDE DEF c, known, at
    <2> QED BY <1>3, <1>4, <1>6, <1>7, <2>1
  <1>8. CASE Known("apps", a) /\ Allows(a) /\ c.known = c.pids /\ Uses("apps", d)
    <2> HIDE DEF c, known, at
    <2>1. /\ d \in Calls /\ d.at = at /\ d.known = known /\ d.pids = req.pids /\ d.want = req.want
          /\ d.late = req.late /\ d.touched = req.touched /\ d.moved = req.moved
      BY <1>2, <1>3, <1>4 DEF Calls
    <2> HIDE DEF d
    <2> QED BY <1>3, <1>4, <1>6, <1>8, <2>1
  <1>9. CASE Refused
    BY <1>0, <1>9, CallEndsKeep DEF Refused, CallGoes, Underway
  <1>10. CASE CallReads("apps")
    BY <1>0, <1>2, <1>10, CallReadsKeeps
  <1> QED BY <1>1, <1>7, <1>8, <1>9, <1>10

LEMMA AnswersListKeeps == ASSUME DInv, AnswersList PROVE DInv'
  <1> DEFINE windows == req.want.kind = "windows"
             touched == IF windows THEN ShownApps \ {Nil} ELSE {}
             m == req.moved \/ \E l \in Lists : moved[l] \cap About(req) # {}
             b == req.late \/ ("apps" \notin req.fresh /\ age["apps"] >= AppsTTL)
  <1>0. /\ req \in Calls /\ req.at = "answer" /\ reading.who = Nil /\ Nil # "call" /\ ~req.late
        /\ screen \in Screens /\ rows \in Screens /\ "apps" \in Lists
    BY DEF AnswersList, DInv, DirTypes, Nil, Lists
  <1>1. ASSUME NEW l \in Lists, CallReads(l) PROVE DInv'
    BY <1>0, <1>1, CallReadsKeeps
  <1>2. CASE /\ Trusted("apps")
             /\ req' = [Ended("done") EXCEPT !.touched = touched, !.moved = m, !.late = b]
             /\ UNCHANGED <<screen, rows, age, moved, reading, scope, set, events>>
    <2>1. b = FALSE
      <3>1. age["apps"] \in Nat /\ TTL("apps") = AppsTTL /\ AppsTTL \in Nat
        BY <1>0, DirectoryAssumption DEF DInv, DirTypes, TTL, DirectoryAssumption
      <3> QED BY <1>0, <1>2, <3>1 DEF Trusted
    <2>2. m \in BOOLEAN
      BY <1>0 DEF Calls
    <2>3. touched \in SUBSET Apps
      BY <1>0 DEF ShownApps, Screens
    <2>4. windows /\ ~m => \A a \in touched : Allows(a)
      <3> SUFFICES ASSUME windows, ~m, NEW a \in ShownApps \ {Nil} PROVE Allows(a)
        OBVIOUS
      <3>1. PICK w \in Windows : /\ a = screen.runs[rows.owner[w]] /\ rows.owner[w] # Nil
                                 /\ rows.runs[rows.owner[w]] # Nil /\ Allows(rows.runs[rows.owner[w]])
        BY DEF ShownApps
      <3>2. rows.owner[w] \in Pids
        BY <1>0, <3>1 DEF Screens
      <3>3. About(req) = Pids \cup Windows
        BY DEF About
      <3>4. moved["apps"] \cap About(req) = {}
        BY <1>0
      <3>5. rows.runs[rows.owner[w]] = screen.runs[rows.owner[w]]
        BY <3>2, <3>3, <3>4 DEF DInv, AsRead
      <3> QED BY <3>1, <3>5
    <2>5. ~windows => touched = {}
      OBVIOUS
    <2> HIDE DEF m, b, touched, windows
    <2>6. /\ req' \in Calls /\ req'.at = "done" /\ req'.known = {} /\ req'.touched = touched /\ req'.moved = m /\ ~req'.late
      <3>1. Ended("done") \in Calls /\ Ended("done").at = "done" /\ Ended("done").known = {}
        BY EndedIsACall DEF Stages
      <3> QED BY <1>2, <2>1, <2>2, <2>3, <3>1 DEF Calls
    <2>7. ExcludedUntouched'
      BY <1>2, <2>4, <2>5, <2>6 DEF ExcludedUntouched, Allows
    <2> QED BY <1>0, <1>2, <2>6, <2>7, CallSteps DEF Underway
  <1> QED BY <1>1, <1>2 DEF AnswersList, Lists

LEMMA LooksLaunchKeeps == ASSUME DInv, LooksLaunch PROVE DInv'
  <1> DEFINE c == [req EXCEPT !.at = "foreground"]
             name == req.want.name
  <1>0. /\ req \in Calls /\ req.at = "launch" /\ reading.who = Nil /\ Nil # "call" /\ req.want \in Wants
        /\ RightKind /\ ~req.late /\ req.known \subseteq req.pids /\ "apps" \in Lists
    <2>1. req \in Calls /\ req.at = "launch" /\ reading.who = Nil /\ Nil # "call" /\ ~req.late /\ req.known \subseteq req.pids
      BY DEF LooksLaunch, DInv, DirTypes, Nil
    <2>2. RightKind
      BY <2>1 DEF DInv, Underway, Stages
    <2> QED BY <2>1, <2>2 DEF Calls, Lists
  <1>1. CASE Trusted("apps") /\ LaunchOk(Named(name, rows.installed)) /\ Uses("apps", c)
    <2>1. /\ c \in Calls /\ c.at = "foreground" /\ c.pids = req.pids /\ c.want = req.want /\ c.known = req.known
          /\ c.moved = req.moved /\ c.late = req.late /\ c.touched = req.touched
      BY <1>0 DEF Calls, Stages
    <2> HIDE DEF c
    <2>2. /\ req' \in Calls /\ req'.at = "foreground" /\ req'.want = req.want /\ req'.pids = req.pids /\ req'.known = req.known
          /\ req'.touched = req.touched /\ ~req'.late
          /\ ~req'.moved => ~req.moved /\ moved["apps"] \cap About(c) = {}
          /\ UNCHANGED <<screen, rows, age, moved, reading, scope, set, events>>
      BY <1>0, <1>1, <2>1, UsesMakes
    <2>3. req.want.kind = "launch" /\ req.pids = {} /\ req.known = {} /\ req.want.window = Nil /\ req.want.pid = Nil
      BY <1>0, WantKinds DEF RightKind
    <2>4. About(c) = Named(name, Apps)
      BY <2>1, <2>3 DEF About
    <2>5. ~req'.moved => Named(name, screen.installed) \subseteq Named(name, rows.installed)
      BY <2>2, <2>4 DEF Named, DInv, DirTypes, Screens, AsRead
    <2>6. RightKind'
      BY <1>0, <2>2, <2>3 DEF RightKind, Late
    <2>7. FoundOut'
      BY <1>1, <2>2, <2>3, <2>5 DEF FoundOut, LaunchOk, Allows
    <2>8. ExcludedUntouched'
      BY <1>0, <2>2 DEF DInv, ExcludedUntouched, Allows
    <2> QED BY <1>0, <2>2, <2>6, <2>7, <2>8, CallSteps
  <1>2. CASE Refused
    BY <1>0, <1>2, CallEndsKeep DEF Refused, CallGoes, Underway
  <1>3. CASE CallReads("apps")
    BY <1>0, <1>3, CallReadsKeeps
  <1> QED BY <1>1, <1>2, <1>3 DEF LooksLaunch

\* The call goes on after it was decided, or is over.
LEMMA GoesKeeps ==
    ASSUME DInv, req.at \in Late, NEW at \in {"asked", "ready", "driver", "idle", "closed"}, CallGoes(at)
    PROVE  DInv'
  <1>0. /\ req \in Calls /\ reading.who # "call" /\ ~req.late /\ req.known \subseteq req.pids /\ RightKind /\ FoundOut
        /\ UNCHANGED <<screen, rows, age, moved, reading, scope, set, events>>
    BY DEF DInv, DirTypes, Late, Underway, Stages, CallGoes
  <1>1. CASE at \in {"asked", "ready", "driver"}
    <2>1. req' = [req EXCEPT !.at = at] /\ at \in Stages
      BY <1>1 DEF CallGoes, Underway, Stages
    <2>2. /\ req' \in Calls /\ req'.at = at /\ req'.want = req.want /\ req'.pids = req.pids /\ req'.known = req.known
          /\ req'.moved = req.moved /\ req'.late = req.late /\ req'.touched = req.touched
      BY <1>0, <2>1 DEF Calls
    <2>3. RightKind' /\ FoundOut'
      BY <1>0, <1>1, <2>2 DEF RightKind, FoundOut, Late, Allows
    <2>4. ExcludedUntouched'
      BY <1>0, <2>2 DEF DInv, ExcludedUntouched, Allows
    <2> QED BY <1>0, <2>2, <2>3, <2>4, CallSteps
  <1>2. CASE at \in {"idle", "closed"}
    <2>1. req' = Ended(at)
      BY <1>2 DEF CallGoes, Underway
    <2> QED BY <1>0, <1>2, <2>1, CallEndsKeep
  <1> QED BY <1>1, <1>2

LEMMA ForwardKeeps == ASSUME DInv, Foreground \/ OwnerAnswers \/ Forwards PROVE DInv'
  <1>1. req.at \in Late /\ \E at \in {"asked", "ready", "driver", "idle", "closed"} : CallGoes(at)
    BY DEF Foreground, OwnerAnswers, Forwards, Refused, Late
  <1> QED BY <1>1, GoesKeeps

LEMMA DriverKeeps == ASSUME DInv, DriverActs PROVE DInv'
  <1>0. /\ req \in Calls /\ req.at = "driver" /\ reading.who # "call" /\ ~req.late /\ req.known \subseteq req.pids
        /\ RightKind /\ FoundOut /\ req.want \in Wants /\ req.pids \subseteq Pids /\ screen \in Screens
    <2>1. req \in Calls /\ req.at = "driver" /\ reading.who # "call" /\ ~req.late /\ req.known \subseteq req.pids /\ screen \in Screens
      BY DEF DInv, DirTypes, DriverActs
    <2>2. RightKind /\ FoundOut
      BY <2>1 DEF DInv, Underway, Stages
    <2> QED BY <2>1, <2>2 DEF Calls
  <1>1. CASE Refused
    BY <1>0, <1>1, CallEndsKeep DEF Refused, CallGoes, Underway
  <1>2. ASSUME NEW apps \in IF req.want.kind = "launch" THEN {{a} : a \in Named(req.want.name, screen.installed)} ELSE {Targets},
               req' = IF apps = {} THEN NoCall ELSE [Ended("done") EXCEPT !.touched = apps, !.moved = req.moved, !.late = req.late],
               UNCHANGED <<screen, rows, age, moved, reading, scope, set, events>>
        PROVE  DInv'
    <2>1. CASE apps = {}
      BY <1>0, <1>2, <2>1, CallEndsKeep
    <2>2. CASE apps # {}
      <3>1. apps \in SUBSET Apps
        <4>1. CASE req.want.kind = "launch"
          BY <1>0, <1>2, <4>1 DEF Named, Screens
        <4>2. CASE req.want.kind # "launch"
          <5>1. apps = Targets
            BY <1>2, <4>2
          <5>2. (req.want.pid # Nil => req.want.pid \in Pids) /\ (req.want.window # Nil => req.want.window \in Windows)
            BY <1>0, WantKinds
          <5> QED BY <1>0, <5>1, <5>2 DEF Targets, Screens
        <4> QED BY <4>1, <4>2
      <3>2. ~req.moved => \A a \in apps : Allows(a)
        <4>1. CASE req.want.kind = "launch"
          BY <1>0, <1>2, <4>1 DEF FoundOut, Late
        <4>2. CASE req.want = Nothing
          <5>1. req.want.pid = Nil /\ req.want.window = Nil /\ req.want.kind # "launch"
            BY <4>2 DEF Nothing
          <5>2. apps = Targets
            BY <1>2, <5>1
          <5>3. apps = {}
            BY <5>1, <5>2 DEF Targets
          <5> QED BY <5>3
        <4>3. CASE req.want.kind # "launch" /\ req.known = req.pids
          <5> SUFFICES ASSUME ~req.moved, NEW a \in apps PROVE Allows(a)
            OBVIOUS
          <5>1. apps = Targets
            BY <1>2, <4>3
          <5>2. PICK p : /\ a = screen.runs[p]
                         /\ (req.want.pid # Nil /\ p = req.want.pid)
                            \/ (req.want.window # Nil /\ p = screen.owner[req.want.window] /\ p # Nil)
            BY <5>1 DEF Targets
          <5>3. p \in req.pids
            BY <1>0, <5>2 DEF RightKind, FoundOut, Late
          <5> QED BY <1>0, <4>3, <5>2, <5>3 DEF FoundOut
        <4> QED BY <1>0, <4>1, <4>2, <4>3 DEF RightKind, Late
      <3>3. /\ req' \in Calls /\ req'.at = "done" /\ req'.known = {} /\ req'.touched = apps /\ req'.moved = req.moved
            /\ req'.late = req.late
        <4>1. Ended("done") \in Calls /\ Ended("done").at = "done" /\ Ended("done").known = {}
          BY EndedIsACall DEF Stages
        <4>2. req' = [Ended("done") EXCEPT !.touched = apps, !.moved = req.moved, !.late = req.late]
          BY <1>2, <2>2
        <4>3. req.moved \in BOOLEAN /\ req.late = FALSE
          BY <1>0 DEF Calls
        <4> QED BY <3>1, <4>1, <4>2, <4>3 DEF Calls
      <3>4. ExcludedUntouched'
        BY <1>0, <1>2, <3>2, <3>3 DEF ExcludedUntouched, Allows
      <3> QED BY <1>0, <1>2, <3>3, <3>4, CallSteps DEF Underway
    <2> QED BY <2>1, <2>2
  <1> QED BY <1>1, <1>2 DEF DriverActs

LEMMA DirKeeps == DInv /\ [DirectoryNext]_dirVars => DInv'
  <1>1. ASSUME DInv, UNCHANGED dirVars PROVE DInv'
    <2>1. UNCHANGED <<screen, rows, age, moved, reading, scope, set, req, events>>
      BY <1>1 DEF dirVars
    <2>2. DirTypes' /\ AsRead'
      BY <1>1, <2>1 DEF DInv, DirTypes, AsRead
    <2> QED BY <1>1, <2>1, <2>2, CallRests
  <1>2. ASSUME DInv, NEW s, s = [set EXCEPT !.ok = ~@] \/ s = [set EXCEPT !.denied = ~@]
                     \/ s = [set EXCEPT !.foreground = IF @ = "never" THEN "ask" ELSE "never"],
               OwnerSets(s)
        PROVE  DInv'
    <2>1. set \in [ok : BOOLEAN, denied : BOOLEAN, foreground : {"never", "ask"}]
      BY <1>2 DEF DInv, DirTypes
    <2>2. s \in [ok : BOOLEAN, denied : BOOLEAN, foreground : {"never", "ask"}]
      BY <1>2, <2>1
    <2> QED BY <1>2, <2>2, OwnerSetsKeep
  <1>3. ASSUME DInv, DirectoryNext PROVE DInv'
    BY <1>2, <1>3, ScreenKeeps, ListsKeep, ArrivesKeeps, LooksOwnerKeeps, LooksAppKeeps, AnswersListKeeps, LooksLaunchKeeps,
       ForwardKeeps, DriverKeeps, StreamEndsKeeps DEF DirectoryNext, CallDecides
  <1> QED BY <1>1, <1>3

LEMMA DirTyped == DInv => DirectoryTypeOK
  BY DEF DInv, DirTypes, DirectoryTypeOK, Screens, Calls

-----------------------------------------------------------------------------
(* The owner's own apps.                                                   *)

\* By what a call was let through, as DoneAsAllowed says it of what was done.
LetThrough(j) ==
    asksFor[j] \in Asked =>
        /\ leave[j] \in {"free", "session", "always", "answer"}
        /\ leave[j] = "free" => asksFor[j] # "send" /\ policy[j].mode = "auto"
        /\ asksFor[j] = "send" => leave[j] \in {"answer", "always"}
        /\ policy[j].mode = "ask" => leave[j] = "answer"
        /\ asksFor[j] = "feed" => leave[j] \in {"answer", "free"}

\* What the app remembers is what the owner let it remember: nothing about a
\* message for a session only.
MemoryIsTheOwners == wish = kept /\ kept["send"] \in {"none", "always"}

\* One call: a tool is started by a call that was let through, its one line
\* comes at its end.
CallInOrder(j) ==
    /\ tool[j] # "none" => phase[j] \in {"runs", "told", "gone"}
    /\ tool[j] = "runs" <=> phase[j] = "runs"
    /\ done[j] # "not" => tool[j] # "none"
    /\ lines[j] # {} => phase[j] = "told"
    /\ "denied" \in lines[j] => done[j] = "not" /\ tool[j] = "none"
    /\ "ok" \in lines[j] => done[j] # "not"
    /\ verdict[j] = "up" => asksFor[j] # "show"
    /\ phase[j] \in {"start", "runs"} \/ tool[j] # "none" => LetThrough(j)

OInv ==
    /\ OwnAppsTypeOK
    /\ lines \in [Jobs -> {{}, {"ok"}, {"failed"}, {"denied"}}]
    /\ IsFiniteSet(notified) /\ \A n \in notified : n[2] <= clock
    /\ MemoryIsTheOwners
    /\ \A j \in Jobs : CallInOrder(j)
    /\ MinuteIsBounded

LEMMA OwnStart == OwnAppsInit => OInv
  <1> SUFFICES ASSUME OwnAppsInit PROVE OInv
    OBVIOUS
  <1> USE OwnAppsAssumption DEF OwnAppsAssumption, OwnAppsInit
  <1>1. OwnAppsTypeOK
    <2>1. policy \in [Jobs -> [mode : {"ask", "ask_new", "auto"}, folder : BOOLEAN]]
      OBVIOUS
    <2>2. /\ onPause \in BOOLEAN /\ appsEnabled \in BOOLEAN /\ appsOn \subseteq {"messages", "others"}
          /\ appsMode \in {"ask", "ask_new", "auto"} /\ folder \in BOOLEAN /\ inside \in BOOLEAN
      OBVIOUS
    <2>3. notified \subseteq Jobs \X (0 .. Latest) /\ clock \in 0 .. Latest /\ moves \in 0 .. MaxMoves
      OBVIOUS
    <2>4. kept \in [Scopes -> {"none", "session", "always"}] /\ wish = kept
      OBVIOUS
    <2> QED BY <2>1, <2>2, <2>3, <2>4 DEF OwnAppsTypeOK
  <1>2. IsFiniteSet(notified) /\ \A n \in notified : n[2] <= clock
    BY FS_EmptySet
  <1>3. MemoryIsTheOwners
    BY DEF MemoryIsTheOwners, Scopes
  <1>4. \A j \in Jobs : CallInOrder(j)
    BY DEF CallInOrder
  <1>5. MinuteIsBounded
    BY DEF MinuteIsBounded
  <1>6. lines \in [Jobs -> {{}, {"ok"}, {"failed"}, {"denied"}}]
    OBVIOUS
  <1> QED BY <1>1, <1>2, <1>3, <1>4, <1>5, <1>6 DEF OInv

\* What a step of one call has to keep where no notification is let through.
LEMMA OwnStep ==
    ASSUME OInv, notified' = notified, clock' \in 0 .. Latest, clock' >= clock, OwnAppsTypeOK',
           lines' \in [Jobs -> {{}, {"ok"}, {"failed"}, {"denied"}}],
           MemoryIsTheOwners', \A j \in Jobs : CallInOrder(j)'
    PROVE  OInv'
  <1>1. \A n \in notified : n[2] <= clock'
    <2> SUFFICES ASSUME NEW n \in notified PROVE n[2] <= clock'
      OBVIOUS
    <2> QED BY DEF OInv, OwnAppsTypeOK
  <1>2. MinuteIsBounded'
    BY DEF OInv, MinuteIsBounded
  <1> QED BY <1>1, <1>2 DEF OInv

\* The same, of a step that looks after one call alone.
LEMMA OneCallSteps ==
    ASSUME OInv, NEW i \in Jobs, CallInOrder(i)',
           \A j \in Jobs \ {i} : /\ phase'[j] = phase[j] /\ asksFor'[j] = asksFor[j] /\ policy'[j] = policy[j]
                                 /\ verdict'[j] = verdict[j] /\ tool'[j] = tool[j] /\ done'[j] = done[j]
                                 /\ lines'[j] = lines[j] /\ leave'[j] = leave[j]
    PROVE  \A j \in Jobs : CallInOrder(j)'
  BY DEF OInv, CallInOrder, LetThrough

\* A call that has no line yet gets one.
LEMMA OneLine ==
    ASSUME OInv, NEW j \in Jobs, lines[j] = {}, NEW o \in Outcomes, Line(j, o)
    PROVE  /\ lines' \in [Jobs -> {{}, {"ok"}, {"failed"}, {"denied"}}]
           /\ lines'[j] = {o} /\ \A i \in Jobs \ {j} : lines'[i] = lines[i]
           /\ \A i \in Jobs : lines'[i] \subseteq Outcomes
  <1>1. lines' = [lines EXCEPT ![j] = {o}]
    BY DEF Line
  <1> QED BY <1>1 DEF OInv, Outcomes

Places == {"idle", "file", "decide", "window", "start", "runs", "told", "gone"}

LEMMA OneMoves ==
    ASSUME OInv, NEW j \in Jobs, NEW p \in Places, To(j, p)
    PROVE  phase' \in [Jobs -> Places] /\ phase'[j] = p /\ \A i \in Jobs \ {j} : phase'[i] = phase[i]
  <1>1. phase \in [Jobs -> Places]
    BY DEF OInv, OwnAppsTypeOK, Places
  <1> QED BY <1>1 DEF To

LEMMA OneRefused ==
    ASSUME OInv, NEW j \in Jobs, phase[j] \in {"idle", "file", "window", "start"}, RefuseCall(j)
    PROVE  /\ lines' \in [Jobs -> {{}, {"ok"}, {"failed"}, {"denied"}}]
           /\ lines'[j] = {"denied"} /\ \A i \in Jobs \ {j} : lines'[i] = lines[i] /\ phase'[i] = phase[i]
           /\ \A i \in Jobs : lines'[i] \subseteq Outcomes
           /\ phase' \in [Jobs -> Places] /\ phase'[j] = "told"
           /\ tool[j] = "none" /\ done[j] = "not"
  <1>1. lines[j] = {} /\ tool[j] = "none" /\ done[j] = "not"
    BY DEF OInv, CallInOrder
  <1>2. phase' \in [Jobs -> Places] /\ phase'[j] = "told" /\ \A i \in Jobs \ {j} : phase'[i] = phase[i]
    BY OneMoves DEF RefuseCall, Places
  <1>3. Line(j, "denied") /\ "denied" \in Outcomes
    BY DEF RefuseCall, Outcomes
  <1>4. /\ lines' \in [Jobs -> {{}, {"ok"}, {"failed"}, {"denied"}}]
        /\ lines'[j] = {"denied"} /\ \A i \in Jobs \ {j} : lines'[i] = lines[i]
        /\ \A i \in Jobs : lines'[i] \subseteq Outcomes
    BY <1>1, <1>3, OneLine
  <1> QED BY <1>1, <1>2, <1>4

LEMMA GateKeeps == ASSUME OInv, NEW j \in Jobs, Gate(j) PROVE OInv'
  <1>0. phase[j] = "idle" /\ lines[j] = {} /\ tool[j] = "none" /\ done[j] = "not"
    BY DEF OInv, CallInOrder, Gate
  <1>1. /\ lines' \in [Jobs -> {{}, {"ok"}, {"failed"}, {"denied"}}] /\ \A i \in Jobs : lines'[i] \subseteq Outcomes
        /\ \A i \in Jobs \ {j} : lines'[i] = lines[i] /\ phase'[i] = phase[i]
        /\ lines'[j] = {} \/ (lines'[j] = {"denied"} /\ phase'[j] = "told")
        /\ phase' \in [Jobs -> Places]
        /\ phase'[j] \in {"file", "decide", "told"}
    <2>1. CASE RefuseCall(j)
      BY <2>1, <1>0, OneRefused
    <2>2. CASE lines' = lines /\ \E p \in {"file", "decide"} : To(j, p)
      <3>1. PICK p \in {"file", "decide"} : To(j, p)
        BY <2>2
      <3>2. phase' \in [Jobs -> Places] /\ phase'[j] = p /\ \A i \in Jobs \ {j} : phase'[i] = phase[i]
        BY <3>1, OneMoves DEF Places
      <3>3. \A i \in Jobs : lines[i] \subseteq Outcomes
        BY DEF OInv, OwnAppsTypeOK
      <3> QED BY <3>1, <3>2, <3>3, <2>2, <1>0 DEF OInv
    <2>3. RefuseCall(j) \/ (lines' = lines /\ \E p \in {"file", "decide"} : To(j, p))
      BY DEF Gate
    <2> QED BY <2>1, <2>2, <2>3
  <1>2. /\ policy' \in [Jobs -> [mode : {"ask", "ask_new", "auto"}, folder : BOOLEAN]]
        /\ \A i \in Jobs \ {j} : policy'[i] = policy[i]
    BY DEF OInv, OwnAppsTypeOK, Gate
  <1>3. UNCHANGED <<policyVars, kept, asksFor, verdict, tool, done, notified, leave, clock, wish, moves>>
    BY DEF Gate
  <1>4. OwnAppsTypeOK'
    BY <1>1, <1>2, <1>3 DEF OInv, OwnAppsTypeOK, policyVars, Places
  <1>5. \A i \in Jobs : CallInOrder(i)'
    <2>1. CallInOrder(j)'
      BY <1>0, <1>1, <1>3 DEF OInv, CallInOrder
    <2> QED BY <2>1, <1>1, <1>2, <1>3, OneCallSteps
  <1>6. MemoryIsTheOwners'
    BY <1>3 DEF OInv, MemoryIsTheOwners
  <1>7. clock' \in 0 .. Latest /\ clock' >= clock /\ notified' = notified
    BY <1>3 DEF OInv, OwnAppsTypeOK
  <1> QED BY <1>1, <1>4, <1>5, <1>6, <1>7, OwnStep

LEMMA SameLines ==
    ASSUME OInv, lines' = lines
    PROVE  /\ lines' \in [Jobs -> {{}, {"ok"}, {"failed"}, {"denied"}}] /\ \A i \in Jobs : lines'[i] \subseteq Outcomes
  BY DEF OInv, OwnAppsTypeOK

LEMMA ResolveKeeps == ASSUME OInv, NEW j \in Jobs, Resolve(j) PROVE OInv'
  <1>0. phase[j] = "file" /\ lines[j] = {} /\ tool[j] = "none" /\ done[j] = "not"
    BY DEF OInv, CallInOrder, Resolve
  <1>1. /\ lines' \in [Jobs -> {{}, {"ok"}, {"failed"}, {"denied"}}] /\ \A i \in Jobs : lines'[i] \subseteq Outcomes
        /\ \A i \in Jobs \ {j} : lines'[i] = lines[i] /\ phase'[i] = phase[i]
        /\ lines'[j] = {} \/ (lines'[j] = {"denied"} /\ phase'[j] = "told")
        /\ phase' \in [Jobs -> Places] /\ phase'[j] \in {"decide", "told"}
    <2>1. CASE RefuseCall(j)
      BY <2>1, <1>0, OneRefused
    <2>2. CASE lines' = lines /\ To(j, "decide")
      BY <2>2, <1>0, OneMoves, SameLines DEF Places
    <2>3. RefuseCall(j) \/ (lines' = lines /\ To(j, "decide"))
      BY DEF Resolve
    <2> QED BY <2>1, <2>2, <2>3
  <1>3. UNCHANGED <<policyVars, kept, asksFor, policy, verdict, tool, done, notified, leave, clock, wish, moves>>
    BY DEF Resolve
  <1>4. OwnAppsTypeOK'
    BY <1>1, <1>3 DEF OInv, OwnAppsTypeOK, policyVars, Places
  <1>5. \A i \in Jobs : CallInOrder(i)'
    <2>1. CallInOrder(j)'
      BY <1>0, <1>1, <1>3 DEF OInv, CallInOrder
    <2> QED BY <2>1, <1>1, <1>3, OneCallSteps
  <1>6. MemoryIsTheOwners'
    BY <1>3 DEF OInv, MemoryIsTheOwners
  <1>7. clock' \in 0 .. Latest /\ clock' >= clock /\ notified' = notified
    BY <1>3 DEF OInv, OwnAppsTypeOK
  <1> QED BY <1>1, <1>4, <1>5, <1>6, <1>7, OwnStep

LEMMA NoAnswerKeeps == ASSUME OInv, NEW j \in Jobs, NoAnswer(j) PROVE OInv'
  <1>0. RefuseCall(j) /\ phase[j] = "window" /\ lines[j] = {} /\ tool[j] = "none" /\ done[j] = "not"
    BY DEF OInv, CallInOrder, NoAnswer
  <1>1. /\ lines' \in [Jobs -> {{}, {"ok"}, {"failed"}, {"denied"}}] /\ \A i \in Jobs : lines'[i] \subseteq Outcomes
        /\ \A i \in Jobs \ {j} : lines'[i] = lines[i] /\ phase'[i] = phase[i]
        /\ lines'[j] = {"denied"} /\ phase'[j] = "told" /\ phase' \in [Jobs -> Places]
    BY <1>0, OneRefused
  <1>3. UNCHANGED <<policyVars, kept, asksFor, policy, verdict, tool, done, notified, leave, clock, wish, moves>>
    BY DEF NoAnswer
  <1>4. OwnAppsTypeOK'
    BY <1>1, <1>3 DEF OInv, OwnAppsTypeOK, policyVars, Places
  <1>5. \A i \in Jobs : CallInOrder(i)'
    <2>1. CallInOrder(j)'
      BY <1>0, <1>1, <1>3 DEF OInv, CallInOrder
    <2> QED BY <2>1, <1>1, <1>3, OneCallSteps
  <1>6. MemoryIsTheOwners'
    BY <1>3 DEF OInv, MemoryIsTheOwners
  <1>7. clock' \in 0 .. Latest /\ clock' >= clock /\ notified' = notified
    BY <1>3 DEF OInv, OwnAppsTypeOK
  <1> QED BY <1>1, <1>4, <1>5, <1>6, <1>7, OwnStep

LEMMA DecideKeeps == ASSUME OInv, NEW j \in Jobs, Decide(j) PROVE OInv'
  <1> DEFINE r == asksFor[j]
             m == policy[j].mode
             s == ScopeOf(r)
  <1>0. phase[j] = "decide" /\ lines[j] = {} /\ tool[j] = "none" /\ done[j] = "not"
    BY DEF OInv, CallInOrder, Decide
  <1>1. r \in What /\ m \in {"ask", "ask_new", "auto"} /\ (r # "show" => s \in Scopes)
    BY DEF OInv, OwnAppsTypeOK, What, Asked, ScopeOf, Scopes
  <1>2. /\ \E p \in {"start", "window"} : To(j, p)
        /\ verdict' = [verdict EXCEPT ![j] = IF phase'[j] = "window" THEN "up" ELSE @]
        /\ UNCHANGED <<policyVars, kept, asksFor, policy, tool, done, lines, notified, clock, wish, moves>>
    BY DEF Decide
  <1>3. /\ phase' \in [Jobs -> Places] /\ phase'[j] \in {"start", "window"} /\ \A i \in Jobs \ {j} : phase'[i] = phase[i]
    BY <1>2, OneMoves DEF Places
  <1>4. /\ verdict' \in [Jobs -> {"none", "up", "yes", "no"}]
        /\ verdict'[j] = (IF phase'[j] = "window" THEN "up" ELSE verdict[j]) /\ \A i \in Jobs \ {j} : verdict'[i] = verdict[i]
    BY <1>2 DEF OInv, OwnAppsTypeOK
  <1>5. \/ ~Asks(r, m) /\ leave' = [leave EXCEPT ![j] = "free"] /\ To(j, "start")
        \/ Asks(r, m) /\ Remember(r, m) # {} /\ kept[s] # "none" /\ leave' = [leave EXCEPT ![j] = wish[s]] /\ To(j, "start")
        \/ Asks(r, m) /\ leave' = leave /\ To(j, "window")
    BY DEF Decide
  <1>6. wish = kept /\ kept["send"] \in {"none", "always"} /\ kept \in [Scopes -> {"none", "session", "always"}]
    BY DEF OInv, MemoryIsTheOwners, OwnAppsTypeOK
  <1>7. Asks(r, m) => r # "show"
    BY DEF Asks, Asked
  <1>8. /\ leave' \in [Jobs -> {"none", "free", "session", "always", "answer"}]
        /\ \A i \in Jobs \ {j} : leave'[i] = leave[i]
    BY <1>1, <1>5, <1>6, <1>7 DEF OInv, OwnAppsTypeOK
  <1>9. phase'[j] = "start" => LetThrough(j)'
    <2>1. CASE ~Asks(r, m) /\ leave' = [leave EXCEPT ![j] = "free"]
      <3>1. leave'[j] = "free"
        BY <2>1 DEF OInv, OwnAppsTypeOK
      <3>2. r \in Asked => r # "send" /\ m = "auto"
        BY <2>1 DEF Asks
      <3> QED BY <3>1, <3>2, <1>2 DEF LetThrough, Asked
    <2>2. CASE Asks(r, m) /\ Remember(r, m) # {} /\ kept[s] # "none" /\ leave' = [leave EXCEPT ![j] = wish[s]]
      <3>1. leave'[j] = kept[s] /\ kept[s] \in {"session", "always"}
        BY <2>2, <1>1, <1>6, <1>7 DEF OInv, OwnAppsTypeOK
      <3>2. m # "ask" /\ r # "feed"
        BY <2>2 DEF Remember
      <3>3. r = "send" => kept[s] = "always"
        BY <2>2, <1>6 DEF ScopeOf
      <3> QED BY <3>1, <3>2, <3>3, <1>2 DEF LetThrough, Asked
    <2>3. CASE To(j, "window")
      BY <2>3, OneMoves DEF Places
    <2> QED BY <1>5, <2>1, <2>2, <2>3
  <1>10. phase'[j] = "window" => r # "show"
    <2>1. CASE To(j, "start")
      BY <2>1, OneMoves DEF Places
    <2> QED BY <2>1, <1>5, <1>7
  <1>11. OwnAppsTypeOK'
    BY <1>2, <1>3, <1>4, <1>8 DEF OInv, OwnAppsTypeOK, policyVars, Places
  <1>12. \A i \in Jobs : CallInOrder(i)'
    <2>1. CallInOrder(j)'
      BY <1>0, <1>2, <1>3, <1>4, <1>9, <1>10 DEF OInv, CallInOrder
    <2> QED BY <2>1, <1>2, <1>3, <1>4, <1>8, OneCallSteps
  <1>13. MemoryIsTheOwners'
    BY <1>2 DEF OInv, MemoryIsTheOwners
  <1>14. clock' \in 0 .. Latest /\ clock' >= clock /\ notified' = notified
    BY <1>2 DEF OInv, OwnAppsTypeOK
  <1> QED BY <1>2, SameLines, <1>11, <1>12, <1>13, <1>14, OwnStep

LEMMA AnswerKeeps ==
    ASSUME OInv, NEW j \in Jobs, NEW allow \in BOOLEAN, NEW lasts \in {"once", "session", "always"}, Answer(j, allow, lasts)
    PROVE  OInv'
  <1> DEFINE r == asksFor[j]
             s == ScopeOf(r)
  <1>0. verdict[j] = "up" /\ r \in Asked /\ s \in Scopes
    BY DEF OInv, OwnAppsTypeOK, CallInOrder, Answer, What, Asked, ScopeOf, Scopes
  <1>1. UNCHANGED <<policyVars, asksFor, policy, tool, done, notified, clock, moves>>
    BY DEF Answer
  <1>2. /\ kept' \in [Scopes -> {"none", "session", "always"}] /\ MemoryIsTheOwners'
    <2>1. wish = kept /\ kept["send"] \in {"none", "always"} /\ kept \in [Scopes -> {"none", "session", "always"}]
      BY DEF OInv, MemoryIsTheOwners, OwnAppsTypeOK
    <2>2. CASE kept' = kept /\ wish' = wish
      BY <2>1, <2>2 DEF MemoryIsTheOwners
    <2>3. CASE lasts \in Remember(r, policy[j].mode) /\ kept' = [kept EXCEPT ![s] = lasts] /\ wish' = [wish EXCEPT ![s] = lasts]
      <3>1. lasts \in {"session", "always"} /\ (r = "send" => lasts = "always")
        BY <2>3 DEF Remember
      <3>2. s = "send" => r = "send"
        BY <1>0 DEF ScopeOf
      <3> QED BY <2>1, <2>3, <3>1, <3>2, <1>0 DEF MemoryIsTheOwners, Scopes
    <2> QED BY <2>2, <2>3 DEF Answer
  <1>3. /\ verdict' \in [Jobs -> {"none", "up", "yes", "no"}]
        /\ verdict'[j] # "up" /\ \A i \in Jobs \ {j} : verdict'[i] = verdict[i]
    BY DEF OInv, OwnAppsTypeOK, Answer
  <1>4. wish' = kept'
    BY <1>2 DEF MemoryIsTheOwners
  <1>5. clock' \in 0 .. Latest /\ clock' >= clock /\ notified' = notified
    BY <1>1 DEF OInv, OwnAppsTypeOK
  <1>6. CASE phase' = phase /\ lines' = lines /\ leave' = leave
    <2>1. OwnAppsTypeOK'
      BY <1>1, <1>2, <1>3, <1>4, <1>6 DEF OInv, OwnAppsTypeOK, policyVars
    <2>2. \A i \in Jobs : CallInOrder(i)'
      BY <1>1, <1>3, <1>6 DEF OInv, CallInOrder, LetThrough
    <2> QED BY SameLines, <1>2, <1>5, <1>6, <2>1, <2>2, OwnStep
  <1>7. CASE phase[j] = "window" /\ To(j, "start") /\ leave' = [leave EXCEPT ![j] = "answer"] /\ lines' = lines
    <2>1. phase' \in [Jobs -> Places] /\ phase'[j] = "start" /\ \A i \in Jobs \ {j} : phase'[i] = phase[i]
      BY <1>7, OneMoves DEF Places
    <2>2. /\ leave' \in [Jobs -> {"none", "free", "session", "always", "answer"}] /\ leave'[j] = "answer"
          /\ \A i \in Jobs \ {j} : leave'[i] = leave[i]
      BY <1>7 DEF OInv, OwnAppsTypeOK
    <2>3. OwnAppsTypeOK'
      BY <1>1, <1>2, <1>3, <1>4, <1>7, <2>1, <2>2 DEF OInv, OwnAppsTypeOK, policyVars, Places
    <2>4. lines[j] = {} /\ tool[j] = "none" /\ done[j] = "not"
      BY <1>7 DEF OInv, CallInOrder
    <2>5. LetThrough(j)'
      BY <2>2 DEF LetThrough
    <2>6. CallInOrder(j)'
      BY <1>1, <1>3, <1>7, <2>1, <2>4, <2>5 DEF CallInOrder
    <2>7. \A i \in Jobs : CallInOrder(i)'
      BY <1>1, <1>3, <1>7, <2>1, <2>2, <2>6, OneCallSteps
    <2> QED BY SameLines, <1>2, <1>5, <1>7, <2>3, <2>7, OwnStep
  <1>8. CASE phase[j] = "window" /\ RefuseCall(j) /\ leave' = leave
    <2>1. /\ lines' \in [Jobs -> {{}, {"ok"}, {"failed"}, {"denied"}}] /\ \A i \in Jobs : lines'[i] \subseteq Outcomes
          /\ \A i \in Jobs \ {j} : lines'[i] = lines[i] /\ phase'[i] = phase[i]
          /\ lines'[j] = {"denied"} /\ phase'[j] = "told" /\ phase' \in [Jobs -> Places]
          /\ tool[j] = "none" /\ done[j] = "not"
      BY <1>8, OneRefused
    <2>2. OwnAppsTypeOK'
      BY <1>1, <1>2, <1>3, <1>4, <1>8, <2>1 DEF OInv, OwnAppsTypeOK, policyVars, Places
    <2>3. CallInOrder(j)'
      BY <1>1, <1>3, <2>1 DEF CallInOrder
    <2>4. \A i \in Jobs : CallInOrder(i)'
      BY <1>1, <1>3, <1>8, <2>1, <2>3, OneCallSteps
    <2> QED BY <1>2, <1>5, <2>1, <2>2, <2>4, OwnStep
  <1> QED BY <1>6, <1>7, <1>8 DEF Answer

\* The quota holds after one more notification, where fewer than the quota
\* were let through in the minute before it.
LEMMA OneMoreInMinute ==
    ASSUME OInv, NEW j \in Jobs, notified' = notified \cup {<<j, clock>>}, Cardinality(InMinute) < PerMinute
    PROVE  /\ MinuteIsBounded'
           /\ IsFiniteSet(notified') /\ \A n \in notified' : n[2] <= clock
  <1> USE OwnAppsAssumption DEF OwnAppsAssumption
  <1> DEFINE new == <<j, clock>>
             Around(n, all) == {k \in all : n[2] <= k[2] /\ k[2] <= n[2] + Minute}
  <1>1. clock \in Nat /\ new[2] = clock /\ \A n \in notified : n[2] \in Nat /\ n[2] <= clock
    BY DEF OInv, OwnAppsTypeOK
  <1>2. IsFiniteSet(notified) /\ IsFiniteSet(notified')
    BY FS_AddElement DEF OInv
  <1>3. IsFiniteSet(InMinute) /\ InMinute \subseteq notified /\ Cardinality(InMinute) \in Nat
    BY <1>2, FS_Subset, FS_CardinalityType DEF InMinute
  <1>4. IsFiniteSet(InMinute \cup {new}) /\ Cardinality(InMinute \cup {new}) <= PerMinute
    <2>1. ASSUME NEW x PROVE IsFiniteSet(InMinute \cup {x}) /\ Cardinality(InMinute \cup {x}) <= PerMinute
      <3>1. /\ IsFiniteSet(InMinute \cup {x})
            /\ Cardinality(InMinute \cup {x}) = Cardinality(InMinute) \/ Cardinality(InMinute \cup {x}) = Cardinality(InMinute) + 1
        BY <1>3, FS_AddElement
      <3> QED BY <3>1, <1>3
    <2> QED BY <2>1
  <1>5. ASSUME NEW n \in notified' PROVE Cardinality(Around(n, notified')) <= PerMinute
    <2>1. n[2] \in Nat /\ n[2] <= clock
      BY <1>1
    <2>2. CASE clock <= n[2] + Minute
      <3>1. ASSUME NEW k \in Around(n, notified'), k # new PROVE k \in InMinute
        <4>1. k \in notified /\ n[2] <= k[2] /\ k[2] \in Nat
          BY <3>1, <1>1
        <4>2. clock - k[2] <= Minute
          BY <4>1, <2>1, <2>2, <1>1
        <4> QED BY <4>1, <4>2 DEF InMinute
      <3>2. Around(n, notified') \in SUBSET (InMinute \cup {new})
        BY <3>1
      <3>3. Cardinality(Around(n, notified')) <= Cardinality(InMinute \cup {new}) /\ Cardinality(Around(n, notified')) \in Nat
        BY <3>2, <1>4, FS_Subset, FS_CardinalityType
      <3>4. Cardinality(InMinute \cup {new}) \in Nat
        BY <1>4, FS_CardinalityType
      <3> QED BY <3>3, <3>4, <1>4
    <2>3. CASE ~(clock <= n[2] + Minute)
      <3>1. n \in notified
        BY <2>3, <1>1
      <3>2. Around(n, notified') = Around(n, notified)
        BY <2>3, <1>1
      <3>3. Cardinality(Around(n, notified)) <= PerMinute
        BY <3>1 DEF OInv, MinuteIsBounded
      <3> QED BY <3>2, <3>3
    <2> QED BY <2>2, <2>3
  <1>6. MinuteIsBounded'
    BY <1>5 DEF MinuteIsBounded
  <1> QED BY <1>1, <1>2, <1>6

LEMMA StartToolKeeps == ASSUME OInv, NEW j \in Jobs, StartTool(j) PROVE OInv'
  <1>0. phase[j] = "start" /\ lines[j] = {} /\ tool[j] = "none" /\ done[j] = "not" /\ LetThrough(j)
    BY DEF OInv, CallInOrder, StartTool
  <1>1. UNCHANGED <<policyVars, kept, asksFor, policy, verdict, done, leave, clock, wish, moves>>
    BY DEF StartTool
  <1>2. MemoryIsTheOwners'
    BY <1>1 DEF OInv, MemoryIsTheOwners
  <1>3. CASE RefuseCall(j) /\ UNCHANGED <<tool, notified>>
    <2>1. /\ lines' \in [Jobs -> {{}, {"ok"}, {"failed"}, {"denied"}}] /\ \A i \in Jobs : lines'[i] \subseteq Outcomes
          /\ \A i \in Jobs \ {j} : lines'[i] = lines[i] /\ phase'[i] = phase[i]
          /\ lines'[j] = {"denied"} /\ phase'[j] = "told" /\ phase' \in [Jobs -> Places]
      BY <1>0, <1>3, OneRefused
    <2>2. OwnAppsTypeOK'
      BY <1>1, <1>3, <2>1 DEF OInv, OwnAppsTypeOK, policyVars, Places
    <2>3. CallInOrder(j)'
      BY <1>0, <1>1, <1>3, <2>1 DEF OInv, CallInOrder
    <2>4. \A i \in Jobs : CallInOrder(i)'
      BY <1>1, <1>3, <2>1, <2>3, OneCallSteps
    <2>5. clock' \in 0 .. Latest /\ clock' >= clock
      BY <1>1 DEF OInv, OwnAppsTypeOK
    <2> QED BY <1>2, <1>3, <2>1, <2>2, <2>4, <2>5, OwnStep
  <1>4. CASE To(j, "runs") /\ tool' = [tool EXCEPT ![j] = "runs"] /\ lines' = lines
    <2>1. phase' \in [Jobs -> Places] /\ phase'[j] = "runs" /\ \A i \in Jobs \ {j} : phase'[i] = phase[i]
      BY <1>4, OneMoves DEF Places
    <2>2. tool' \in [Jobs -> {"none", "runs", "over"}] /\ tool'[j] = "runs" /\ \A i \in Jobs \ {j} : tool'[i] = tool[i]
      BY <1>4 DEF OInv, OwnAppsTypeOK
    <2>3. notified' \subseteq Jobs \X (0 .. Latest)
      BY DEF OInv, OwnAppsTypeOK, StartTool
    <2>4. OwnAppsTypeOK'
      BY <1>1, <1>4, <2>1, <2>2, <2>3 DEF OInv, OwnAppsTypeOK, policyVars, Places
    <2>5. LetThrough(j)' /\ (verdict[j] = "up" => asksFor[j] # "show")
      BY <1>0, <1>1 DEF LetThrough, OInv, CallInOrder
    <2>6. CallInOrder(j)'
      BY <1>0, <1>1, <1>4, <2>1, <2>2, <2>5 DEF CallInOrder
    <2>7. \A i \in Jobs : CallInOrder(i)'
      BY <1>1, <1>4, <2>1, <2>2, <2>6, OneCallSteps
    <2>8. IsFiniteSet(notified') /\ (\A n \in notified' : n[2] <= clock') /\ MinuteIsBounded'
      <3>1. CASE notified' = notified
        BY <1>1, <3>1 DEF OInv, MinuteIsBounded
      <3>2. CASE notified' = notified \cup {<<j, clock>>} /\ Cardinality(InMinute) < PerMinute
        BY <1>1, <3>2, OneMoreInMinute
      <3>3. IsFiniteSet(InMinute) /\ Cardinality(InMinute) \in Nat /\ PerMinute \in Nat
        <4>1. InMinute \in SUBSET notified /\ IsFiniteSet(notified)
          BY DEF OInv, InMinute
        <4> QED BY <4>1, FS_Subset, FS_CardinalityType, OwnAppsAssumption DEF OwnAppsAssumption
      <3>4. \/ notified' = notified
            \/ notified' = notified \cup {<<j, clock>>} /\ ~(Cardinality(InMinute) >= PerMinute)
        <4>1. asksFor[j] = "show" /\ Cardinality(InMinute) >= PerMinute => lines'[j] = {"denied"}
          BY <1>0, OneRefused DEF StartTool
        <4> QED BY <4>1, <1>0, <1>4 DEF StartTool
      <3> QED BY <3>1, <3>2, <3>3, <3>4
    <2> QED BY <1>2, <1>4, <2>4, <2>7, <2>8, SameLines DEF OInv
  <1> QED BY <1>3, <1>4 DEF StartTool

LEMMA WorkKeeps == ASSUME OInv, NEW j \in Jobs, Work(j) PROVE OInv'
  <1>0. tool[j] = "runs" /\ phase[j] = "runs" /\ lines[j] = {} /\ LetThrough(j) /\ (verdict[j] = "up" => asksFor[j] # "show")
    BY DEF OInv, CallInOrder, Work
  <1>1. UNCHANGED <<policyVars, kept, phase, asksFor, policy, verdict, tool, lines, notified, leave, clock, wish, moves>>
    BY DEF Work
  <1>2. /\ done' \in [Jobs -> {"not", "done", "outside"}] /\ \A i \in Jobs \ {j} : done'[i] = done[i]
    BY DEF Work, OInv, OwnAppsTypeOK
  <1>3. OwnAppsTypeOK'
    BY <1>1, <1>2 DEF OInv, OwnAppsTypeOK, policyVars
  <1>4. CallInOrder(j)'
    <2>1. LetThrough(j)'
      BY <1>0, <1>1 DEF LetThrough
    <2> QED BY <1>0, <1>1, <2>1 DEF CallInOrder
  <1>5. \A i \in Jobs : CallInOrder(i)'
    BY <1>1, <1>2, <1>4, OneCallSteps
  <1>6. clock' \in 0 .. Latest /\ clock' >= clock /\ MemoryIsTheOwners'
    BY <1>1 DEF OInv, OwnAppsTypeOK, MemoryIsTheOwners
  <1> QED BY <1>1, <1>3, <1>5, <1>6, SameLines, OwnStep

\* A call that runs is over, with one line or without, and its tool with it.
LEMMA ToolEndsKeep ==
    ASSUME OInv, NEW j \in Jobs, NEW p \in {"told", "gone"}, To(j, p), NEW t \in {"none", "over"},
           tool[j] = "none" <=> t = "none", tool' = [tool EXCEPT ![j] = t], lines[j] = {},
           UNCHANGED <<policyVars, kept, asksFor, policy, verdict, done, notified, leave, clock, wish>>, moves' \in 0 .. MaxMoves,
           \/ lines' = lines
           \/ p = "told" /\ Line(j, "failed")
           \/ p = "told" /\ Line(j, "ok") /\ done[j] # "not"
    PROVE  OInv'
  <1>1. phase' \in [Jobs -> Places] /\ phase'[j] = p /\ \A i \in Jobs \ {j} : phase'[i] = phase[i]
    BY OneMoves DEF Places
  <1>2. tool' \in [Jobs -> {"none", "runs", "over"}] /\ tool'[j] = t /\ \A i \in Jobs \ {j} : tool'[i] = tool[i]
    BY DEF OInv, OwnAppsTypeOK
  <1>3. /\ lines' \in [Jobs -> {{}, {"ok"}, {"failed"}, {"denied"}}] /\ \A i \in Jobs : lines'[i] \subseteq Outcomes
        /\ \A i \in Jobs \ {j} : lines'[i] = lines[i]
        /\ lines'[j] # {} => p = "told" /\ "denied" \notin lines'[j] /\ ("ok" \in lines'[j] => done[j] # "not")
    <2>1. CASE lines' = lines
      BY <2>1, SameLines
    <2>2. CASE p = "told" /\ Line(j, "failed")
      BY <2>2, OneLine DEF Outcomes
    <2>3. CASE p = "told" /\ Line(j, "ok") /\ done[j] # "not"
      BY <2>3, OneLine DEF Outcomes
    <2> QED BY <2>1, <2>2, <2>3
  <1>4. OwnAppsTypeOK'
    BY <1>1, <1>2, <1>3 DEF OInv, OwnAppsTypeOK, policyVars, Places
  <1>5. CallInOrder(j)'
    <2>1. tool[j] # "none" => LetThrough(j)'
      BY DEF OInv, CallInOrder, LetThrough
    <2>2. done[j] # "not" => tool[j] # "none"
      BY DEF OInv, CallInOrder
    <2>3. verdict[j] = "up" => asksFor[j] # "show"
      BY DEF OInv, CallInOrder
    <2> QED BY <1>1, <1>2, <1>3, <2>1, <2>2, <2>3 DEF CallInOrder
  <1>6. \A i \in Jobs : CallInOrder(i)'
    BY <1>1, <1>2, <1>3, <1>5, OneCallSteps
  <1>7. clock' \in 0 .. Latest /\ clock' >= clock /\ MemoryIsTheOwners'
    BY DEF OInv, OwnAppsTypeOK, MemoryIsTheOwners
  <1> QED BY <1>3, <1>4, <1>6, <1>7, OwnStep

LEMMA OverKeeps == ASSUME OInv, NEW j \in Jobs, Over(j) \/ TimeOver(j) \/ StreamGone(j) PROVE OInv'
  <1>0. /\ lines[j] = {} /\ (phase[j] = "runs" <=> tool[j] = "runs") /\ tool[j] \in {"none", "runs", "over"} /\ moves \in 0 .. MaxMoves
        /\ phase[j] \in {"file", "decide", "window", "start"} => tool[j] = "none"
    BY DEF OInv, OwnAppsTypeOK, CallInOrder, Over, TimeOver, StreamGone
  <1>1. CASE Over(j)
    <2>1. /\ phase[j] = "runs" /\ tool' = [tool EXCEPT ![j] = "over"] /\ To(j, "told")
          /\ (done[j] # "not" /\ Line(j, "ok")) \/ Line(j, "failed")
          /\ UNCHANGED <<policyVars, kept, asksFor, policy, verdict, done, notified, leave, clock, wish, moves>>
      BY <1>1 DEF Over
    <2> QED BY <1>0, <2>1, ToolEndsKeep
  <1>2. CASE TimeOver(j)
    <2>1. /\ phase[j] = "runs" /\ tool' = [tool EXCEPT ![j] = "over"] /\ To(j, "told") /\ Line(j, "failed")
          /\ UNCHANGED <<policyVars, kept, asksFor, policy, verdict, done, notified, leave, clock, wish, moves>>
      BY <1>0, <1>2 DEF TimeOver, Dropped
    <2> QED BY <1>0, <2>1, ToolEndsKeep
  <1>3. CASE StreamGone(j)
    <2> USE OwnAppsAssumption DEF OwnAppsAssumption
    <2> DEFINE t == IF tool[j] = "runs" THEN "over" ELSE tool[j]
    <2>1. /\ tool' = [tool EXCEPT ![j] = t] /\ To(j, "gone") /\ lines' = lines
          /\ UNCHANGED <<policyVars, kept, asksFor, policy, verdict, done, notified, leave, clock, wish>>
      BY <1>3 DEF StreamGone, Dropped
    <2>2. t \in {"none", "over"} /\ (tool[j] = "none" <=> t = "none")
      BY <1>0
    <2>3. moves' \in 0 .. MaxMoves
      BY <1>0, <1>3 DEF StreamGone
    <2> HIDE DEF t
    <2> QED BY <1>0, <2>1, <2>2, <2>3, ToolEndsKeep
  <1> QED BY <1>1, <1>2, <1>3

LEMMA OwnerPausesKeeps == ASSUME OInv, OwnerPauses PROVE OInv'
  <1> USE OwnAppsAssumption DEF OwnAppsAssumption
  <1>1. UNCHANGED <<appsEnabled, appsOn, appsMode, folder, inside, kept, asksFor, policy, tool, done, notified, leave, clock, wish>>
    BY DEF OwnerPauses
  <1>2. onPause' \in BOOLEAN /\ moves' \in 0 .. MaxMoves
    BY DEF OwnerPauses, Move, OInv, OwnAppsTypeOK
  <1>3. /\ phase' \in [Jobs -> Places]
        /\ \A j \in Jobs : phase'[j] = IF phase[j] = "window" THEN "told" ELSE phase[j]
    <2>1. phase \in [Jobs -> Places]
      BY DEF OInv, OwnAppsTypeOK, Places
    <2> QED BY <2>1 DEF OwnerPauses, Places
  <1>4. /\ verdict' \in [Jobs -> {"none", "up", "yes", "no"}]
        /\ \A j \in Jobs : verdict'[j] # "up"
    BY DEF OwnerPauses, OInv, OwnAppsTypeOK
  <1>5. \A j \in Jobs : phase[j] = "window" => lines[j] = {} /\ done[j] = "not" /\ tool[j] = "none"
    BY DEF OInv, CallInOrder
  <1>6. /\ lines' \in [Jobs -> {{}, {"ok"}, {"failed"}, {"denied"}}] /\ \A j \in Jobs : lines'[j] \subseteq Outcomes
        /\ \A j \in Jobs : lines'[j] = IF phase[j] = "window" THEN {"denied"} ELSE lines[j]
    <2>1. \A j \in Jobs : lines'[j] = IF phase[j] = "window" THEN {"denied"} ELSE lines[j]
      BY <1>5 DEF OwnerPauses
    <2>2. lines' = [j \in Jobs |-> lines'[j]]
      BY DEF OwnerPauses
    <2> QED BY <2>1, <2>2 DEF OInv, Outcomes
  <1>7. OwnAppsTypeOK'
    BY <1>1, <1>2, <1>3, <1>4, <1>6 DEF OInv, OwnAppsTypeOK, Places
  <1>8. ASSUME NEW j \in Jobs PROVE CallInOrder(j)'
    BY <1>1, <1>3, <1>4, <1>5, <1>6 DEF OInv, CallInOrder, LetThrough
  <1>9. clock' \in 0 .. Latest /\ clock' >= clock /\ MemoryIsTheOwners'
    BY <1>1 DEF OInv, OwnAppsTypeOK, MemoryIsTheOwners
  <1> QED BY <1>1, <1>6, <1>7, <1>8, <1>9, OwnStep

\* What moves no call and lets no notification through.
LEMMA GateRests ==
    ASSUME OInv, gateVars' = gateVars, OwnAppsTypeOK', MemoryIsTheOwners', clock' \in 0 .. Latest, clock' >= clock
    PROVE  OInv'
  <1>1. \A j \in Jobs : CallInOrder(j)'
    BY DEF OInv, CallInOrder, LetThrough, gateVars
  <1> QED BY <1>1, SameLines, OwnStep DEF gateVars

LEMMA SetsKeep == ASSUME OInv, Sets \/ FileMoves \/ Passes \/ (\E s \in Scopes : Revoke(s)) PROVE OInv'
  <1> USE OwnAppsAssumption DEF OwnAppsAssumption
  <1>1. CASE Sets
    <2>1. /\ appsEnabled' \in BOOLEAN /\ appsOn' \subseteq {"messages", "others"}
          /\ appsMode' \in {"ask", "ask_new", "auto"} /\ folder' \in BOOLEAN
      BY <1>1 DEF Sets, OInv, OwnAppsTypeOK
    <2>2. moves' \in 0 .. MaxMoves
      BY <1>1 DEF Sets, Move, OInv, OwnAppsTypeOK
    <2>3. UNCHANGED <<onPause, inside, kept, gateVars, clock, wish>>
      BY <1>1 DEF Sets
    <2>4. OwnAppsTypeOK'
      BY <2>1, <2>2, <2>3 DEF OInv, OwnAppsTypeOK, gateVars
    <2>5. clock' \in 0 .. Latest /\ clock' >= clock /\ MemoryIsTheOwners'
      BY <2>3 DEF OInv, OwnAppsTypeOK, MemoryIsTheOwners
    <2> QED BY <2>3, <2>4, <2>5, GateRests
  <1>2. CASE FileMoves
    <2>1. inside' \in BOOLEAN /\ moves' \in 0 .. MaxMoves
      BY <1>2 DEF FileMoves, Move, OInv, OwnAppsTypeOK
    <2>2. UNCHANGED <<onPause, appsEnabled, appsOn, appsMode, folder, kept, gateVars, clock, wish>>
      BY <1>2 DEF FileMoves
    <2>3. OwnAppsTypeOK'
      BY <2>1, <2>2 DEF OInv, OwnAppsTypeOK, gateVars
    <2>4. clock' \in 0 .. Latest /\ clock' >= clock /\ MemoryIsTheOwners'
      BY <2>2 DEF OInv, OwnAppsTypeOK, MemoryIsTheOwners
    <2> QED BY <2>2, <2>3, <2>4, GateRests
  <1>3. CASE Passes
    <2>1. clock' \in 0 .. Latest /\ clock' >= clock
      BY <1>3 DEF Passes, OInv, OwnAppsTypeOK
    <2>2. UNCHANGED <<policyVars, kept, gateVars, wish, moves>>
      BY <1>3 DEF Passes
    <2>3. OwnAppsTypeOK'
      BY <2>1, <2>2 DEF OInv, OwnAppsTypeOK, gateVars, policyVars
    <2> QED BY <2>1, <2>2, <2>3, GateRests DEF OInv, MemoryIsTheOwners
  <1>4. CASE \E s \in Scopes : Revoke(s)
    <2>1. PICK s \in Scopes : Revoke(s)
      BY <1>4
    <2>2. kept' \in [Scopes -> {"none", "session", "always"}] /\ MemoryIsTheOwners' /\ moves' \in 0 .. MaxMoves
      <3>1. wish = kept /\ kept \in [Scopes -> {"none", "session", "always"}] /\ kept["send"] \in {"none", "always"}
        BY DEF OInv, OwnAppsTypeOK, MemoryIsTheOwners
      <3>2. kept' = [kept EXCEPT ![s] = "none"] /\ wish' = [wish EXCEPT ![s] = "none"]
        BY <2>1 DEF Revoke
      <3>3. moves' \in 0 .. MaxMoves
        BY <2>1 DEF Revoke, Move, OInv, OwnAppsTypeOK
      <3>4. "send" \in Scopes
        BY DEF Scopes
      <3> QED BY <3>1, <3>2, <3>3, <3>4 DEF MemoryIsTheOwners
    <2>3. UNCHANGED <<policyVars, gateVars, clock>>
      BY <2>1 DEF Revoke
    <2>4. OwnAppsTypeOK'
      BY <2>2, <2>3 DEF OInv, OwnAppsTypeOK, MemoryIsTheOwners, gateVars, policyVars
    <2>5. clock' \in 0 .. Latest /\ clock' >= clock
      BY <2>3 DEF OInv, OwnAppsTypeOK
    <2> QED BY <2>2, <2>3, <2>4, <2>5, GateRests
  <1> QED BY <1>1, <1>2, <1>3, <1>4

LEMMA OwnKeeps == OInv /\ [OwnAppsNext]_ownAppsVars => OInv'
  <1>1. ASSUME OInv, UNCHANGED ownAppsVars PROVE OInv'
    <2>1. gateVars' = gateVars /\ clock' = clock /\ MemoryIsTheOwners' /\ OwnAppsTypeOK'
      BY <1>1 DEF ownAppsVars, policyVars, gateVars, OInv, MemoryIsTheOwners, OwnAppsTypeOK
    <2>2. clock' \in 0 .. Latest /\ clock' >= clock
      BY <2>1 DEF OInv, OwnAppsTypeOK
    <2> QED BY <1>1, <2>1, <2>2, GateRests
  <1>2. ASSUME OInv, OwnAppsNext PROVE OInv'
    BY <1>2, GateKeeps, ResolveKeeps, DecideKeeps, AnswerKeeps, NoAnswerKeeps, StartToolKeeps, WorkKeeps, OverKeeps,
       OwnerPausesKeeps, SetsKeep DEF OwnAppsNext
  <1> QED BY <1>1, <1>2

LEMMA OwnIsTheOwners == OInv => DoneAsAllowed /\ JournalIsTrue /\ NoToolLeftBehind /\ MinuteIsBounded
  <1> SUFFICES ASSUME OInv PROVE DoneAsAllowed /\ JournalIsTrue /\ NoToolLeftBehind /\ MinuteIsBounded
    OBVIOUS
  <1>1. DoneAsAllowed
    BY DEF OInv, CallInOrder, LetThrough, DoneAsAllowed
  <1>2. \A j \in Jobs : Cardinality(lines[j]) <= 1
    <2>1. /\ Cardinality({}) = 0 /\ Cardinality({"ok"}) = 1 /\ Cardinality({"failed"}) = 1 /\ Cardinality({"denied"}) = 1
      BY FS_EmptySet, FS_Singleton
    <2> QED BY <2>1 DEF OInv
  <1>3. JournalIsTrue
    BY <1>2 DEF OInv, CallInOrder, JournalIsTrue
  <1> QED BY <1>1, <1>3 DEF OInv, CallInOrder, NoToolLeftBehind

-----------------------------------------------------------------------------
(* The four together.                                                      *)

DriveInv ==
    kind \in {"sessions", "lease", "apps", "own"} /\ HInv /\ RInv /\ LInv /\ DInv /\ OInv

\* A part whose variables rest keeps its invariant.
LEMMA PartsRest ==
    ASSUME DriveInv
    PROVE  /\ UNCHANGED computerVars => HInv' /\ RInv'
           /\ UNCHANGED vars => LInv'
           /\ UNCHANGED dirVars => DInv'
           /\ UNCHANGED ownAppsVars => OInv'
  <1>1. UNCHANGED computerVars => HInv' /\ RInv'
    BY SessionsKeep, StopsKeep DEF DriveInv
  <1>2. UNCHANGED vars => LInv'
    BY LeaseTypes, LeaseRecent, LeaseApart DEF DriveInv, LInv
  <1>3. UNCHANGED dirVars => DInv'
    BY DirKeeps DEF DriveInv
  <1>4. UNCHANGED ownAppsVars => OInv'
    BY OwnKeeps DEF DriveInv
  <1> QED BY <1>1, <1>2, <1>3, <1>4

\* The invariant of all four holds in every state.
THEOREM DriveInvariant == DriveSpec => []DriveInv
  <1>1. DriveInit => DriveInv
    BY SessionsStart, StopsStart, LeaseInit, DirStart, OwnStart DEF DriveInit, DriveInv
  <1>2. DriveInv /\ [SessionStep \/ LeaseStep \/ DirectoryStep \/ OwnAppsStep]_<<kind, computerVars, vars, dirVars, ownAppsVars>>
          => DriveInv'
    <2> SUFFICES ASSUME DriveInv,
                        [SessionStep \/ LeaseStep \/ DirectoryStep \/ OwnAppsStep]_<<kind, computerVars, vars, dirVars, ownAppsVars>>
                 PROVE  DriveInv'
      OBVIOUS
    <2>1. CASE SessionStep
      BY <2>1, PartsRest, SessionsKeep, StopsKeep DEF SessionStep, DriveInv
    <2>2. CASE LeaseStep
      <3>1. LInv'
        BY <2>2, LeaseTypes, LeaseRecent, LeaseApart DEF LeaseStep, DriveInv, LInv
      <3> QED BY <2>2, <3>1, PartsRest DEF LeaseStep, DriveInv
    <2>3. CASE DirectoryStep
      BY <2>3, PartsRest, DirKeeps DEF DirectoryStep, DriveInv
    <2>4. CASE OwnAppsStep
      BY <2>4, PartsRest, OwnKeeps DEF OwnAppsStep, DriveInv
    <2>5. CASE UNCHANGED <<kind, computerVars, vars, dirVars, ownAppsVars>>
      BY <2>5, PartsRest DEF DriveInv
    <2> QED BY <2>1, <2>2, <2>3, <2>4, <2>5
  <1> QED BY <1>1, <1>2, PTL DEF DriveSpec

\* The daemon is the sessions': the count that keeps it alive is theirs and
\* it is not replaced under one that is open, for any sessions (core.rs, Cua).
THEOREM DaemonStaysTheSessions == DriveSpec => []DaemonIsTheSessions
  <1>1. DriveInv => DaemonIsTheSessions
    BY DirTyped DEF DriveInv, HInv, RInv, LInv, OInv, DaemonIsTheSessions, DriveTypeOK
  <1> QED BY DriveInvariant, <1>1, PTL

\* A paused daemon is not started again, a copy that runs is not taken away and a
\* session that was counted is not stopped by the installer, up to what the wait for
\* the lock lets pass, for any sessions (core.rs, pause, cua_ensure).
THEOREM StopsStayRight == DriveSpec => []StopsAreRight
  <1>1. DriveInv => StopsAreRight
    BY StopsRight DEF DriveInv
  <1> QED BY DriveInvariant, <1>1, PTL

\* The last actions of two linked synths are LEASE_QUIET apart and whoever
\* acted less than that ago holds the lease, for any streams whose calls wait
\* between lease_check and lease_take.
THEOREM TurnsKept == DriveSpec => []TurnsAreKept
  <1>1. DriveInv => TurnsAreKept
    BY DEF DriveInv, LInv, TurnsAreKept
  <1> QED BY DriveInvariant, <1>1, PTL

\* Nothing happens to an app the owner excluded but where a pid, a window or a
\* name was given away since a reading that was not too old; and in the
\* owner's own apps nothing happens that they did not let, for any apps,
\* processes, windows, calls and quota (cua_apps.rs; apps/mod.rs, handle).
THEOREM AppsStayTheOwners == DriveSpec => []AppsAreTheOwners
  <1>1. DriveInv => AppsAreTheOwners
    BY OwnIsTheOwners DEF DriveInv, DInv, AppsAreTheOwners
  <1> QED BY DriveInvariant, <1>1, PTL

=============================================================================
