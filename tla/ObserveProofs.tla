---------------------------- MODULE ObserveProofs ----------------------------
(***************************************************************************)
(* A synth holds values of its own switches alone, for any synths and any  *)
(* number of changes; and what the source `call` takes for a call is one,  *)
(* whatever the two times are (MESSENGER_CALL_SECS, MEET_MEMORY_SECS).     *)
(*                                                                         *)
(* OnlyItsOwn is not inductive: a value may be on its way, read by the     *)
(* link's task or in the queue of the writer, when its source is switched  *)
(* off or its synth unlinked.  What carries it over is that whatever is on *)
(* its way was switched on for the synth since its link came up, and that  *)
(* a link that is down has nothing on its way.                             *)
(***************************************************************************)
EXTENDS MCObserve, TLAPS

-----------------------------------------------------------------------------
(* The way of a report.                                                    *)

Reports == Values \cup {"null"}
Way == [up : BOOLEAN, offered : BOOLEAN, dirty : BOOLEAN, control : BOOLEAN,
        stage : {"idle", "read"}, full : BOOLEAN, offers : BOOLEAN,
        on : BOOLEAN, value : Values \cup {"none"}]
Told == [value : Values \cup {"none"}, paused : BOOLEAN]

\* The types, with the queues as sequences of reports.
WayType ==
    /\ link \in [Synths -> Way]
    /\ sent \in [Synths -> Values \cup {"none", "null"}]
    /\ queue \in [Synths -> Seq(Reports)]
    /\ syn \in [Synths -> Told]
RestType ==
    /\ slots \subseteq Synths /\ on \subseteq Synths /\ setting \in Synths \cup {Nobody}
    /\ excluded \in BOOLEAN /\ front \in {"none", "app", "manager"} /\ paused \in BOOLEAN
    /\ hub \in Values \cup {"none"} /\ was \in BOOLEAN
    /\ round \in [stage : {"idle", "wanted", "read"}, wanted : BOOLEAN, value : Values \cup {"none"}]
    /\ changes \in 0 .. MaxChanges /\ allowed \subseteq Synths

\* What is on its way to a synth was switched on for it since its link came
\* up, and nothing is on its way over a link that is down.
OnItsWay(s) ==
    /\ syn[s].value # "none" => s \in allowed
    /\ s \in on /\ link[s].up => s \in allowed
    /\ link[s].stage = "read" /\ link[s].on => s \in allowed
    /\ \A i \in 1 .. Len(queue[s]) : queue[s][i] # "null" => s \in allowed
    /\ ~link[s].up => queue[s] = <<>> /\ link[s].stage = "idle"

OInv == WayType /\ RestType /\ \A s \in Synths : OnItsWay(s)

LEMMA ObserveStarts == ObserveInit => OInv
  <1> SUFFICES ASSUME ObserveInit PROVE OInv
    OBVIOUS
  <1> USE ObserveAssumption DEF ObserveAssumption, ObserveInit, Values
  <1>1. NoLink \in Way /\ NoLink.stage = "idle" /\ ~NoLink.up /\ ~NoLink.on
    BY DEF NoLink, Way
  <1>2. WayType
    BY <1>1 DEF WayType, Told, Reports
  <1>3. RestType
    <2>1. round \in [stage : {"idle", "wanted", "read"}, wanted : BOOLEAN, value : Values \cup {"none"}]
      BY DEF Idle
    <2>2. changes \in 0 .. MaxChanges
      OBVIOUS
    <2> QED BY <2>1, <2>2 DEF RestType
  <1>4. ASSUME NEW s \in Synths PROVE OnItsWay(s)
    BY <1>1 DEF OnItsWay
  <1> QED BY <1>2, <1>3, <1>4 DEF OInv

\* A task of a link that is told of a change keeps everything else.
LEMMA BumpKeeps ==
    ASSUME NEW l \in [Synths -> Way]
    PROVE  /\ Bump(l) \in [Synths -> Way]
           /\ BumpControl(l) \in [Synths -> Way]
           /\ \A s \in Synths :
                /\ Bump(l)[s].up = l[s].up /\ Bump(l)[s].stage = l[s].stage /\ Bump(l)[s].on = l[s].on
                /\ BumpControl(l)[s].up = l[s].up /\ BumpControl(l)[s].stage = l[s].stage
                /\ BumpControl(l)[s].on = l[s].on
  BY DEF Bump, BumpControl, Way

\* The steps of the owner, the world and the thread: a choice is stored with
\* its history, nothing else that is on its way changes.
LEMMA OwnerStep ==
    ASSUME OInv, \/ RoundStep \/ SetStores \/ Exclude \/ FrontChanges \/ PauseOrResume
                 \/ \E s \in Synths : SetChecks(s) \/ SwitchOff(s) \/ Unlink(s) \/ PairAgain(s)
    PROVE  OInv'
  <1> USE ObserveAssumption DEF ObserveAssumption, OInv
  <1>1. ASSUME UNCHANGED ways, UNCHANGED allowed, on' \subseteq on,
               link' \in {link, Bump(link), BumpControl(link)}
        PROVE  WayType' /\ \A s \in Synths : OnItsWay(s)'
    <2>1. /\ link' \in [Synths -> Way]
          /\ \A s \in Synths : link'[s].up = link[s].up /\ link'[s].stage = link[s].stage /\ link'[s].on = link[s].on
      BY <1>1, BumpKeeps DEF WayType
    <2>2. WayType'
      BY <1>1, <2>1 DEF WayType, ways
    <2>3. \A s \in Synths : OnItsWay(s)'
      BY <1>1, <2>1 DEF OnItsWay, ways
    <2> QED BY <2>2, <2>3
  <1>2. CASE RoundBegins
    <2>1. RestType'
      BY <1>2 DEF RoundBegins, RestType, Idle, choices
    <2> QED BY <1>1, <1>2, <2>1 DEF RoundBegins, choices
  <1>3. CASE RoundReads
    <2>1. RestType'
      BY <1>3 DEF RoundReads, RestType, choices, Sampled, Values
    <2> QED BY <1>1, <1>3, <2>1 DEF RoundReads, choices
  <1>4. CASE RoundReports
    <2>1. RestType'
      BY <1>4 DEF RoundReports, RestType, choices, Idle
    <2> QED BY <1>1, <1>4, <2>1 DEF RoundReports, choices
  <1>5. CASE SetStores
    <2>1. RestType'
      BY <1>5 DEF SetStores, RestType, thread
    <2>2. /\ link' \in [Synths -> Way]
          /\ \A s \in Synths : link'[s].up = link[s].up /\ link'[s].stage = link[s].stage /\ link'[s].on = link[s].on
      BY <1>5, BumpKeeps DEF SetStores, WayType
    <2>3. WayType'
      BY <1>5, <2>2 DEF SetStores, WayType, ways
    <2>4. \A s \in Synths : OnItsWay(s)'
      BY <1>5, <2>2 DEF SetStores, OnItsWay, ways
    <2> QED BY <2>1, <2>3, <2>4
  <1>6. CASE Exclude \/ FrontChanges \/ PauseOrResume
    <2>1. ASSUME Exclude PROVE RestType'
      BY <2>1 DEF Exclude, Counted, RestType, thread
    <2>2. ASSUME FrontChanges PROVE RestType'
      BY <2>2 DEF FrontChanges, Counted, RestType, thread
    <2>3. ASSUME PauseOrResume PROVE RestType'
      BY <2>3 DEF PauseOrResume, Counted, RestType, thread
    <2>4. RestType'
      BY <1>6, <2>1, <2>2, <2>3
    <2> QED BY <1>1, <1>6, <2>4 DEF Exclude, FrontChanges, PauseOrResume
  <1>7. ASSUME NEW s \in Synths, SetChecks(s) \/ SwitchOff(s) \/ Unlink(s) \/ PairAgain(s) PROVE OInv'
    <2>1. RestType'
      BY <1>7 DEF SetChecks, SwitchOff, Unlink, Unlinks, PairAgain, Counted, RestType, thread
    <2> QED BY <1>1, <1>7, <2>1 DEF SetChecks, SwitchOff, Unlink, Unlinks, PairAgain
  <1> QED BY <1>2, <1>3, <1>4, <1>5, <1>6, <1>7 DEF RoundStep

\* The steps of one link disturb no other, and keep the types of the rest.
LEMMA LinkStep ==
    ASSUME OInv, NEW s \in Synths, LinkUp(s) \/ LinkDown(s) \/ Refresh(s) \/ LinkTask(s) \/ Writes(s)
    PROVE  OInv'
  <1> USE DEF OInv
  <1>0. NoLink \in Way /\ NoLink.stage = "idle" /\ ~NoLink.up /\ ~NoLink.on
    BY DEF NoLink, Way, Values
  <1> DEFINE Others == \A t \in Synths \ {s} :
                         /\ queue'[t] = queue[t] /\ syn'[t] = syn[t] /\ link'[t].up = link[t].up
                         /\ link'[t].stage = link[t].stage /\ link'[t].on = link[t].on
                         /\ (t \in allowed' <=> t \in allowed)
  <1>1. ASSUME WayType', RestType', Others, OnItsWay(s)', UNCHANGED on PROVE OInv'
    <2>1. ASSUME NEW t \in Synths \ {s} PROVE OnItsWay(t)'
      BY <1>1, <2>1 DEF OnItsWay
    <2> QED BY <1>1, <2>1
  <1>2. CASE LinkUp(s)
    <2>1. /\ link' = [link EXCEPT ![s] = [NoLink EXCEPT !.up = TRUE, !.control = TRUE]]
          /\ queue' = queue /\ queue[s] = <<>>
      BY <1>2 DEF LinkUp, OnItsWay
    <2>2. link'[s] \in Way /\ link'[s].up /\ link'[s].stage = "idle" /\ ~link'[s].on
      BY <2>1 DEF WayType, NoLink, Way, Values
    <2>3a. link' \in [Synths -> Way] /\ sent' \in [Synths -> Values \cup {"none", "null"}]
      BY <1>2, <2>1, <2>2 DEF LinkUp, WayType, Told
    <2>3b. queue' \in [Synths -> Seq(Reports)]
      BY <1>2, <2>1, <2>2 DEF LinkUp, WayType, Told
    <2>3c. syn' \in [Synths -> Told]
      BY <1>2, <2>1, <2>2 DEF LinkUp, WayType, Told
    <2>3d. Others
      BY <1>2, <2>1, <2>2 DEF LinkUp, WayType, Told
    <2>3. WayType' /\ Others
      BY <2>3a, <2>3b, <2>3c, <2>3d DEF WayType
    <2>4. OnItsWay(s)'
      BY <1>2, <2>1, <2>2 DEF LinkUp, OnItsWay, WayType, RestType, choices
    <2>5. RestType' /\ UNCHANGED on
      BY <1>2 DEF LinkUp, RestType, choices, thread
    <2> QED BY <1>1, <2>3, <2>4, <2>5
  <1>3. CASE LinkDown(s)
    <2>1a. link' \in [Synths -> Way] /\ sent' \in [Synths -> Values \cup {"none", "null"}]
      BY <1>0, <1>3 DEF LinkDown, WayType, Told
    <2>1b. queue' \in [Synths -> Seq(Reports)]
      BY <1>0, <1>3 DEF LinkDown, WayType, Told
    <2>1c. syn' \in [Synths -> Told]
      BY <1>0, <1>3 DEF LinkDown, WayType, Told
    <2>1d. Others
      BY <1>0, <1>3 DEF LinkDown, WayType, Told
    <2>1. WayType' /\ Others
      BY <2>1a, <2>1b, <2>1c, <2>1d DEF WayType
    <2>2. OnItsWay(s)'
      BY <1>0, <1>3 DEF LinkDown, OnItsWay, WayType, Told
    <2>3. RestType' /\ UNCHANGED on
      BY <1>3, ObserveAssumption DEF ObserveAssumption, LinkDown, RestType, Counted, thread
    <2> QED BY <1>1, <2>1, <2>2, <2>3
  <1>4. CASE Refresh(s)
    <2> DEFINE l == [link EXCEPT ![s].offered = ~@]
    <2>1. /\ l \in [Synths -> Way]
          /\ \A t \in Synths : l[t].up = link[t].up /\ l[t].stage = link[t].stage /\ l[t].on = link[t].on
      <3>1. link[s] \in Way /\ (~link[s].offered) \in BOOLEAN
        BY DEF WayType
      <3>2. [link[s] EXCEPT !.offered = ~@] \in Way
        BY <3>1 DEF Way
      <3>3. l = [link EXCEPT ![s] = [link[s] EXCEPT !.offered = ~@]]
        BY DEF WayType
      <3> QED BY <3>1, <3>2, <3>3 DEF WayType, Way
    <2>2. link' = Bump(l)
      BY <1>4 DEF Refresh
    <2>3. /\ link' \in [Synths -> Way]
          /\ \A t \in Synths : link'[t].up = link[t].up /\ link'[t].stage = link[t].stage /\ link'[t].on = link[t].on
      <3> HIDE DEF l
      <3> QED BY <2>1, <2>2, BumpKeeps
    <2>4a. link' \in [Synths -> Way] /\ sent' \in [Synths -> Values \cup {"none", "null"}]
      BY <1>4, <2>3 DEF Refresh, WayType, Told
    <2>4b. queue' \in [Synths -> Seq(Reports)]
      BY <1>4, <2>3 DEF Refresh, WayType, Told
    <2>4c. syn' \in [Synths -> Told]
      BY ZenonT(60), <1>4, <2>3 DEF Refresh, WayType, Told
    <2>4d. Others
      BY <1>4, <2>3 DEF Refresh, WayType, Told
    <2>4. WayType' /\ Others
      BY <2>4a, <2>4b, <2>4c, <2>4d DEF WayType
    <2>5. OnItsWay(s)'
      <3>1. syn'[s].value # "none" => syn[s].value # "none"
        BY <1>4 DEF Refresh, WayType, Told
      <3> QED BY ZenonT(60), <1>4, <2>3, <3>1 DEF Refresh, OnItsWay
    <2>6. RestType' /\ UNCHANGED on
      BY <1>4, ObserveAssumption DEF ObserveAssumption, Refresh, RestType, Counted, thread
    <2> QED BY <1>1, <2>4, <2>5, <2>6
  <1>5. CASE OnChange(s) \/ OnControl(s) \/ OnMinute(s)
    <2>1. PICK l \in Way, full \in BOOLEAN : FlushReads(s, l, full) /\ l.up /\ link[s].up
      <3>1. [link[s] EXCEPT !.dirty = FALSE] \in Way /\ [link[s] EXCEPT !.control = FALSE] \in Way /\ link[s] \in Way
        BY ZenonT(60) DEF WayType, Way
      <3> QED BY <1>5, <3>1 DEF OnChange, OnControl, OnMinute, RepeatIsFull, FlushReads, Way
    <2> DEFINE x == [l EXCEPT !.stage = "read", !.full = full, !.offers = l.offered, !.on = (s \in on), !.value = hub]
    <2>a. x \in Way
      <3>1. ASSUME NEW b \in BOOLEAN, NEW v \in Values \cup {"none"}
            PROVE  [l EXCEPT !.stage = "read", !.full = full, !.offers = l.offered, !.on = b, !.value = v] \in Way
        BY DEF Way
      <3>2. (s \in on) \in BOOLEAN /\ hub \in Values \cup {"none"}
        BY DEF RestType
      <3> QED BY <3>1, <3>2
    <2>c. x.up = l.up /\ x.on = (s \in on)
      BY <2>1 DEF Way
    <2>b. link' = [link EXCEPT ![s] = x]
      BY <2>1 DEF FlushReads
    <2>2. /\ link'[s] \in Way /\ link'[s].up /\ link'[s].on = (s \in on)
          /\ \A t \in Synths \ {s} : link'[t] = link[t]
          /\ link' \in [Synths -> Way]
      <3> HIDE DEF x
      <3> QED BY <2>1, <2>a, <2>b, <2>c DEF WayType
    <2>3a. link' \in [Synths -> Way] /\ sent' \in [Synths -> Values \cup {"none", "null"}]
      BY <2>1, <2>2 DEF FlushReads, WayType, ways
    <2>3b. queue' \in [Synths -> Seq(Reports)]
      BY <2>1, <2>2 DEF FlushReads, WayType, ways
    <2>3c. syn' \in [Synths -> Told]
      BY <2>1, <2>2 DEF FlushReads, WayType, ways
    <2>3d. Others
      BY <2>1, <2>2 DEF FlushReads, WayType, ways
    <2>3. WayType' /\ Others
      BY <2>3a, <2>3b, <2>3c, <2>3d DEF WayType
    <2>4. OnItsWay(s)'
      BY <2>1, <2>2 DEF FlushReads, OnItsWay, ways, choices
    <2>5. RestType' /\ UNCHANGED on
      BY <2>1 DEF FlushReads, RestType, choices, thread
    <2> QED BY <1>1, <2>3, <2>4, <2>5
  <1>6. CASE FlushSends(s)
    <2>1. /\ link'[s] \in Way /\ link'[s].up = link[s].up /\ link'[s].stage = "idle"
          /\ \A t \in Synths \ {s} : link'[t] = link[t]
          /\ link' \in [Synths -> Way] /\ link[s].up
      <3> DEFINE x == [link[s] EXCEPT !.stage = "idle"]
      <3>1. link[s] \in Way /\ x \in Way /\ x.up = link[s].up /\ x.stage = "idle"
        BY ZenonT(60) DEF WayType, Way
      <3>2. link' = [link EXCEPT ![s] = x] /\ link[s].up
        BY <1>6 DEF FlushSends, OnItsWay
      <3> HIDE DEF x
      <3> QED BY <3>1, <3>2 DEF WayType
    <2>2. \/ UNCHANGED queue /\ sent' \in {sent, [sent EXCEPT ![s] = "none"]}
          \/ \E report \in Reports : /\ queue' = [queue EXCEPT ![s] = Append(@, report)]
                                     /\ sent' = [sent EXCEPT ![s] = report]
                                     /\ report # "null" => link[s].on
      <3>1. Current(s) \in Values \cup {"none"} /\ (Current(s) # "none" => link[s].on)
        BY DEF Current, WayType, Way
      <3> QED BY <1>6, <3>1 DEF FlushSends, Clears, Reports
    <2>3a. link' \in [Synths -> Way] /\ sent' \in [Synths -> Values \cup {"none", "null"}]
      BY <2>1, <2>2 DEF WayType, Reports
    <2>3b. queue' \in [Synths -> Seq(Reports)]
      <3>1. \A report \in Reports : Append(queue[s], report) \in Seq(Reports)
        BY DEF WayType
      <3> QED BY <2>2, <3>1 DEF WayType
    <2>3c. syn' \in [Synths -> Told]
      BY <1>6, <2>1, <2>2 DEF FlushSends, WayType, Reports
    <2>3d. Others
      BY <1>6, <2>1, <2>2 DEF FlushSends, WayType, Reports
    <2>3. WayType' /\ Others
      BY <2>3a, <2>3b, <2>3c, <2>3d DEF WayType
    <2>4. OnItsWay(s)'
      <3>1. s \in allowed' <=> s \in allowed
        BY <1>6 DEF FlushSends
      <3>2. CASE UNCHANGED queue
        BY <1>6, <2>1, <3>1, <3>2 DEF FlushSends, OnItsWay, choices
      <3>3. ASSUME NEW report \in Reports, queue' = [queue EXCEPT ![s] = Append(@, report)], report # "null" => link[s].on
            PROVE  \A i \in 1 .. Len(queue'[s]) : queue'[s][i] # "null" => s \in allowed
        <4>1. queue[s] \in Seq(Reports) /\ queue'[s] = Append(queue[s], report)
          BY <3>3 DEF WayType
        <4>2. ASSUME NEW i \in 1 .. Len(queue'[s]), queue'[s][i] # "null" PROVE s \in allowed
          BY <1>6, <3>3, <4>1, <4>2 DEF FlushSends, OnItsWay
        <4> QED BY <4>2
      <3> QED BY <1>6, <2>1, <2>2, <3>1, <3>2, <3>3 DEF FlushSends, OnItsWay, choices
    <2>5. RestType' /\ UNCHANGED on
      BY <1>6 DEF FlushSends, RestType, choices, thread
    <2> QED BY <1>1, <2>3, <2>4, <2>5
  <1>7. CASE WritesReport(s)
    <2>1. /\ queue[s] \in Seq(Reports) /\ queue[s] # <<>> /\ queue'[s] = Tail(queue[s])
          /\ link[s].up /\ link' = link /\ sent' = sent /\ allowed' = allowed
          /\ \A t \in Synths \ {s} : queue'[t] = queue[t]
          /\ queue' = [t \in Synths |-> queue'[t]]
      BY <1>7 DEF WritesReport, WayType
    <2>2. Head(queue[s]) \in Reports /\ (Head(queue[s]) # "null" => s \in allowed)
      BY <2>1 DEF OnItsWay
    <2>3. \/ syn' = syn
          \/ \E v \in Values \cup {"none"} : syn' = [syn EXCEPT ![s].value = v] /\ (v # "none" => s \in allowed)
      BY <1>7, <2>2 DEF WritesReport, Reports
    <2>4a. link' \in [Synths -> Way] /\ sent' \in [Synths -> Values \cup {"none", "null"}]
      BY <2>1, <2>3 DEF WayType, Told
    <2>4b. queue' \in [Synths -> Seq(Reports)]
      <3>1. Tail(queue[s]) \in Seq(Reports)
        BY <2>1
      <3> QED BY <1>7, <3>1 DEF WritesReport, WayType
    <2>4c. syn' \in [Synths -> Told]
      BY ZenonT(60), <2>1, <2>3 DEF WayType, Told
    <2>4d. Others
      BY <2>1, <2>3 DEF WayType, Told
    <2>4. WayType' /\ Others
      BY <2>4a, <2>4b, <2>4c, <2>4d DEF WayType
    <2>5. OnItsWay(s)'
      <3>1. syn'[s].value # "none" => s \in allowed
        BY <2>3 DEF WayType, Told, OnItsWay
      <3>2. \A i \in 1 .. Len(queue'[s]) : queue'[s][i] # "null" => s \in allowed
        BY <2>1 DEF OnItsWay
      <3> QED BY <1>7, <2>1, <3>1, <3>2 DEF WritesReport, OnItsWay, choices
    <2>6. RestType' /\ UNCHANGED on
      BY <1>7 DEF WritesReport, RestType, choices, thread
    <2> QED BY <1>1, <2>4, <2>5, <2>6
  <1>8. CASE WritesPresence(s)
    <2> DEFINE v == IF paused THEN "none" ELSE syn[s].value
    <2>0. syn[s] \in Told /\ v \in Values \cup {"none"} /\ (v # "none" => syn[s].value # "none")
      BY DEF WayType, Told
    <2>1. /\ syn' = [syn EXCEPT ![s] = [value |-> v, paused |-> paused]]
          /\ [value |-> v, paused |-> paused] \in Told
      BY <1>8, <2>0 DEF WritesPresence, WayType, RestType, Told
    <2>2a. link' \in [Synths -> Way] /\ sent' \in [Synths -> Values \cup {"none", "null"}]
      BY <1>8, <2>1 DEF WritesPresence, WayType
    <2>2b. queue' \in [Synths -> Seq(Reports)]
      BY <1>8, <2>1 DEF WritesPresence, WayType
    <2>2c. syn' \in [Synths -> Told]
      BY <1>8, <2>1 DEF WritesPresence, WayType
    <2>2d. Others
      BY <1>8, <2>1 DEF WritesPresence, WayType
    <2>2. WayType' /\ Others
      BY <2>2a, <2>2b, <2>2c, <2>2d DEF WayType
    <2>3. OnItsWay(s)'
      BY <1>8, <2>1 DEF WritesPresence, OnItsWay, choices
    <2>4. RestType' /\ UNCHANGED on
      BY <1>8 DEF WritesPresence, RestType, choices, thread
    <2> QED BY <1>1, <2>2, <2>3, <2>4
  <1> QED BY <1>2, <1>3, <1>4, <1>5, <1>6, <1>7, <1>8 DEF LinkTask, Writes

LEMMA ObserveKeeps == ASSUME OInv, [ObserveNext]_obsVars PROVE OInv'
  <1>1. CASE UNCHANGED obsVars
    BY <1>1 DEF OInv, obsVars, WayType, RestType, OnItsWay
  <1> QED BY <1>1, OwnerStep, LinkStep DEF ObserveNext

-----------------------------------------------------------------------------
(* The source `call`.                                                      *)

\* A microphone that is taken for an app's has really been its own for that
\* long, unless a pause was in between; a call is the microphone's, and began
\* with somebody on it.
MicIsReal ==
    /\ call.app \in {"none", mic.app}
    /\ gap => mic.app # "none"
    /\ mic.app \in Messengers /\ ~gap => held[mic.app] >= mic.age
    /\ mic.app # "none" /\ ~gap => busy >= mic.age

CInv == CallsTypeOK /\ MicIsReal /\ CallIsOne

LEMMA OlderIsAge ==
    ASSUME NEW n \in -1 .. Old
    PROVE  Older(n) \in 0 .. Old /\ (\A k \in 0 .. Old : n >= k => Older(n) >= Older(k))
  BY CallsAssumption DEF CallsAssumption, Older

\* The first call app of a list is one that records.
LEMMA FirstRecords ==
    ASSUME NEW list \in Recorders
    PROVE  /\ FirstCallApp(list) \in CallApps \cup {"none"}
           /\ FirstCallApp(list) # "none" => list # <<>> /\ \E i \in DOMAIN list : list[i] = FirstCallApp(list)
  <1> DEFINE calls == {i \in DOMAIN list : CallAppOf(list[i]) # "none"}
             least == CHOOSE i \in calls : \A j \in calls : i <= j
  <1>1. PICK n \in 0 .. 2 : list \in [1 .. n -> Kinds]
    BY DEF Recorders
  <1>2. CASE calls = {}
    BY <1>2 DEF FirstCallApp
  <1>3. CASE calls # {}
    <2>1. calls \subseteq 1 .. 2
      BY <1>1
    <2>2. \E i \in calls : \A j \in calls : i <= j
      <3>1. CASE 1 \in calls
        BY <2>1, <3>1
      <3>2. CASE 1 \notin calls
        BY <1>3, <2>1, <3>2
      <3> QED BY <3>1, <3>2
    <2>3. least \in calls
      BY <2>2
    <2>4. FirstCallApp(list) = CallAppOf(list[least])
      BY <1>3 DEF FirstCallApp
    <2>5. list[least] \in Kinds /\ CallAppOf(list[least]) = list[least]
      BY <1>1, <2>3 DEF CallAppOf, Kinds
    <2>6. list # <<>>
      BY <2>3
    <2> QED BY <2>3, <2>4, <2>5, <2>6 DEF Kinds, CallApps, CallAppOf
  <1> QED BY <1>2, <1>3

\* Who is taken for the one on the microphone is on it.
LEMMA DecidedIsOnMic ==
    ASSUME NEW s \in Samples, NEW meet \in BOOLEAN, NEW app, app = DecideCall(s, meet)
    PROVE  /\ app \in CallApps \cup {"none"}
           /\ app # "none" => MicBusy(s)
           /\ app \in Messengers => OnMic(s, app)
  <1>1. s.running \in {"none", "telegram"} /\ s.recorders \in Recorders
    <2>1. <<>> \in Recorders
      <3>1. <<>> \in [1 .. 0 -> Kinds] /\ Len(<<>>) < 2
        OBVIOUS
      <3> QED BY <3>1 DEF Recorders
    <2> QED BY <2>1 DEF Samples, Known, Unknown
  <1>2. CASE ~MicBusy(s)
    BY <1>2 DEF DecideCall, Messengers, CallApps
  <1>3. CASE MicBusy(s) /\ ~s.known
    BY <1>1, <1>3 DEF DecideCall, OnMic, CallApps
  <1>4. CASE MicBusy(s) /\ s.known
    BY <1>1, <1>4, FirstRecords DEF DecideCall, OnMic, CallApps, Messengers, RecordsVoiceMessages
  <1> QED BY <1>2, <1>3, <1>4

\* What nothing is known of: no microphone, no call.
LEMMA NothingIsSound ==
    ASSUME mic = None, call = None, held = [a \in Messengers |-> -1], gap = FALSE, busy = -1,
           browserOnly = FALSE, wantsCall \in BOOLEAN, meetAge \in Ages
    PROVE  CInv
  <1>1. mic.app = "none" /\ call.app = "none" /\ mic.app \notin Messengers
    BY DEF None, Messengers, CallApps
  <1>2. MicIsReal /\ CallIsOne
    BY <1>1 DEF MicIsReal, CallIsOne, MessageIsNoCall, BeganWithTheMic
  <1>3. None \in [app : CallApps \cup {"none"}, age : Ages] /\ -1 \in -1 .. Old
    BY CallsAssumption DEF CallsAssumption, None, Ages
  <1>4. CallsTypeOK
    BY <1>3 DEF CallsTypeOK
  <1> QED BY <1>2, <1>4 DEF CInv

LEMMA CallsStart == CallsInit => CInv
  <1> SUFFICES ASSUME CallsInit PROVE CInv
    OBVIOUS
  <1>1. meetAge \in Ages
    BY CallsAssumption DEF CallsAssumption, CallsInit, Ages
  <1>2. /\ mic = None /\ call = None /\ held = [a \in Messengers |-> -1] /\ gap = FALSE /\ busy = -1
        /\ browserOnly = FALSE /\ wantsCall \in BOOLEAN
    BY DEF CallsInit
  <1> HIDE DEF CallsInit
  <1> QED BY ONLY <1>1, <1>2, NothingIsSound

LEMMA RoundKeeps == ASSUME CInv, Round PROVE CInv'
  <1> USE DEF CInv
  <1>1. PICK s \in Samples, window \in BOOLEAN :
          /\ meetAge' = SeenAges(window)
          /\ mic' = MicNow(DecideCall(s, IsMeet(window)))
          /\ call' = CallNow(mic', s)
          /\ busy' = Longer(busy, MicBusy(s))
          /\ held' = [a \in Messengers |-> Longer(held[a], OnMic(s, a))]
          /\ gap' = (gap /\ mic'.app # "none")
          /\ browserOnly' \in BOOLEAN
    BY DEF Round
  <1> DEFINE app == DecideCall(s, IsMeet(window))
  <1>2. /\ mic.app \in CallApps \cup {"none"} /\ mic.age \in 0 .. Old
        /\ call.app \in CallApps \cup {"none"} /\ call.age \in 0 .. Old
        /\ busy \in -1 .. Old /\ meetAge \in 0 .. Old /\ 0 \in 0 .. Old /\ Old \in Nat
        /\ \A a \in Messengers : held[a] \in -1 .. Old
    BY CallsAssumption DEF CallsAssumption, CallsTypeOK, Ages
  <1>3. /\ app \in CallApps \cup {"none"}
        /\ app # "none" => MicBusy(s)
        /\ app \in Messengers => OnMic(s, app)
    <2>1. IsMeet(window) \in BOOLEAN
      BY DEF IsMeet
    <2> QED BY <2>1, DecidedIsOnMic
  <1>4. \A n \in -1 .. Old : Older(n) \in 0 .. Old /\ \A k \in 0 .. Old : n >= k => Older(n) >= Older(k)
    BY OlderIsAge
  <1>5. /\ mic'.app = app /\ mic'.age \in 0 .. Old /\ mic' \in [app : CallApps \cup {"none"}, age : Ages]
        /\ mic'.age \in {0, Older(mic.age)}
        /\ mic'.age # 0 => mic.app = app /\ mic'.age = Older(mic.age)
    <2> HIDE DEF app
    <2>1. mic' = MicNow(app)
      BY <1>1 DEF app
    <2> QED BY <1>2, <1>3, <1>4, <2>1 DEF MicNow, None, Ages
  <1>6. /\ call' \in [app : CallApps \cup {"none"}, age : Ages]
        /\ call'.app \in {"none", app}
        /\ call'.app # "none" => /\ Confirmed(mic', s)
                                /\ call'.age = IF call.app # "none" THEN Older(call.age) ELSE mic'.age
    <2> HIDE DEF app
    <2> QED BY <1>1, <1>2, <1>3, <1>4, <1>5 DEF CallNow, None, Ages, Confirmed
  <1>7. /\ busy' \in -1 .. Old /\ held' \in [Messengers -> -1 .. Old]
        /\ MicBusy(s) => busy' = Older(busy)
        /\ \A a \in Messengers : OnMic(s, a) => held'[a] = Older(held[a])
    BY <1>1, <1>2, <1>4 DEF Longer
  <1>8. meetAge' \in Ages /\ wantsCall' = wantsCall
    BY <1>1, <1>2, <1>4 DEF Round, SeenAges, Ages
  <1> HIDE DEF app
  <1>9. CallsTypeOK'
    BY <1>1, <1>5, <1>6, <1>7, <1>8 DEF CallsTypeOK
  <1>10. MicIsReal'
    <2>1. call'.app \in {"none", mic'.app} /\ (gap' => mic'.app # "none")
      BY <1>1, <1>5, <1>6
    <2>2. ASSUME mic'.app \in Messengers, ~gap' PROVE held'[mic'.app] >= mic'.age
      <3>1. ~gap /\ held'[app] = Older(held[app]) /\ held[app] \in -1 .. Old /\ app \in Messengers
        BY <1>1, <1>2, <1>3, <1>5, <1>7, <2>2 DEF Messengers, CallApps
      <3>2. CASE mic'.age = 0
        BY <1>4, <1>5, <3>1, <3>2
      <3>3. CASE mic'.age # 0
        <4>1. held[app] >= mic.age
          BY <1>5, <3>1, <3>3 DEF MicIsReal
        <4> QED BY <1>2, <1>4, <1>5, <3>1, <3>3, <4>1
      <3> QED BY <3>2, <3>3
    <2>3. ASSUME mic'.app # "none", ~gap' PROVE busy' >= mic'.age
      <3>1. ~gap /\ busy' = Older(busy)
        BY <1>1, <1>3, <1>5, <1>7, <2>3
      <3>2. CASE mic'.age = 0
        BY <1>2, <1>4, <3>1, <3>2
      <3>3. CASE mic'.age # 0
        <4>1. busy >= mic.age
          BY <1>3, <1>5, <2>3, <3>1, <3>3 DEF MicIsReal
        <4> QED BY <1>2, <1>4, <1>5, <3>1, <3>3, <4>1
      <3> QED BY <3>2, <3>3
    <2> QED BY <2>1, <2>2, <2>3 DEF MicIsReal
  <1>11. MessageIsNoCall'
    <2>1. SUFFICES ASSUME call'.app # "none", RecordsVoiceMessages(call'.app), ~gap'
                   PROVE  mic'.app = call'.app /\ held'[call'.app] >= Confirm
      BY DEF MessageIsNoCall
    <2>2. mic'.app = call'.app /\ mic'.age >= Confirm /\ call'.app \in Messengers
      BY <1>3, <1>5, <1>6, <2>1 DEF Confirmed, Messengers
    <2>3. held'[mic'.app] >= mic'.age /\ held'[mic'.app] \in -1 .. Old
      BY <1>7, <1>10, <2>1, <2>2 DEF MicIsReal
    <2> QED BY <1>5, <2>2, <2>3, CallsAssumption DEF CallsAssumption
  <1>12. BeganWithTheMic'
    <2>1. SUFFICES ASSUME call'.app # "none", ~gap' PROVE busy' >= call'.age
      BY DEF BeganWithTheMic
    <2>2. ~gap /\ mic'.app # "none" /\ busy' = Older(busy)
      BY <1>1, <1>3, <1>5, <1>6, <1>7, <2>1
    <2>3. CASE call.app # "none"
      <3>1. busy >= call.age /\ call'.age = Older(call.age)
        BY <1>6, <2>1, <2>2, <2>3 DEF CallIsOne, BeganWithTheMic
      <3> QED BY <1>2, <1>4, <2>2, <3>1
    <2>4. CASE call.app = "none"
      BY <1>6, <1>10, <2>1, <2>2, <2>4 DEF MicIsReal
    <2> QED BY <2>3, <2>4
  <1> QED BY <1>9, <1>10, <1>11, <1>12 DEF CallIsOne

LEMMA CallsKeep == ASSUME CInv, [CallsNext]_callVars PROVE CInv'
  <1> USE CallsAssumption DEF CallsAssumption, CInv
  <1>1. CASE Round
    BY <1>1, RoundKeeps
  <1>2. CASE PausedRound
    <2>1. /\ mic.age \in -1 .. Old /\ call.age \in -1 .. Old /\ meetAge \in -1 .. Old
          /\ Older(mic.age) \in Ages /\ Older(call.age) \in Ages /\ Older(meetAge) \in Ages
      BY OlderIsAge DEF CallsTypeOK, Ages
    <2>2. /\ mic' \in [app : CallApps \cup {"none"}, age : Ages] /\ mic'.app = mic.app
          /\ call' \in [app : CallApps \cup {"none"}, age : Ages] /\ call'.app = call.app
      BY <1>2, <2>1 DEF PausedRound, CallsTypeOK
    <2>3. CallsTypeOK'
      <3>1. meetAge' \in Ages /\ busy' \in -1 .. Old
        BY <1>2, <2>1 DEF PausedRound
      <3>3. gap' \in BOOLEAN /\ browserOnly' \in BOOLEAN /\ wantsCall' \in BOOLEAN
        BY <1>2 DEF PausedRound, CallsTypeOK
      <3>2. held' \in [Messengers -> -1 .. Old]
        BY <1>2 DEF PausedRound
      <3> QED BY <2>2, <3>1, <3>2, <3>3 DEF CallsTypeOK
    <2>4. gap' = (mic.app # "none") /\ (mic'.app \in Messengers => mic'.app # "none")
      BY <1>2 DEF PausedRound, Messengers, CallApps
    <2>5. MicIsReal' /\ CallIsOne'
      BY <2>2, <2>4 DEF MicIsReal, CallIsOne, MessageIsNoCall, BeganWithTheMic
    <2> QED BY <2>3, <2>5
  <1>3. CASE SwitchCalls
    <2>1. wantsCall' \in BOOLEAN
      BY <1>3 DEF SwitchCalls
    <2>2. CASE wantsCall
      <3>1. /\ mic' = None /\ call' = None /\ held' = [a \in Messengers |-> -1] /\ gap' = FALSE /\ busy' = -1
            /\ browserOnly' = FALSE /\ meetAge' \in Ages
        BY <1>3, <2>2 DEF SwitchCalls, Ages
      <3>2. mic'.app = "none" /\ call'.app = "none" /\ mic'.app \notin Messengers
        BY <3>1 DEF None, Messengers, CallApps
      <3>3. MicIsReal' /\ CallIsOne'
        BY <3>1, <3>2 DEF MicIsReal, CallIsOne, MessageIsNoCall, BeganWithTheMic
      <3>4. None \in [app : CallApps \cup {"none"}, age : Ages] /\ -1 \in -1 .. Old
        BY DEF None, Ages
      <3> QED BY <2>1, <3>1, <3>3, <3>4 DEF CallsTypeOK
    <2>3. CASE ~wantsCall
      BY <1>3, <2>1, <2>3 DEF SwitchCalls, CallsTypeOK, MicIsReal, CallIsOne, MessageIsNoCall, BeganWithTheMic
    <2> QED BY <2>2, <2>3
  <1>4. CASE UNCHANGED callVars
    BY <1>4 DEF callVars, CallsTypeOK, MicIsReal, CallIsOne, MessageIsNoCall, BeganWithTheMic
  <1> QED BY <1>1, <1>2, <1>3, <1>4 DEF CallsNext

-----------------------------------------------------------------------------
(* Both kinds of behaviour.                                                *)

Both == OInv /\ CInv

LEMMA BothStart == Init => Both
  BY ObserveStarts, CallsStart DEF Init, Both

LEMMA BothKeep == Both /\ [Next]_vars => Both'
  <1> SUFFICES ASSUME Both, [Next]_vars PROVE Both'
    OBVIOUS
  <1>1. [ObserveNext]_obsVars /\ [CallsNext]_callVars
    BY DEF Next, WayStep, CallStep, vars
  <1> QED BY <1>1, ObserveKeeps, CallsKeep DEF Both

LEMMA BothAlways == Spec => []Both
  BY BothStart, BothKeep, PTL DEF Spec

\* For any synths: what a synth knows of this computer was switched on for it
\* since its link came up, whatever was on its way when the owner switched it
\* off, unlinked the synth or linked it again (observe.rs, Hub::wanted).
THEOREM ReportsStayItsOwn == Spec => []ReportsAreItsOwn
  <1>1. OInv => ObserveTypeOK /\ OnlyItsOwn
    <2> SUFFICES ASSUME OInv PROVE ObserveTypeOK /\ OnlyItsOwn
      OBVIOUS
    <2>1. \A s \in Synths : \A i \in DOMAIN queue[s] : queue[s][i] \in Values \cup {"null"}
      BY DEF OInv, WayType, Reports
    <2> QED BY <2>1 DEF OInv, WayType, RestType, OnItsWay, ObserveTypeOK, OnlyItsOwn, Way, Told
  <1>2. Both => ReportsAreItsOwn
    BY <1>1 DEF Both, CInv, ReportsAreItsOwn, ReportsTypeOK
  <1> QED BY <1>2, BothAlways, PTL

\* Whatever the two times are: a messenger's call is a microphone it has had
\* for long enough, and no call is older than the microphone
\* (observe/sources.rs, CallTracker).
THEOREM CallsAreCalls == Spec => []CallIsOne
  <1>1. Both => CallIsOne
    BY DEF Both, CInv
  <1> QED BY <1>1, BothAlways, PTL
=============================================================================
