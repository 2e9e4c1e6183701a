---------------------------- MODULE StreamsProofs ----------------------------
(***************************************************************************)
(* What a link serves, for any commands, streams, calls and bounds: a      *)
(* command leaves no process behind, a crash loses less than one flush of  *)
(* the month's count, and a chunk of a file goes where it was sent for.    *)
(*                                                                         *)
(* None of the three is inductive.  A command may start processes as long  *)
(* as its own lives, so that the run of one that was killed is over has to *)
(* be said; a count agrees with the file only through the flush that is    *)
(* under way and what it has taken; and a chunk is where it was sent for   *)
(* because the size it was measured against is still the file's when it is *)
(* written, as long as nobody else was at the file.                        *)
(***************************************************************************)
EXTENDS MCStreams, Integers, SequenceTheorems, TLAPS

-----------------------------------------------------------------------------
(* A command.                                                              *)

\* Its own process lives only while the task watches it; what was killed is
\* gone with its group, and stays it: the run is over.
Tidy(c) ==
    /\ leader[c] => cmd[c] \in {"started", "running", "term", "grace"}
    /\ end[c] = "killed" => ~rest[c] /\ cmd[c] \in {"drain", "over"}

SInv == ShellTypeOK /\ \A c \in Commands : Tidy(c)

LEMMA ShellStarts == ShellInit => SInv
  BY DEF ShellInit, PauseInit, SInv, ShellTypeOK, PauseTypeOK, CmdStages, Awaits, Ends, Tidy

\* The pause has its type whatever it does.
LEMMA PauseKeeps ==
    ASSUME PauseTypeOK, PauseFlag \/ PauseStops \/ PauseNudges \/ Resume \/ LinkSees \/ UNCHANGED pauseVars
    PROVE  PauseTypeOK'
  BY DEF PauseTypeOK, PauseFlag, PauseStops, PauseNudges, Resume, LinkSees, pauseVars

\* What leaves the commands alone leaves the invariant alone.
LEMMA ShellRests == ASSUME SInv, UNCHANGED ownShell, PauseTypeOK' PROVE SInv'
  BY DEF SInv, ShellTypeOK, ownShell, Tidy

LEMMA ShellKeeps == ASSUME SInv, [ShellNext]_shellVars PROVE SInv'
  <1> USE DEF SInv, ShellTypeOK, CmdStages, Awaits, Ends
  <1>p. PauseTypeOK'
    BY PauseKeeps DEF ShellNext, ShellTask, Parsed, Spawn, MarkSeen, ExitSeen, StopSeen, Term, Kill, Answered,
          Dropped, Exec, OwnerSays, Fork, ChildExits, RestExits, TimedOutOrCancelled, SwitchOff, SwitchOn,
          ShellOwner, ShellPauseGoesOn, ShellLinkSees, ShellLinkEnds, shellVars
  <1>1. ASSUME NEW c \in Commands, Exec(c) PROVE SInv'
    BY <1>p, <1>1 DEF Exec, CmdGoes, CmdEnds, Tidy, settings, procs, pauseVars
  <1>2. ASSUME NEW c \in Commands, Parsed(c) \/ OwnerSays(c) PROVE SInv'
    BY <1>p, <1>2 DEF Parsed, OwnerSays, CmdAt, CmdGoes, CmdEnds, Tidy, settings, procs, pauseVars
  <1>3. ASSUME NEW c \in Commands, Spawn(c) PROVE SInv'
    BY <1>p, <1>3 DEF Spawn, CmdGoes, CmdEnds, Tidy, settings, pauseVars
  <1>4. ASSUME NEW c \in Commands, MarkSeen(c) \/ ExitSeen(c) \/ StopSeen(c) \/ TimedOutOrCancelled(c) PROVE SInv'
    BY <1>p, <1>4 DEF MarkSeen, ExitSeen, StopSeen, TimedOutOrCancelled, CmdAt, CmdGoes, Tidy, settings, procs, pauseVars
  <1>5. ASSUME NEW c \in Commands, Fork(c) \/ ChildExits(c) \/ RestExits(c) PROVE SInv'
    BY <1>p, <1>5 DEF Fork, ChildExits, RestExits, Tidy, settings, pauseVars
  <1>6. ASSUME NEW c \in Commands, Term(c) PROVE SInv'
    BY <1>p, <1>6 DEF Term, CmdAt, CmdGoes, Tidy, settings, pauseVars
  <1>7. ASSUME NEW c \in Commands, Kill(c) \/ Answered(c) PROVE SInv'
    BY <1>p, <1>7 DEF Kill, KillGroup, Answered, CmdAt, CmdGoes, Tidy, settings, procs, pauseVars
  <1>8. ASSUME NEW c \in Commands, Dropped(c) PROVE SInv'
    BY <1>p, <1>8 DEF Dropped, KillOnDrop, CmdGoes, CmdEnds, Tidy, settings, pauseVars
  <1>9. CASE SwitchOff \/ SwitchOn
    BY <1>p, <1>9 DEF SwitchOff, SwitchOn, StopAll, Tidy, procs, pauseVars
  <1>10. CASE ShellOwner \/ ShellPauseGoesOn
    BY <1>p, <1>10 DEF ShellOwner, ShellPauseGoesOn, StopAll, Tidy, settings, procs
  <1>11. CASE ShellLinkSees \/ ShellLinkEnds
    BY <1>p, <1>11 DEF ShellLinkSees, ShellLinkEnds, AllAborted, InTask, Tidy, settings, procs, pauseVars
  <1>12. CASE UNCHANGED shellVars
    BY <1>p, <1>12 DEF shellVars, Tidy
  <1> QED BY <1>1, <1>2, <1>3, <1>4, <1>5, <1>6, <1>7, <1>8, <1>9, <1>10, <1>11, <1>12 DEF ShellNext, ShellTask

-----------------------------------------------------------------------------
(* The month's count.                                                      *)

\* The types without the pause, the streams and the books apart.
PipeTypes ==
    /\ netAsks \in BOOLEAN
    /\ conn \in [Conns -> ConnStages]
    /\ up \in [Conns -> {"open", "closed"}]
    /\ down \in [Conns -> {"read", "write", "closed"}]
    /\ watch \in [Conns -> {"off", "waits", "timer"}]
    /\ bytes \in [Conns -> 0 .. MaxBytes] /\ aborted \subseteq Conns
BookTypes ==
    /\ month \in 1 .. MaxMonth /\ count \in Counts /\ disk \in Counts
    /\ unsaved \in Nat
    /\ flushing \in [Flushers -> Counts] /\ overlapped \in BOOLEAN

\* Months go by, for the count before the flushes and the file.
Months ==
    /\ 1 <= count.month /\ count.month <= month /\ disk.month <= count.month
    /\ \A f \in Flushers : flushing[f].month <= count.month

\* What is unsaved moved in some month up to now.
Volume == unsaved <= (count.month - 1) * MaxBytes + count.bytes

\* Who flushes; and when a flush is due, who will.
Flushing ==
    /\ \A c \in Conns : InFlush(c) => conn[c] = "flush"
    /\ ~overlapped => \A f, g \in Flushers : InFlush(f) /\ InFlush(g) => f = g
    /\ unsaved < FlushAt \/ \E c \in Conns : conn[c] = "flush" /\ ~InFlush(c)

\* The count is what the last flush took, or wrote, and what is unsaved.
AddsUp ==
    ~overlapped =>
        /\ (\A f \in Flushers : ~InFlush(f)) /\ disk.month = count.month => count.bytes = disk.bytes + unsaved
        /\ \A f \in Flushers : InFlush(f) /\ flushing[f].month = count.month => count.bytes = flushing[f].bytes + unsaved

Books == BookTypes /\ Months /\ Volume /\ Flushing /\ AddsUp
NInv == PipeTypes /\ Books

LEMMA NetStarts == NetInit => NInv
  <1> SUFFICES ASSUME NetInit PROVE NInv
    OBVIOUS
  <1> USE TrafficAssumption DEF TrafficAssumption, NetInit
  <1>1. None \in Counts /\ [month |-> 1, bytes |-> 0] \in Counts
    BY DEF None, Counts
  <1>2. PipeTypes
    BY DEF PipeTypes, ConnStages
  <1>3. BookTypes
    <2>1. month \in 1 .. MaxMonth /\ count \in Counts /\ disk \in Counts /\ unsaved \in Nat
      BY <1>1
    <2>2. flushing \in [Flushers -> Counts] /\ overlapped \in BOOLEAN
      BY <1>1
    <2> QED BY <2>1, <2>2 DEF BookTypes
  <1>4. \A f \in Flushers : ~InFlush(f) /\ flushing[f].month = 0
    BY DEF InFlush, None
  <1>5. disk.month = 0 /\ count.month = 1 /\ count.bytes = 0 /\ unsaved = 0 /\ month = 1
    BY DEF None
  <1>6. Months /\ Volume /\ AddsUp
    BY <1>4, <1>5 DEF Months, Volume, AddsUp
  <1>7. Flushing
    BY <1>4, <1>5 DEF Flushing, Flushers
  <1> QED BY <1>2, <1>3, <1>6, <1>7 DEF NInv, Books

\* Whatever leaves the count, the file and the flushes alone, and no stream
\* into or out of its flush, leaves the books right.
LEMMA BooksRest ==
    ASSUME Books, UNCHANGED <<count, unsaved, disk, flushing, overlapped>>,
           month' \in 1 .. MaxMonth, month' >= month,
           \A c \in Conns : conn'[c] = "flush" <=> conn[c] = "flush"
    PROVE  Books'
  <1> USE DEF Books
  <1>1. BookTypes'
    BY DEF BookTypes
  <1>2. Months'
    BY DEF Months, BookTypes, Counts
  <1>3. Volume' /\ AddsUp'
    BY DEF Volume, AddsUp, InFlush
  <1>4. Flushing'
    BY DEF Flushing, InFlush
  <1> QED BY <1>1, <1>2, <1>3, <1>4

\* add_egress, in the month of the count or in a new one.
LEMMA CountsOn == ASSUME NInv, NEW c \in Conns, AddEgress(c) PROVE Books'
  <1> USE TrafficAssumption DEF TrafficAssumption, NInv, Books
  <1> DEFINE n == bytes[c]
  <1>1. /\ n \in 0 .. MaxBytes /\ unsaved' = unsaved + n
        /\ month' = month /\ disk' = disk /\ flushing' = flushing /\ overlapped' = overlapped
        /\ conn[c] = "count"
    BY DEF AddEgress, PipeTypes
  <1>2. /\ count.month \in 0 .. MaxMonth /\ count.bytes \in 0 .. MaxBytes /\ month \in 1 .. MaxMonth /\ unsaved \in Nat
        /\ disk.month \in 0 .. MaxMonth /\ \A f \in Flushers : flushing[f].month \in 0 .. MaxMonth
        /\ disk.bytes \in 0 .. MaxBytes /\ \A f \in Flushers : flushing[f].bytes \in 0 .. MaxBytes
    BY DEF BookTypes, Counts
  <1>3. \/ count.month = month /\ count'.month = month /\ count'.bytes = count.bytes + n /\ count' \in Counts
        \/ count.month # month /\ count'.month = month /\ count'.bytes = n /\ count' \in Counts
    <2>1. CASE count.month = month
      <3>1. count' = [count EXCEPT !.bytes = count.bytes + n] /\ count.bytes + n <= MaxBytes
        BY <2>1 DEF AddEgress, Fresh
      <3>2. count' \in Counts /\ count'.month = count.month /\ count'.bytes = count.bytes + n
        BY <3>1, <1>1, <1>2 DEF BookTypes, Counts
      <3> QED BY <2>1, <3>2
    <2>2. CASE count.month # month
      <3>1. count' = [month |-> month, bytes |-> n]
        BY <1>1, <2>2 DEF AddEgress, Fresh
      <3> QED BY <2>2, <3>1, <1>1, <1>2 DEF Counts
    <2> QED BY <2>1, <2>2
  <1> HIDE DEF n
  <1>4. BookTypes'
    BY <1>1, <1>2, <1>3 DEF BookTypes
  <1>5. Months'
    BY <1>1, <1>2, <1>3 DEF Months
  <1>6. Volume'
    <2>1. CASE count.month = month
      BY <1>1, <1>2, <1>3, <2>1 DEF Volume
    <2>2. CASE count.month # month
      <3>1. count.month + 1 <= month
        BY <1>2, <2>2 DEF Months
      <3> DEFINE d == month - count.month - 1
      <3>2. d \in Nat /\ month = count.month + 1 + d
        BY <1>2, <3>1
      <3> HIDE DEF d
      <3> DEFINE before == (count.month - 1) * MaxBytes
                 since == d * MaxBytes
      <3>3. (month - 1) * MaxBytes = before + MaxBytes + since
        BY <1>2, <3>2
      <3>4. since >= 0 /\ since \in Int /\ before \in Int
        BY <1>2, <3>2
      <3>5. unsaved <= before + count.bytes
        BY DEF Volume
      <3> HIDE DEF before, since
      <3>6. unsaved' <= (month - 1) * MaxBytes + n
        BY <1>1, <1>2, <3>3, <3>4, <3>5
      <3> QED BY <1>3, <2>2, <3>6 DEF Volume
    <2> QED BY <2>1, <2>2
  <1>7. Flushing'
    <2>1. \A d \in Conns : conn[d] = "flush" => conn'[d] = "flush"
      BY <1>1 DEF AddEgress, ConnGoes, PipeTypes
    <2>2. ~InFlush(c)
      BY <1>1 DEF Flushing
    <2>3. unsaved' < FlushAt \/ conn'[c] = "flush"
      BY <1>1, <1>2 DEF AddEgress, ConnGoes, PipeTypes, FlushDue
    <2> QED BY <1>1, <2>1, <2>2, <2>3 DEF Flushing, InFlush
  <1>8. AddsUp'
    <2>1. CASE count.month = month
      BY <1>1, <1>2, <1>3, <2>1 DEF AddsUp, InFlush
    <2>2. CASE count.month # month
      <3>1. disk.month < month /\ \A f \in Flushers : flushing[f].month < month
        BY <1>2, <2>2 DEF Months
      <3> QED BY <1>1, <1>2, <1>3, <2>2, <3>1 DEF AddsUp
    <2> QED BY <2>1, <2>2
  <1> QED BY <1>4, <1>5, <1>6, <1>7, <1>8

\* flush_egress takes the count.
LEMMA TakesRight == ASSUME NInv, NEW f \in Flushers, FlushTakes(f) PROVE Books'
  <1> USE TrafficAssumption DEF TrafficAssumption, NInv, Books
  <1>1. /\ flushing' = [flushing EXCEPT ![f] = count] /\ unsaved' = 0 /\ conn' = conn
        /\ month' = month /\ count' = count /\ disk' = disk
        /\ overlapped' = (overlapped \/ \E g \in Flushers \ {f} : InFlush(g))
        /\ f \in Conns => conn[f] = "flush"
    BY DEF FlushTakes, NoneUnsaved, pipe
  <1>2. /\ count.month \in 0 .. MaxMonth /\ count.bytes \in 0 .. MaxBytes /\ count \in Counts
        /\ flushing \in [Flushers -> Counts] /\ unsaved \in Nat
    BY DEF BookTypes, Counts
  <1>3. BookTypes'
    BY <1>1, <1>2 DEF BookTypes
  <1>4. Months'
    BY <1>1, <1>2 DEF Months
  <1>5. Volume'
    <2>1. (count.month - 1) * MaxBytes >= 0
      BY <1>2 DEF Months
    <2> QED BY <1>1, <1>2, <2>1 DEF Volume
  <1>6. \A g \in Flushers : g # f => (InFlush(g)' <=> InFlush(g))
    BY <1>1, <1>2 DEF InFlush
  <1>7. Flushing'
    <2>1. \A c \in Conns : InFlush(c)' => conn'[c] = "flush"
      BY <1>1, <1>6 DEF Flushing, Flushers
    <2>2. ~overlapped' => \A g, h \in Flushers : InFlush(g)' /\ InFlush(h)' => g = h
      BY <1>1, <1>6
    <2> QED BY <1>1, <2>1, <2>2 DEF Flushing, InFlush
  <1>8. AddsUp'
    <2>1. InFlush(f)' /\ flushing'[f] = count
      BY <1>1, <1>2 DEF InFlush, None, Months
    <2>2. ~overlapped' => \A g \in Flushers : InFlush(g)' => g = f
      BY <1>1, <1>6
    <2> QED BY <1>1, <1>2, <2>1, <2>2 DEF AddsUp, InFlush
  <1> QED BY <1>3, <1>4, <1>5, <1>7, <1>8

\* ... and writes what it took.
LEMMA WritesRight == ASSUME NInv, NEW f \in Flushers, FlushWrites(f) PROVE Books'
  <1> USE TrafficAssumption DEF TrafficAssumption, NInv, Books
  <1>1. /\ InFlush(f) /\ disk' = flushing[f] /\ flushing' = [flushing EXCEPT ![f] = None]
        /\ month' = month /\ count' = count /\ unsaved' = unsaved /\ overlapped' = overlapped
        /\ \A c \in Conns : c # f => conn'[c] = conn[c]
    BY DEF FlushWrites, ConnGoes, pipe, PipeTypes
  <1>2. /\ flushing \in [Flushers -> Counts] /\ None \in Counts /\ None.month = 0
        /\ count.month \in 0 .. MaxMonth /\ flushing[f] \in Counts
    BY DEF BookTypes, Counts, None
  <1>3. BookTypes'
    BY <1>1, <1>2 DEF BookTypes
  <1>4. Months' /\ Volume'
    BY <1>1, <1>2 DEF Months, Volume
  <1>5. ~InFlush(f)' /\ \A g \in Flushers : g # f => (InFlush(g)' <=> InFlush(g))
    BY <1>1, <1>2 DEF InFlush
  <1>6. Flushing'
    <2>1. \A c \in Conns : InFlush(c)' => conn'[c] = "flush"
      BY <1>1, <1>5 DEF Flushing, Flushers
    <2>2. unsaved' < FlushAt \/ \E c \in Conns : conn'[c] = "flush" /\ ~InFlush(c)'
      BY <1>1, <1>5 DEF Flushing, Flushers
    <2>3. ~overlapped' => \A g, h \in Flushers : InFlush(g)' /\ InFlush(h)' => g = h
      BY <1>1, <1>5 DEF Flushing
    <2> HIDE DEF InFlush
    <2> QED BY <2>1, <2>2, <2>3 DEF Flushing
  <1>7. AddsUp'
    <2>1. SUFFICES ASSUME ~overlapped PROVE AddsUp'
      BY <1>1 DEF AddsUp
    <2>2. \A g \in Flushers : ~InFlush(g)'
      BY <1>1, <1>5, <2>1 DEF Flushing
    <2>3. disk'.month = count'.month => count'.bytes = disk'.bytes + unsaved'
      BY <1>1, <2>1 DEF AddsUp
    <2> QED BY <2>2, <2>3 DEF AddsUp
  <1> QED BY <1>3, <1>4, <1>6, <1>7

\* Core::new begins with what the file says.
LEMMA RestartsRight == ASSUME NInv, Restart PROVE NInv'
  <1> USE TrafficAssumption DEF TrafficAssumption, NInv, Books
  <1>1. PipeTypes'
    BY DEF Restart, PipeTypes, ConnStages
  <1>2. /\ month' = month /\ disk' = disk /\ unsaved' = 0 /\ overlapped' = FALSE
        /\ flushing' = [g \in Flushers |-> None] /\ count' = Fresh(disk) /\ None.month = 0 /\ None \in Counts
    BY DEF Restart, None, Counts
  <1>3. /\ disk \in Counts /\ disk.month \in 0 .. MaxMonth /\ month \in 1 .. MaxMonth /\ disk.month <= month
        /\ disk.bytes \in 0 .. MaxBytes
    BY DEF BookTypes, Counts, Months
  <1>4. count' \in Counts /\ count'.month = month /\ (disk.month = month => count' = disk)
    BY <1>2, <1>3 DEF Fresh, Counts
  <1>5. BookTypes'
    <2>1. flushing' \in [Flushers -> Counts] /\ overlapped' \in BOOLEAN
      BY <1>2
    <2> QED BY <1>2, <1>3, <1>4, <2>1 DEF BookTypes
  <1>9. Months'
    BY <1>2, <1>3, <1>4 DEF Months
  <1>6. Volume'
    <2>1. (month - 1) * MaxBytes >= 0 /\ (month - 1) * MaxBytes \in Int /\ count'.bytes \in 0 .. MaxBytes
      BY <1>3, <1>4 DEF Counts
    <2>2. unsaved' <= (month - 1) * MaxBytes + count'.bytes
      BY <1>2, <2>1
    <2> QED BY <1>4, <2>2 DEF Volume
  <1>7. \A g \in Flushers : ~InFlush(g)'
    BY <1>2 DEF InFlush
  <1>8. Flushing' /\ AddsUp'
    BY <1>2, <1>3, <1>4, <1>7 DEF Flushing, AddsUp, Flushers
  <1> QED BY <1>1, <1>5, <1>6, <1>8, <1>9

LEMMA NetRests == ASSUME NInv, UNCHANGED ownNet PROVE NInv'
  BY DEF NInv, ownNet, PipeTypes, Books, BookTypes, Months, Volume, Flushing, AddsUp, InFlush

LEMMA NetKeeps == ASSUME NInv, [NetNext]_netVars PROVE NInv'
  <1> USE TrafficAssumption DEF TrafficAssumption
  <1>t. month \in 1 .. MaxMonth /\ PipeTypes /\ Books
    BY DEF NInv, Books, BookTypes
  <1>1. ASSUME NEW c \in Conns, NetAllows(c) \/ NetOwnerSays(c) \/ Dialed(c) \/ Reopen(c) PROVE NInv'
    <2>1. PipeTypes'
      BY <1>t, <1>1 DEF NetAllows, NetOwnerSays, Dialed, Reopen, ConnAt, ConnGoes, PipeTypes, ConnStages, ConnAwaits, pipe
    <2>2. UNCHANGED books /\ \A d \in Conns : conn'[d] = "flush" <=> conn[d] = "flush"
      BY <1>t, <1>1 DEF NetAllows, NetOwnerSays, Dialed, Reopen, ConnAt, ConnGoes, PipeTypes
    <2> QED BY <1>t, <2>1, <2>2, BooksRest DEF NInv, books
  <1>2. ASSUME NEW c \in Conns, ChunkUp(c) \/ SynthCloses(c) \/ ChunkRead(c) \/ ChunkTaken(c) \/ TargetCloses(c) PROVE NInv'
    <2>1. PipeTypes'
      BY <1>t, <1>2 DEF ChunkUp, SynthCloses, ChunkRead, ChunkTaken, TargetCloses, ConnAt, Moved, Roomy, StallWatch, PipeTypes
    <2>2. UNCHANGED books /\ conn' = conn
      BY <1>2 DEF ChunkUp, SynthCloses, ChunkRead, ChunkTaken, TargetCloses
    <2> QED BY <1>t, <2>1, <2>2, BooksRest DEF NInv, books
  <1>3. ASSUME NEW c \in Conns, PumpReturns(c) \/ Stalled(c) \/ PumpFails(c) \/ ConnDropped(c) PROVE NInv'
    <2>1. PipeTypes'
      BY <1>t, <1>3 DEF PumpReturns, Stalled, PumpFails, ConnDropped, ConnAt, ConnGoes, PipeGone, PipeTypes, ConnStages
    <2>2. UNCHANGED books /\ \A d \in Conns : conn'[d] = "flush" <=> conn[d] = "flush"
      BY <1>t, <1>3 DEF PumpReturns, Stalled, PumpFails, ConnDropped, ConnAt, ConnGoes, ConnAwaits, PipeTypes
    <2> QED BY <1>t, <2>1, <2>2, BooksRest DEF NInv, books
  <1>4. ASSUME NEW c \in Conns, AddEgress(c) PROVE NInv'
    <2>1. PipeTypes'
      BY <1>t, <1>4 DEF AddEgress, ConnGoes, PipeTypes, ConnStages
    <2> QED BY <1>4, <2>1, CountsOn DEF NInv
  <1>5. ASSUME NEW f \in Flushers, FlushTakes(f) PROVE NInv'
    <2>1. PipeTypes'
      BY <1>t, <1>5 DEF FlushTakes, PipeTypes, pipe
    <2> QED BY <1>5, <2>1, TakesRight DEF NInv
  <1>6. ASSUME NEW f \in Flushers, FlushWrites(f) PROVE NInv'
    <2>1. PipeTypes'
      BY <1>t, <1>6 DEF FlushWrites, ConnGoes, PipeTypes, ConnStages, pipe
    <2> QED BY <1>6, <2>1, WritesRight DEF NInv
  <1>7. CASE NewMonth
    <2>1. PipeTypes' /\ UNCHANGED <<count, unsaved, disk, flushing, overlapped, conn>> /\ month' \in 1 .. MaxMonth /\ month' >= month
      BY <1>t, <1>7 DEF NewMonth, PipeTypes, pipe
    <2> QED BY <1>t, <2>1, BooksRest DEF NInv
  <1>8. CASE Restart
    BY <1>8, RestartsRight
  <1>9. CASE NetLinkSees \/ NetOwner \/ NetPauseGoesOn
    <2>1. PipeTypes' /\ UNCHANGED books /\ conn' = conn
      BY <1>t, <1>9 DEF NetLinkSees, NetOwner, NetPauseGoesOn, ConnsAborted, OpenConns, PipeTypes, pipe
    <2> QED BY <1>t, <2>1, BooksRest DEF NInv, books
  <1>10. CASE UNCHANGED netVars
    BY <1>10, NetRests DEF netVars, ownNet
  <1> QED BY <1>1, <1>2, <1>3, <1>4, <1>5, <1>6, <1>7, <1>8, <1>9, <1>10 DEF NetNext, ConnTask, Flushers

LEMMA BooksAddUp == NInv => CrashLosesLittle
  BY DEF NInv, Books, Flushing, AddsUp, CrashLosesLittle, Flushers

\* The bound of NetTypeOK on what is unsaved.
LEMMA NetIsTyped == ASSUME NInv, PauseTypeOK PROVE NetTypeOK
  <1> USE TrafficAssumption DEF TrafficAssumption, NInv, Books
  <1>1. count.month \in 1 .. MaxMonth /\ count.bytes \in 0 .. MaxBytes /\ unsaved \in Nat
    BY DEF BookTypes, Counts, Months
  <1> DEFINE d == MaxMonth - count.month
  <1>2. d \in Nat /\ MaxMonth = count.month + d
    BY <1>1
  <1> HIDE DEF d
  <1>3. MaxMonth * MaxBytes = (count.month - 1) * MaxBytes + MaxBytes + d * MaxBytes /\ d * MaxBytes >= 0
    BY <1>1, <1>2
  <1>4. unsaved \in 0 .. MaxMonth * MaxBytes
    BY <1>1, <1>3 DEF Volume
  <1> QED BY <1>4 DEF NetTypeOK, PipeTypes, BookTypes

-----------------------------------------------------------------------------
(* The chunks of a file.                                                   *)

\* A call that goes on unasked goes on where an allowed chunk ended; before
\* the file is written nothing of a call is in it; what is written outside
\* an append is written at the start.
Sound(c) ==
    /\ arg[c].continuing => \E s \in Synths : <<s, arg[c].offset>> \in ends
    /\ place[c] > 0 => chunk[c] \in {"flush", "over"}
    /\ arg[c].offset < MaxFile
    /\ chunk[c] \in {"open", "write"} /\ arg[c].mode # "append" => arg[c].offset = 0
    /\ ~clashed /\ place[c] > 0 => place[c] = arg[c].offset + 1

\* Whoever is at the file undisturbed is there alone, and the file is as
\* long as it was measured.
Undisturbed(c) ==
    ~clashed /\ chunk[c] \in {"open", "write"} =>
        /\ \A d \in Chunks \ {c} : chunk[d] \notin {"open", "write"}
        /\ arg[c].mode = "append" => arg[c].offset = Size

FInv ==
    /\ FileTypeOK
    /\ \A n \in noted : \E s \in Synths : <<s, n>> \in ends
    /\ \A c \in Chunks : Sound(c) /\ Undisturbed(c)

LEMMA FilesStart == FileInit => FInv
  <1> SUFFICES ASSUME FileInit PROVE FInv
    OBVIOUS
  <1> USE TransfersAssumption DEF TransfersAssumption, FileInit
  <1>1. NoArg \in Args /\ NoArg.continuing = FALSE /\ NoArg.offset = 0
    BY DEF NoArg, Args, Modes, Sizes
  <1>2. FileTypeOK
    <2>1. file \in Seq(Chunks \cup {Foreign}) /\ Size <= MaxFile
      BY DEF Size
    <2>2. noted \in {{}} \cup {{n} : n \in Sizes} /\ ends \subseteq Synths \X Sizes
      OBVIOUS
    <2>3. arg \in [Chunks -> Args] /\ place \in [Chunks -> Sizes]
      BY <1>1 DEF Sizes
    <2> QED BY <2>1, <2>2, <2>3 DEF FileTypeOK, FileAwaits
  <1>3. \A c \in Chunks : Sound(c) /\ Undisturbed(c)
    BY <1>1 DEF Sound, Undisturbed
  <1> QED BY <1>2, <1>3 DEF FInv

\* A file with a chunk more, and with its first chunk replaced.
LEMMA Appended ==
    ASSUME NEW S, NEW q \in Seq(S), NEW x \in S
    PROVE  Append(q, x) \in Seq(S) /\ Len(Append(q, x)) = Len(q) + 1
  OBVIOUS

LEMMA Overwritten ==
    ASSUME NEW S, NEW q \in Seq(S), NEW x \in S, NEW n \in Nat \ {0}, Len(q) <= n
    PROVE  /\ (IF q = <<>> THEN <<x>> ELSE [q EXCEPT ![1] = x]) \in Seq(S)
           /\ Len(IF q = <<>> THEN <<x>> ELSE [q EXCEPT ![1] = x]) <= n
  <1>1. CASE q = <<>>
    <2>1. <<x>> = Append(<<>>, x)
      OBVIOUS
    <2> QED BY <1>1, <2>1, EmptySeq, Appended
  <1>2. CASE q # <<>>
    BY <1>2, EmptySeq, ExceptSeq
  <1> QED BY <1>1, <1>2

\* The gate changes neither the file nor what an allowed chunk left.
LEMMA GateKeeps ==
    ASSUME FInv, NEW c \in Chunks, FilesMethod(c) \/ Resolved(c) \/ FileOwnerSays(c) \/ FileDropped(c)
    PROVE  FInv'
  <1> USE TransfersAssumption DEF TransfersAssumption, FInv
  <1>1. /\ chunk \in [Chunks -> FileAwaits \cup {"idle", "over"}] /\ arg \in [Chunks -> Args]
        /\ file' = file /\ there' = there /\ noted' = noted /\ place' = place /\ ends' = ends /\ clashed' = clashed
        /\ asksWrite \in BOOLEAN /\ asksWrite' = asksWrite
    BY DEF FileTypeOK, FilesMethod, Resolved, FileOwnerSays, FileDropped, disc, history
  <1>2. /\ chunk' \in [Chunks -> FileAwaits \cup {"idle", "over"}]
        /\ \A d \in Chunks \ {c} : chunk'[d] = chunk[d]
        /\ chunk'[c] \notin {"open", "write"}
        /\ chunk[c] \in {"idle", "resolve", "asking"} \/ chunk'[c] = "over"
    BY <1>1 DEF FilesMethod, Resolved, FileOwnerSays, FileDropped, ChunkGoes, FileAwaits
  <1>3. /\ arg' \in [Chunks -> Args] /\ \A d \in Chunks \ {c} : arg'[d] = arg[d]
        /\ arg'[c].offset < MaxFile
        /\ arg'[c].continuing => \E s \in Synths : <<s, arg'[c].offset>> \in ends
        /\ arg'[c] = arg[c] \/ chunk[c] \in {"idle", "resolve"}
    <2>1. CASE arg' = arg
      BY <1>1, <2>1 DEF Sound
    <2>2. CASE FilesMethod(c)
      <3>1. PICK s \in Synths, md \in Modes, off \in 0 .. MaxFile - 1 :
              arg' = [arg EXCEPT ![c] = [synth |-> s, mode |-> md, offset |-> off, asks |-> asksWrite, continuing |-> FALSE]]
        BY <2>2 DEF FilesMethod
      <3> DEFINE a == [synth |-> s, mode |-> md, offset |-> off, asks |-> asksWrite, continuing |-> FALSE]
      <3>2. a.offset < MaxFile /\ a.continuing = FALSE
        OBVIOUS
      <3>4. a \in Args
        BY <1>1 DEF Args, Sizes
      <3> HIDE DEF a
      <3>3. arg' = [arg EXCEPT ![c] = a]
        BY <3>1 DEF a
      <3>5. chunk[c] = "idle"
        BY <2>2 DEF FilesMethod
      <3> QED BY <1>1, <3>2, <3>3, <3>4, <3>5
    <2>3. CASE Resolved(c)
      <3>1. arg' = [arg EXCEPT ![c] = [arg[c] EXCEPT !.continuing = Continues(c)]]
        BY <2>3, <1>1 DEF Resolved
      <3> DEFINE a == [arg[c] EXCEPT !.continuing = Continues(c)]
      <3>2. Continues(c) \in BOOLEAN
        BY DEF Continues
      <3>3. a \in Args /\ a.offset = arg[c].offset /\ a.continuing = Continues(c)
        BY <1>1, <3>2 DEF Args
      <3>4. Continues(c) => \E s \in Synths : <<s, arg[c].offset>> \in ends
        BY DEF Continues, AtItsEnd
      <3> HIDE DEF a
      <3>5. arg' = [arg EXCEPT ![c] = a]
        BY <3>1 DEF a
      <3> QED BY <1>1, <2>3, <3>3, <3>4, <3>5 DEF Resolved, Sound
    <2> QED BY <2>1, <2>2, <2>3 DEF FileOwnerSays, FileDropped
  <1>4. FileTypeOK'
    BY <1>1, <1>2, <1>3 DEF FileTypeOK, Size
  <1>5. ASSUME NEW d \in Chunks PROVE Sound(d)'
    <2>1. CASE d # c
      BY <1>1, <1>2, <1>3, <2>1 DEF Sound
    <2>2. CASE d = c
      <3>1. place'[c] > 0 => arg'[c] = arg[c] /\ chunk'[c] = "over"
        BY <1>1, <1>2, <1>3 DEF Sound
      <3> QED BY <1>1, <1>2, <1>3, <2>2, <3>1 DEF Sound
    <2> QED BY <2>1, <2>2
  <1>6. ASSUME NEW d \in Chunks PROVE Undisturbed(d)'
    BY <1>1, <1>2, <1>3 DEF Undisturbed, Size
  <1> QED BY <1>1, <1>4, <1>5, <1>6

\* Measuring clashes with whoever is at the file; it finds the size an append
\* was sent for.
LEMMA MeasureKeeps == ASSUME FInv, NEW c \in Chunks, Measure(c) PROVE FInv'
  <1> USE DEF FInv
  <1>1. /\ chunk \in [Chunks -> FileAwaits \cup {"idle", "over"}] /\ chunk[c] = "measure"
        /\ arg' = arg /\ file' = file /\ there' = there /\ noted' = noted /\ place' = place /\ ends' = ends
        /\ asksWrite' = asksWrite
        /\ clashed' = (clashed \/ \E d \in Chunks \ {c} : chunk[d] \in AtFile)
        /\ chunk' = [chunk EXCEPT ![c] = IF OffsetFits(c) THEN "open" ELSE "over"]
    BY DEF FileTypeOK, Measure, disc, Clash, ChunkGoes
  <1>2. FileTypeOK'
    BY <1>1 DEF FileTypeOK, Size, FileAwaits
  <1>3. ~clashed' => ~clashed /\ \A d \in Chunks \ {c} : chunk[d] \notin {"open", "write"}
    BY <1>1 DEF AtFile
  <1>4. ASSUME NEW d \in Chunks PROVE Sound(d)'
    BY <1>1, <1>3 DEF Sound, OffsetFits
  <1>5. ASSUME NEW d \in Chunks PROVE Undisturbed(d)'
    BY <1>1, <1>3 DEF Undisturbed, OffsetFits, Size
  <1> QED BY <1>1, <1>2, <1>4, <1>5

\* Only the handle that is alone empties the file, unless there was a clash.
LEMMA OpenKeeps == ASSUME FInv, NEW c \in Chunks, Open(c) PROVE FInv'
  <1> USE TransfersAssumption DEF TransfersAssumption, FInv
  <1>1. /\ chunk \in [Chunks -> FileAwaits \cup {"idle", "over"}] /\ chunk[c] = "open"
        /\ arg' = arg /\ noted' = noted /\ place' = place /\ ends' = ends /\ clashed' = clashed
        /\ asksWrite' = asksWrite
        /\ \/ chunk' = [chunk EXCEPT ![c] = "over"] /\ UNCHANGED disc
           \/ /\ chunk' = [chunk EXCEPT ![c] = "write"]
              /\ IF arg[c].mode # "append" THEN there' = TRUE /\ file' = <<>> ELSE UNCHANGED disc
    BY DEF FileTypeOK, Open, history, ChunkGoes
  <1>2. FileTypeOK'
    <2>1. file' \in Seq(Chunks \cup {Foreign}) /\ Len(file') <= MaxFile /\ there' \in BOOLEAN
      <3>1. CASE UNCHANGED disc
        BY <3>1 DEF FileTypeOK, Size, disc
      <3>2. CASE there' = TRUE /\ file' = <<>>
        BY <3>2, EmptySeq
      <3> QED BY <1>1, <3>1, <3>2
    <2>2. chunk' \in [Chunks -> FileAwaits \cup {"idle", "over"}]
      BY <1>1 DEF FileAwaits
    <2> QED BY <1>1, <2>1, <2>2 DEF FileTypeOK, Size
  <1>3. ASSUME NEW d \in Chunks PROVE Sound(d)'
    BY <1>1 DEF Sound
  <1>4. ASSUME NEW d \in Chunks PROVE Undisturbed(d)'
    BY <1>1 DEF Undisturbed, Size, disc
  <1> QED BY <1>1, <1>2, <1>3, <1>4

\* What is written undisturbed is written where it was measured.
LEMMA WriteKeeps == ASSUME FInv, NEW c \in Chunks, Write(c) PROVE FInv'
  <1> USE TransfersAssumption DEF TransfersAssumption, FInv
  <1>1. /\ chunk \in [Chunks -> FileAwaits \cup {"idle", "over"}] /\ chunk[c] = "write"
        /\ arg' = arg /\ noted' = noted /\ ends' = ends /\ clashed' = clashed /\ there' = there
        /\ asksWrite' = asksWrite
        /\ chunk' = [chunk EXCEPT ![c] = "flush"]
        /\ file \in Seq(Chunks \cup {Foreign}) /\ Len(file) <= MaxFile /\ place \in [Chunks -> 0 .. MaxFile]
    BY DEF FileTypeOK, Write, ChunkGoes, Sizes, Size
  <1> DEFINE at == IF arg[c].mode = "append" THEN Size + 1 ELSE 1
  <1>2. /\ file' \in Seq(Chunks \cup {Foreign}) /\ Len(file') <= MaxFile
        /\ place' = [place EXCEPT ![c] = at] /\ at \in 1 .. MaxFile
    <2>1. CASE arg[c].mode = "append"
      <3>1. file' = Append(file, c) /\ place' = [place EXCEPT ![c] = Size + 1] /\ Len(file) < MaxFile
        BY <2>1 DEF Write, Size
      <3>2. file' \in Seq(Chunks \cup {Foreign}) /\ Len(file') = Len(file) + 1
        BY <1>1, <3>1, Appended
      <3>3. Len(file) \in Nat
        BY <1>1, LenProperties
      <3>4. Size + 1 \in 1 .. MaxFile
        BY <3>1, <3>3 DEF Size
      <3> QED BY <2>1, <3>1, <3>2, <3>3, <3>4
    <2>2. CASE arg[c].mode # "append"
      <3>1. /\ file' = IF file = <<>> THEN <<c>> ELSE [file EXCEPT ![1] = c]
            /\ place' = [place EXCEPT ![c] = 1]
        BY <2>2 DEF Write
      <3>2. file' \in Seq(Chunks \cup {Foreign}) /\ Len(file') <= MaxFile
        <4>1. c \in Chunks \cup {Foreign} /\ MaxFile \in Nat \ {0}
          OBVIOUS
        <4>2. /\ (IF file = <<>> THEN <<c>> ELSE [file EXCEPT ![1] = c]) \in Seq(Chunks \cup {Foreign})
              /\ Len(IF file = <<>> THEN <<c>> ELSE [file EXCEPT ![1] = c]) <= MaxFile
          BY <1>1, <4>1, Overwritten
        <4> QED BY <3>1, <4>2
      <3> QED BY <2>2, <3>1, <3>2
    <2> QED BY <2>1, <2>2
  <1>3. FileTypeOK'
    BY <1>1, <1>2 DEF FileTypeOK, Size, Sizes, FileAwaits
  <1>4. ~clashed => (arg[c].mode = "append" => arg[c].offset = Size) /\ \A d \in Chunks \ {c} : chunk[d] \notin {"open", "write"}
    BY <1>1 DEF Undisturbed
  <1>5. ASSUME NEW d \in Chunks PROVE Sound(d)'
    <2>1. CASE d # c
      BY <1>1, <1>2, <2>1 DEF Sound
    <2>2. CASE d = c
      <3>1. ~clashed => place'[c] = arg[c].offset + 1
        BY <1>1, <1>2, <1>4 DEF Sound
      <3> QED BY <1>1, <2>2, <3>1 DEF Sound
    <2> QED BY <2>1, <2>2
  <1>6. ASSUME NEW d \in Chunks PROVE Undisturbed(d)'
    BY <1>1, <1>4 DEF Undisturbed
  <1> QED BY <1>1, <1>3, <1>5, <1>6

\* The size that is noted is the size an allowed chunk left.
LEMMA FlushedKeeps == ASSUME FInv, NEW c \in Chunks, Flushed(c) PROVE FInv'
  <1> USE TransfersAssumption DEF TransfersAssumption, FInv
  <1>1. /\ chunk \in [Chunks -> FileAwaits \cup {"idle", "over"}] /\ chunk[c] = "flush"
        /\ arg' = arg /\ file' = file /\ there' = there /\ clashed' = clashed /\ place' = place
        /\ asksWrite' = asksWrite
        /\ chunk' = [chunk EXCEPT ![c] = "over"]
        /\ ends' = ends \cup {<<arg[c].synth, SizeAfter(c)>>}
        /\ noted' \in {noted, {SizeAfter(c)}}
    BY DEF FileTypeOK, Flushed, disc, ChunkGoes
  <1>2. arg[c].synth \in Synths /\ SizeAfter(c) \in Sizes
    <2>1. arg[c] \in Args /\ arg[c].offset < MaxFile
      BY DEF FileTypeOK, Sound
    <2> QED BY <2>1 DEF Args, Sizes, SizeAfter
  <1>3. FileTypeOK'
    <2>1. noted' \in {{}} \cup {{n} : n \in Sizes} /\ ends' \subseteq Synths \X Sizes
      BY <1>1, <1>2 DEF FileTypeOK
    <2> QED BY <1>1, <2>1 DEF FileTypeOK, Size, FileAwaits
  <1>4. \A n \in noted' : \E s \in Synths : <<s, n>> \in ends'
    BY <1>1, <1>2
  <1>5. ASSUME NEW d \in Chunks PROVE Sound(d)'
    BY <1>1 DEF Sound
  <1>6. ASSUME NEW d \in Chunks PROVE Undisturbed(d)'
    BY <1>1 DEF Undisturbed, Size
  <1> QED BY <1>3, <1>4, <1>5, <1>6

LEMMA FilesRest == ASSUME FInv, UNCHANGED fileVars PROVE FInv'
  BY DEF FInv, fileVars, disc, FileTypeOK, Sound, Undisturbed, Size

LEMMA FilesKeep == ASSUME FInv, [FileNext]_fileVars PROVE FInv'
  <1>1. CASE Forgotten
    BY <1>1 DEF FInv, Forgotten, FileTypeOK, Sound, Undisturbed, Size, disc, history
  <1>2. CASE OtherProgram
    <2>1. /\ UNCHANGED <<asksWrite, chunk, arg, noted, place, ends>>
          /\ clashed' = (clashed \/ \E c \in Chunks : chunk[c] \in AtFile)
      BY <1>2 DEF OtherProgram
    <2>2. file' \in Seq(Chunks \cup {Foreign}) /\ Len(file') <= MaxFile /\ there' \in BOOLEAN
      <3>1. file \in Seq(Chunks \cup {Foreign}) /\ MaxFile \in Nat
        BY TransfersAssumption DEF TransfersAssumption, FInv, FileTypeOK
      <3>2. CASE there /\ there' \in BOOLEAN /\ file' = <<>>
        BY <3>1, <3>2, EmptySeq
      <3>3. CASE Size < MaxFile /\ there' = TRUE /\ file' = Append(file, Foreign)
        <4>1. Foreign \in Chunks \cup {Foreign}
          OBVIOUS
        <4>2. file' \in Seq(Chunks \cup {Foreign}) /\ Len(file') = Len(file) + 1
          BY <3>1, <3>3, <4>1, Appended
        <4> QED BY <3>1, <3>3, <4>2, LenProperties DEF Size
      <3> QED BY <1>2, <3>2, <3>3 DEF OtherProgram
    <2>3. FileTypeOK' /\ \A n \in noted' : \E s \in Synths : <<s, n>> \in ends'
      BY <2>1, <2>2 DEF FInv, FileTypeOK, Size
    <2>4. ASSUME NEW c \in Chunks PROVE Sound(c)' /\ Undisturbed(c)'
      BY <2>1 DEF FInv, Sound, Undisturbed, AtFile, Size
    <2> QED BY <2>3, <2>4 DEF FInv
  <1>3. CASE AskOnWrite
    BY <1>3 DEF FInv, AskOnWrite, FileTypeOK, Sound, Undisturbed, Size, disc, history
  <1>4. CASE UNCHANGED fileVars
    BY <1>4, FilesRest
  <1> QED BY <1>1, <1>2, <1>3, <1>4, GateKeeps, MeasureKeeps, OpenKeeps, WriteKeeps, FlushedKeeps DEF FileNext

LEMMA ChunksAreInPlace == FInv => ChunksInPlace
  BY DEF FInv, Sound, ChunksInPlace, UnaskedContinues, AppendInPlace, Unasked

-----------------------------------------------------------------------------
(* All three kinds of behaviour.                                           *)

SafeInv == SInv /\ NInv /\ FInv

LEMMA StreamsStart == Init => SafeInv
  BY ShellStarts, NetStarts, FilesStart DEF Init, SafeInv

LEMMA StreamsKeep == SafeInv /\ [Next]_vars => SafeInv'
  <1> SUFFICES ASSUME SafeInv, [Next]_vars PROVE SafeInv'
    OBVIOUS
  <1> USE DEF SafeInv
  <1>1. CASE ShellStep
    BY <1>1, ShellKeeps, NetRests, FilesRest DEF ShellStep
  <1>2. CASE NetStep
    <2>1. NInv' /\ FInv'
      BY <1>2, NetKeeps, FilesRest DEF NetStep
    <2>2. PauseTypeOK'
      <3>1. PauseTypeOK
        BY DEF SInv, ShellTypeOK
      <3>2. CASE Restart
        BY <3>1, <3>2 DEF Restart, PauseTypeOK
      <3>3. CASE ~Restart
        <4>1. PauseFlag \/ PauseStops \/ PauseNudges \/ Resume \/ LinkSees \/ UNCHANGED pauseVars
          BY <1>2, <3>3 DEF NetStep, NetNext, ConnTask, NetAllows, NetOwnerSays, Dialed, Reopen, ChunkUp, SynthCloses,
                ChunkRead, ChunkTaken, TargetCloses, PumpReturns, Stalled, PumpFails, ConnDropped, AddEgress, FlushTakes,
                FlushWrites, NewMonth, NetLinkSees, NetOwner, NetPauseGoesOn
        <4> QED BY <3>1, <4>1, PauseKeeps
      <3> QED BY <3>2, <3>3
    <2> QED BY <1>2, <2>1, <2>2, ShellRests DEF NetStep
  <1>3. CASE FileStep
    <2>1. PauseTypeOK'
      BY <1>3 DEF FileStep, SInv, ShellTypeOK, PauseTypeOK, pauseVars
    <2> QED BY <1>3, <2>1, FilesKeep, ShellRests, NetRests DEF FileStep
  <1>4. CASE UNCHANGED vars
    <2>1. UNCHANGED shellVars /\ UNCHANGED ownNet /\ UNCHANGED fileVars
      BY <1>4 DEF vars, ownShell, shellVars
    <2> QED BY <2>1, ShellKeeps, NetRests, FilesRest
  <1> QED BY <1>1, <1>2, <1>3, <1>4 DEF Next

LEMMA StreamsAlways == Spec => []SafeInv
  BY StreamsStart, StreamsKeep, PTL DEF Spec

\* For any commands, streams, calls and bounds: no process of a command
\* outlives the task that watches it, and nothing of a group that was killed
\* is left, whatever the owner, the link and the command did in between
\* (shell.rs, Tree, kill_on_drop).
THEOREM NothingIsLeftBehind == Spec => []NothingLeftBehind
  <1>1. SafeInv => NothingLeftBehind
    BY NetIsTyped DEF SafeInv, SInv, FInv, ShellTypeOK, Tidy, NothingLeftBehind, StreamsTypeOK, NoOrphan, TreeIsGone
  <1> QED BY <1>1, StreamsAlways, PTL

\* For any streams, cap and threshold: as long as flushes do not overlap the
\* file is behind the month's count by what is unsaved, and that is less than
\* a flush (core.rs, add_egress, flush_egress).
THEOREM CrashesLoseLittle == Spec => []CrashLosesLittle
  <1>1. SafeInv => CrashLosesLittle
    BY BooksAddUp DEF SafeInv
  <1> QED BY <1>1, StreamsAlways, PTL

\* For any number of calls at one file: the chunk the owner was not asked for
\* continues one they allowed, and calls that do not clash append where they
\* were sent for (rpc.rs, Transfers; files.rs, write).
THEOREM EveryChunkInPlace == Spec => []ChunksInPlace
  <1>1. SafeInv => ChunksInPlace
    BY ChunksAreInPlace DEF SafeInv
  <1> QED BY <1>1, StreamsAlways, PTL
=============================================================================
