----------------------------- MODULE Approvals -----------------------------
(***************************************************************************)
(* Asking the owner and remembering the answer: `Shared::ask_scoped`,      *)
(* `persist_grants`, `revoke` and `wipe_slot` (core.rs), the grant store   *)
(* (grant.rs) and the approval queue of the app (app/src-tauri,            *)
(* approvals.rs, actions.rs, commands.rs).                                 *)
(*                                                                         *)
(* An ask is made by a stream of a synth, waits in the owner's window, and *)
(* is answered, timed out or denied with everything else that waits.  A    *)
(* task of its own records the answer and mirrors the grants to disk; it   *)
(* outlives the stream that asked.  `persist_grants` reads the list under  *)
(* one lock and writes it under another, so two writers overlap; the owner *)
(* revokes, pauses and unlinks meanwhile, and the app may die at any step. *)
(*                                                                         *)
(* A grant is `until` as in GrantRow: 0 for ever, -1 for this session,     *)
(* otherwise the second it ends.                                           *)
(***************************************************************************)
EXTENDS Integers, FiniteSets

CONSTANTS Synths, Scopes,
          Asks,          \* the asks made, each once
          Owner,         \* the owner's revoke command, the other writer
          AskKey,        \* Asks -> Keys: who asks, and for what
          AskRemember,   \* Asks -> what may be remembered (grant.rs, Remember)
          AskAhead,      \* the asks that come as permission.request
          OneByOne,      \* the scopes of the owner's apps and of the shell
          MaxTime        \* bound on the clock

Keys == Synths \X Scopes
Persisters == Asks \cup {Owner}

ASSUME AskAssumption ==
    /\ AskKey \in [Asks -> Keys]
    /\ AskRemember \in [Asks -> {"any", "always", "never"}]
    /\ AskAhead \in SUBSET Asks /\ OneByOne \in SUBSET Scopes
    /\ \A a \in AskAhead : AskRemember[a] = "any"
    /\ Owner \notin Asks
    /\ MaxTime \in Nat

VARIABLES
    now,      \* the clock
    grants,   \* GrantStore
    disk,     \* Persisted.grants, in memory and in the file alike
    links,    \* the synths with a slot
    paired,   \* Persisted.identities
    tokens,   \* the synths whose token is in the secret store
    wiping,   \* synths in the middle of wipe_slot
    task,     \* where the task of each ask stands
    ans,      \* the answer to each ask
    yes,      \* history: the asks the owner said yes to
    caller,   \* where the stream that asked stands
    list,     \* what persist_grants has read, per writer
    revoking, \* where the revoke command stands
    revoked,  \* history: grants taken back, by the owner or with a synth, and not given again since
    overtaken, \* history: those that were on their way when they were taken back
    halted, pausing  \* the owner's pause, and between its two steps

linkVars == <<links, paired, tokens, wiping>>
takenVars == <<revoked, overtaken>>
revokeVars == <<revoking, takenVars>>
pauseVars == <<halted, pausing>>
approvalVars == <<now, grants, disk, linkVars, task, ans, yes, caller, list, revokeVars, pauseVars>>

NoGrant == -2
Session == -1
Always == 0
Deny == -4
Once == -3
NoAnswer == -5

Untils == {NoGrant, Session, Always} \cup 1 .. MaxTime
Answers == {Deny, Once, Session, Always} \cup 1 .. MaxTime
NoGrants == [k \in Keys |-> NoGrant]

TypeOK ==
    /\ now \in 0 .. MaxTime
    /\ grants \in [Keys -> Untils]
    /\ disk \in [Keys -> Untils \ {Session}]
    /\ links \in SUBSET Synths /\ paired \in SUBSET Synths
    /\ tokens \in SUBSET Synths /\ wiping \in SUBSET Synths
    /\ task \in [Asks -> {"idle", "checked", "window", "answered", "recorded", "listed", "done"}]
    /\ ans \in [Asks -> Answers \cup {NoAnswer}]
    /\ yes \in SUBSET Asks
    /\ caller \in [Asks -> {"idle", "waiting", "granted", "allowed", "denied", "gone"}]
    /\ list \in [Persisters -> [Keys -> Untils \ {Session}]]
    /\ revoking \in {"idle", "revoked", "listed"}
    /\ revoked \in SUBSET Keys /\ overtaken \in SUBSET Keys
    /\ halted \in BOOLEAN /\ pausing \in BOOLEAN

ApprovalsInit ==
    /\ now = 0
    /\ grants = NoGrants /\ disk = NoGrants
    /\ links = Synths /\ paired = Synths /\ tokens = Synths /\ wiping = {}
    /\ task = [a \in Asks |-> "idle"]
    /\ ans = [a \in Asks |-> NoAnswer]
    /\ yes = {}
    /\ caller = [a \in Asks |-> "idle"]
    /\ list = [p \in Persisters |-> NoGrants]
    /\ revoking = "idle" /\ revoked = {} /\ overtaken = {}
    /\ halted = FALSE /\ pausing = FALSE

-----------------------------------------------------------------------------
(* grant.rs.                                                               *)

Live(u) == u \in {Session, Always} \/ u > now

\* Remember::allows
RememberAllows(r, d) == d = Once \/ r = "any" \/ (r = "always" /\ d = Always)

\* Mutant of Record: the answer is an answer to every synth.
RecordForAll(key, approval) ==
    grants' = IF approval \in {Deny, Once} THEN grants
              ELSE [k \in Keys |-> IF k[2] = key[2] THEN approval ELSE grants[k]]

\* GrantStore::record
Record(key, approval) ==
    grants' = IF approval \in {Deny, Once} THEN grants ELSE [grants EXCEPT ![key] = approval]

\* Mutant of Durable: the session grants are written, too.
DurableAll == [k \in Keys |-> IF Live(grants[k]) THEN grants[k] ELSE NoGrant]

\* GrantStore::list as persist_grants filters it: live, and not for the session.
Durable == [k \in Keys |-> IF grants[k] # Session /\ Live(grants[k]) THEN grants[k] ELSE NoGrant]

\* Core::new restores what is on disk and not over, for the synths it links.
Restored(linked) ==
    [k \in Keys |-> IF k[1] \in linked /\ Live(disk[k]) THEN disk[k] ELSE NoGrant]

\* GrantStore::clear_synth, and the same on Persisted.grants
Without(g, s) == [k \in Keys |-> IF k[1] = s THEN NoGrant ELSE g[k]]

\* An answer that is recorded later and outlives its ask.
Lasts(approval) == approval \notin {Deny, Once, NoAnswer}

\* On its way to the store or to the disk: answered and not recorded yet, or read by a
\* writer that did not write yet.
OnItsWay(k) ==
    \/ \E p \in Persisters : list[p][k] # NoGrant
    \/ \E a \in Asks : task[a] = "answered" /\ AskKey[a] = k /\ Lasts(ans[a])

\* The history of what is taken back (what there was of it), and of what is given: again,
\* or to a synth that is not linked any more.
TakenBack(keys) ==
    LET gone == {k \in keys : grants[k] # NoGrant \/ disk[k] # NoGrant}
    IN /\ revoked' = revoked \cup gone
       /\ overtaken' = (overtaken \ gone) \cup {k \in gone : OnItsWay(k)}

Given(k, approval) ==
    IF ~Lasts(approval) \/ k \notin revoked THEN UNCHANGED takenVars
    ELSE IF k[1] \in links THEN revoked' = revoked \ {k} /\ overtaken' = overtaken \ {k}
    ELSE revoked' = revoked /\ overtaken' = overtaken \cup {k}

-----------------------------------------------------------------------------
(* A stream asks.                                                          *)

\* Mutant of MayAskAhead: permission.request may ask for anything.
AskAnythingAhead(a) == TRUE

\* permission.request is refused for what the owner is asked one by one.
MayAskAhead(a) == AskKey[a][2] \notin OneByOne

\* Where the stream goes on: a handler that finds a live grant needs no
\* answer; permission.request always asks.
Check(a) ==
    /\ caller[a] = "idle"
    /\ AskKey[a][1] \in links /\ ~halted
    /\ \/ /\ a \in AskAhead /\ ~MayAskAhead(a)
          /\ caller' = [caller EXCEPT ![a] = "denied"]
          /\ UNCHANGED task
       \/ /\ a \notin AskAhead /\ AskRemember[a] # "never" /\ Live(grants[AskKey[a]])
          /\ caller' = [caller EXCEPT ![a] = "granted"]
          /\ UNCHANGED task
       \/ /\ \/ a \in AskAhead /\ MayAskAhead(a)
             \/ a \notin AskAhead /\ (AskRemember[a] = "never" \/ ~Live(grants[AskKey[a]]))
          /\ caller' = [caller EXCEPT ![a] = "waiting"]
          /\ task' = [task EXCEPT ![a] = "checked"]
    /\ UNCHANGED <<now, yes, grants, disk, linkVars, ans, list, revokeVars, pauseVars>>

\* Approver::ask puts it in the queue; the task that waits is spawned.
Ask(a) ==
    /\ task[a] = "checked"
    /\ task' = [task EXCEPT ![a] = "window"]
    /\ UNCHANGED <<now, yes, grants, disk, linkVars, ans, caller, list, revokeVars,
                   pauseVars>>

\* The answer as the task takes it: what may not be remembered is "this time".
Clamped(a, approval) ==
    IF approval # Deny /\ ~RememberAllows(AskRemember[a], approval) THEN Once ELSE approval

Answered(a, approval) ==
    /\ task' = [task EXCEPT ![a] = "answered"]
    /\ ans' = [ans EXCEPT ![a] = Clamped(a, approval)]

\* approval_answer: the owner decides ("hours" ends after now).
OwnerAnswers(a, approval) ==
    /\ task[a] = "window"
    /\ approval \in 1 .. MaxTime => approval > now
    /\ Answered(a, approval)
    /\ yes' = IF approval = Deny THEN yes ELSE yes \cup {a}
    /\ Given(AskKey[a], Clamped(a, approval))
    /\ UNCHANGED <<now, grants, disk, linkVars, caller, list, revoking, pauseVars>>

\* Mutant of ApproverTimesOut: no answer counts as "this time".
ApproverLetsThrough(a) ==
    /\ task[a] = "window"
    /\ Answered(a, Once)
    /\ UNCHANGED <<now, yes, grants, disk, linkVars, caller, list, revokeVars, pauseVars>>

\* UiApprover: no answer in time takes the request off the screen.
ApproverTimesOut(a) ==
    /\ task[a] = "window"
    /\ Answered(a, Deny)
    /\ UNCHANGED <<now, yes, grants, disk, linkVars, caller, list, revokeVars, pauseVars>>

InQueue == {a \in Asks : task[a] = "window"}

\* Approvals::deny_all
DenyAll ==
    /\ task' = [a \in Asks |-> IF a \in InQueue THEN "answered" ELSE task[a]]
    /\ ans' = [a \in Asks |-> IF a \in InQueue THEN Deny ELSE ans[a]]

\* The owner closes the approval window.
CloseWindow ==
    /\ InQueue # {}
    /\ DenyAll
    /\ UNCHANGED <<now, yes, grants, disk, linkVars, caller, list, revokeVars, pauseVars>>

\* The spawned task: record, then persist_grants (a read and a write), then
\* the answer goes to the stream, if it still waits.
TaskRecords(a) ==
    /\ task[a] = "answered"
    /\ Record(AskKey[a], ans[a])
    /\ task' = [task EXCEPT ![a] = "recorded"]
    /\ UNCHANGED <<now, yes, disk, linkVars, ans, caller, list, revokeVars, pauseVars>>

TaskLists(a) ==
    /\ task[a] = "recorded"
    /\ list' = [list EXCEPT ![a] = Durable]
    /\ task' = [task EXCEPT ![a] = "listed"]
    /\ UNCHANGED <<now, yes, grants, disk, linkVars, ans, caller, revokeVars, pauseVars>>

TaskWrites(a) ==
    /\ task[a] = "listed"
    /\ disk' = list[a]
    /\ list' = [list EXCEPT ![a] = NoGrants]
    /\ task' = [task EXCEPT ![a] = "done"]
    /\ caller' = IF caller[a] # "waiting" THEN caller
                 ELSE [caller EXCEPT ![a] = IF ans[a] = Deny THEN "denied" ELSE "allowed"]
    /\ UNCHANGED <<now, yes, grants, linkVars, ans, revokeVars, pauseVars>>

\* Mutant of CoreTimesOut: the wait is not bounded.
CoreWaits(a) == FALSE /\ UNCHANGED approvalVars

\* APPROVAL_TIMEOUT in ask_scoped.
CoreTimesOut(a) ==
    /\ caller[a] = "waiting" /\ task[a] # "checked"
    /\ caller' = [caller EXCEPT ![a] = "denied"]
    /\ UNCHANGED <<now, yes, grants, disk, linkVars, task, ans, list, revokeVars, pauseVars>>

\* The stream is aborted (a pause, a dropped link); the task goes on.
StreamAborted(a) ==
    /\ caller[a] = "waiting" /\ task[a] # "checked"
    /\ caller' = [caller EXCEPT ![a] = "gone"]
    /\ UNCHANGED <<now, yes, grants, disk, linkVars, task, ans, list, revokeVars, pauseVars>>

-----------------------------------------------------------------------------
(* The owner's commands.                                                   *)

\* Core::revoke: the store first, then persist_grants.
Revoke(k) ==
    /\ revoking = "idle"
    /\ grants[k] # NoGrant
    /\ grants' = [grants EXCEPT ![k] = NoGrant]
    /\ TakenBack({k})
    /\ revoking' = "revoked"
    /\ UNCHANGED <<now, yes, disk, linkVars, task, ans, caller, list, pauseVars>>

RevokeLists ==
    /\ revoking = "revoked"
    /\ list' = [list EXCEPT ![Owner] = Durable]
    /\ revoking' = "listed"
    /\ UNCHANGED <<now, yes, grants, disk, linkVars, task, ans, caller, takenVars, pauseVars>>

RevokeWrites ==
    /\ revoking = "listed"
    /\ disk' = list[Owner]
    /\ list' = [list EXCEPT ![Owner] = NoGrants]
    /\ revoking' = "idle"
    /\ UNCHANGED <<now, yes, grants, linkVars, task, ans, caller, takenVars, pauseVars>>

\* actions::pause: what waits is denied, then the core is paused.
PauseDenies ==
    /\ ~halted /\ ~pausing
    /\ pausing' = TRUE
    /\ DenyAll
    /\ UNCHANGED <<now, yes, grants, disk, linkVars, caller, list, revokeVars, halted>>

PauseSets ==
    /\ pausing
    /\ pausing' = FALSE /\ halted' = TRUE
    /\ UNCHANGED <<now, yes, grants, disk, linkVars, task, ans, caller, list, revokeVars>>

Resume ==
    /\ halted
    /\ halted' = FALSE
    /\ UNCHANGED <<now, yes, grants, disk, linkVars, task, ans, caller, list, revokeVars,
                   pausing>>

\* wipe_slot, in memory: the token, the grants and the slot go.
WipeMemory(s) ==
    /\ s \in links
    /\ tokens' = tokens \ {s}
    /\ grants' = Without(grants, s)
    /\ links' = links \ {s}
    /\ wiping' = wiping \cup {s}
    /\ TakenBack({s} \X Scopes)
    /\ UNCHANGED <<now, yes, disk, paired, task, ans, caller, list, revoking, pauseVars>>

\* Mutant of WipeDisk: the pairing goes, the grants stay.
WipesPairing(s, byOwner) ==
    /\ s \in wiping
    /\ paired' = paired \ {s}
    /\ wiping' = wiping \ {s}
    /\ IF byOwner /\ links = {}
         THEN DenyAll /\ halted' = FALSE
         ELSE UNCHANGED <<task, ans, halted>>
    /\ UNCHANGED <<now, yes, grants, disk, links, tokens, caller, list, revokeVars, pausing>>

\* ... and on disk.  When the owner unlinked and no link is left, what
\* waits is denied and a pause ends (after_last_link).
WipeDisk(s, byOwner) ==
    /\ s \in wiping
    /\ disk' = Without(disk, s)
    /\ paired' = paired \ {s}
    /\ wiping' = wiping \ {s}
    /\ IF byOwner /\ links = {}
         THEN DenyAll /\ halted' = FALSE
         ELSE UNCHANGED <<task, ans, halted>>
    /\ UNCHANGED <<now, yes, grants, links, tokens, caller, list, revokeVars, pausing>>

\* wipe_local, once every slot is wiped: whatever is left goes, too.
WipeRest ==
    /\ links \cup wiping = {}
    /\ grants' = NoGrants /\ disk' = NoGrants /\ paired' = {}
    /\ halted' = FALSE
    /\ TakenBack(Keys)
    /\ UNCHANGED <<now, links, tokens, wiping, task, ans, yes, caller, list, revoking,
                   pausing>>

\* The synth is paired again (add_link).
Pair(s) ==
    /\ s \notin links \cup wiping
    /\ tokens' = tokens \cup {s}
    /\ paired' = paired \cup {s}
    /\ links' = links \cup {s}
    /\ UNCHANGED <<now, yes, grants, disk, wiping, task, ans, caller, list, revokeVars,
                   pauseVars>>

-----------------------------------------------------------------------------
\* The app dies and starts again: Core::new links the stored pairings whose
\* token is there.  The asks and the commands in flight are lost: one cut short
\* promises nothing, so what the disk still has is not taken back any more.
Restart ==
    /\ links' = paired \cap tokens
    /\ grants' = Restored(paired \cap tokens)
    /\ wiping' = {}
    /\ task' = [a \in Asks |-> IF task[a] = "idle" THEN "idle" ELSE "done"]
    /\ caller' = [a \in Asks |-> IF caller[a] = "waiting" THEN "gone" ELSE caller[a]]
    /\ list' = [p \in Persisters |-> NoGrants]
    /\ revoking' = "idle"
    /\ revoked' = {k \in revoked : disk[k] = NoGrant}
    /\ overtaken' = {k \in overtaken : disk[k] = NoGrant}
    /\ pausing' = FALSE
    /\ UNCHANGED <<now, yes, disk, paired, tokens, ans, halted>>

Tick ==
    /\ now < MaxTime
    /\ now' = now + 1
    /\ UNCHANGED <<yes, grants, disk, linkVars, task, ans, caller, list, revokeVars,
                   pauseVars>>

TaskStep(a) == TaskRecords(a) \/ TaskLists(a) \/ TaskWrites(a)

ApprovalsNext ==
    \/ \E a \in Asks :
          \/ Check(a) \/ Ask(a) \/ ApproverTimesOut(a)
          \/ \E approval \in Answers : OwnerAnswers(a, approval)
          \/ TaskRecords(a) \/ TaskLists(a) \/ TaskWrites(a)
          \/ CoreTimesOut(a) \/ StreamAborted(a)
    \/ \E k \in Keys : Revoke(k)
    \/ RevokeLists \/ RevokeWrites
    \/ CloseWindow \/ PauseDenies \/ PauseSets \/ Resume
    \/ \E s \in Synths :
          \/ WipeMemory(s) \/ Pair(s)
          \/ \E byOwner \in BOOLEAN : WipeDisk(s, byOwner)
    \/ WipeRest \/ Restart \/ Tick

ApprovalsSpec == ApprovalsInit /\ [][ApprovalsNext]_approvalVars

\* A task that can go on is polled, and timers fire.
ApprovalsFairness ==
    \A a \in Asks :
        /\ WF_approvalVars(Ask(a)) /\ WF_approvalVars(TaskStep(a))
        /\ WF_approvalVars(CoreTimesOut(a))

TimedSpec == ApprovalsSpec /\ ApprovalsFairness

-----------------------------------------------------------------------------
(* Properties.                                                             *)

\* What the owner said to one ask: for that synth and scope, for that long,
\* and only as long as such an ask may be remembered; nothing that is asked
\* one by one was allowed ahead of time.
OwnerGave(k, u) ==
    \E a \in Asks :
        /\ a \in yes /\ AskKey[a] = k /\ ans[a] = u
        /\ AskRemember[a] = "any" \/ (AskRemember[a] = "always" /\ u = Always)
        /\ a \in AskAhead => k[2] \notin OneByOne

\* Every grant, in the store, in a list about to be written, on disk and
\* back after a restart, is one the owner gave to that very synth for that
\* very scope and duration, whatever was revoked, unlinked or restarted in
\* between (GrantStore, persist_grants, Core::new).
OwnersWord ==
    \A k \in Keys :
        /\ grants[k] # NoGrant => OwnerGave(k, grants[k])
        /\ disk[k] # NoGrant => OwnerGave(k, disk[k])
        /\ \A p \in Persisters : list[p][k] # NoGrant => OwnerGave(k, list[p][k])

\* What was taken back, by the owner or with its synth, comes back neither to the store
\* nor, once the command is over, to the disk, unless the owner gives it again, or an
\* answer or a list that was on its way overtook the command (revoke, wipe_slot,
\* wipe_local, persist_grants).
TakenBackStaysOff ==
    \A k \in revoked \ overtaken :
        /\ grants[k] = NoGrant
        /\ revoking = "idle" /\ k[1] \notin wiping => disk[k] = NoGrant

\* No answer is a refusal: a stream that waited goes on only on a "yes" to
\* its own ask, however the two timers, the queue and a pause interleave.
NoAnswerIsRefusal ==
    \A a \in Asks : caller[a] = "allowed" => a \in yes

\* What the two above rest on: an answer comes once and stays, one other than
\* "no" is the owner's and fits what may be remembered, and nothing that is
\* asked one by one is in the window ahead of time.
AnswerDiscipline ==
    \A a \in Asks :
        /\ caller[a] = "idle" => task[a] = "idle"
        /\ task[a] \in {"idle", "checked", "window"} => ans[a] = NoAnswer
        /\ task[a] \in {"answered", "recorded", "listed"} => ans[a] # NoAnswer
        /\ ans[a] \notin {NoAnswer, Deny} => a \in yes /\ RememberAllows(AskRemember[a], ans[a])
        /\ task[a] # "idle" /\ a \in AskAhead => MayAskAhead(a)

\* Every ask is bounded: a stream that waits for the owner gets an answer.
AskBounded == \A a \in Asks : caller[a] = "waiting" ~> caller[a] # "waiting"

\* Where what is asked one by one is asked ahead of time too: every ask is
\* answered, and no answer becomes a grant the owner did not mean.
AsksEnd == AskBounded /\ []OwnersWord

-----------------------------------------------------------------------------
(* Claims of the repository that the code does not keep (README.md, 8).    *)

\* README of connect-core: "`unpair_synth` erases one synth's pairing and
\* grants".  A synth that is not linked, and not being unlinked just now,
\* has no grant, in the store or on disk.
UnlinkErasesGrants ==
    \A k \in Keys : k[1] \notin links \cup wiping => grants[k] = NoGrant /\ disk[k] = NoGrant

\* Core::revoke, "Take back one synth's grant.": one that was taken back, and
\* not given again, is not on disk once the command has returned.
RevokedStaysOff == revoking = "idle" => \A k \in revoked : k[1] \notin wiping => disk[k] = NoGrant

\* approvals.rs: "A request leaves the queue [...] when the owner pauses".
\* While the app is paused nothing waits for the owner.
PauseEmptiesQueue == halted => InQueue = {}
=============================================================================
