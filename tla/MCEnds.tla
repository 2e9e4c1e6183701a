------------------------------- MODULE MCEnds -------------------------------
(***************************************************************************)
(* What must come to an end, for TLC: the question to the owner            *)
(* (Approvals) and the session that drives the computer (Computer); and    *)
(* the move of an old pairing's token, which every start takes up again    *)
(* (TokenMove).  None reads what another keeps, so a behaviour is of one   *)
(* kind and the other variables rest.                                      *)
(*                                                                         *)
(* The command is asked for as the shell does it ("always" is all that is  *)
(* remembered), and ahead of time as permission.request.  Of two sessions  *)
(* one only lists the tools.  The old synth, another to pair meanwhile,    *)
(* and a third.                                                            *)
(***************************************************************************)
EXTENDS TokenMove, Naturals

CONSTANTS a, b, c,               \* synths
          command, a2, a3,       \* what is asked, as the shell does and ahead of time
          d1, d2,                \* sessions
          Owner, Installer, Nobody

VARIABLES
    now, grants, disk, linked, paired, tokens, wiping, task, ans, yes, caller, listed,
    revoking, revoked, overtaken, halted, pausing

VARIABLES
    paused, enabled, mode, choice, pinned, oldThere, held, daemonBin, lock, daemon, alive,
    started, backoff, count, stage, modeAt, want, mine, stop, ensure, cut, late, swept, spared

VARIABLE kind

askVars == <<now, grants, disk, linked, paired, tokens, wiping, task, ans, yes, caller, listed,
             revoking, revoked, overtaken, halted, pausing>>
sessVars == <<paused, enabled, mode, choice, pinned, oldThere, held, daemonBin, lock, daemon,
              alive, started, backoff, count, stage, modeAt, want, mine, stop, ensure, cut, late,
              swept, spared>>

A == INSTANCE Approvals
         WITH links <- linked, list <- listed,
              Synths <- {a, b}, Scopes <- {command}, Asks <- {a2, a3},
              AskKey <- [x \in {a2, a3} |-> <<b, command>>],
              AskRemember <- [x \in {a2, a3} |-> IF x = a2 THEN "always" ELSE "any"],
              AskAhead <- {a3}, OneByOne <- {command}, MaxTime <- 1
D == INSTANCE Computer
         WITH Sessions <- {d1, d2}, Catalog <- {d2}, Updated <- FALSE, MaxChoice <- 0

EndsInit == MoveInit /\ A!ApprovalsInit /\ D!ComputerInit /\ kind \in {"tokens", "asks", "sessions"}

TokenStep == kind = "tokens" /\ MoveNext /\ UNCHANGED <<kind, askVars, sessVars>>
AskStep == kind = "asks" /\ A!ApprovalsNext /\ UNCHANGED <<kind, moveVars, sessVars>>
SessionStep == kind = "sessions" /\ D!ComputerNext /\ UNCHANGED <<kind, moveVars, askVars>>

EndsSpec ==
    /\ EndsInit
    /\ [][TokenStep \/ AskStep \/ SessionStep]_<<kind, moveVars, askVars, sessVars>>
    /\ A!ApprovalsFairness /\ D!ComputerFairness

AsksEnd == A!AsksEnd
SessionsEnd == D!SessionsEnd
=============================================================================
