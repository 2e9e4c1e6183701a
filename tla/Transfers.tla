----------------------------- MODULE Transfers -----------------------------
(***************************************************************************)
(* `files.write`: the synth puts a file into a shared folder chunk by      *)
(* chunk (rpc.rs, `files_method` and `Transfers`; files.rs,                *)
(* `resolve_write` and `write`).                                           *)
(*                                                                         *)
(* Each chunk is a call of its own, on any stream of any link.  With "ask  *)
(* before writing" the owner answers for the first chunk; an append at     *)
(* exactly the size the last chunk left (`Transfers`, keyed by the path)   *)
(* counts as part of the same write and is not asked for.  The gate reads  *)
(* the settings once; the folder, the owner, the file and the list are     *)
(* each looked at after an await of its own, and an aborted call is        *)
(* dropped in any of them.  One path; a file is the sequence of the chunks *)
(* in it.                                                                  *)
(***************************************************************************)
EXTENDS Naturals, Sequences

CONSTANTS
    Chunks,     \* the calls
    Synths,     \* the synths that make them
    MaxFile     \* bound: chunks in the file

ASSUME TransfersAssumption == Synths # {} /\ MaxFile \in Nat \ {0}

VARIABLES
    asksWrite,              \* settings.files.ask_on_write
    chunk,                  \* where each call stands
    arg,                    \* its parameters and what it goes by
    there, file,            \* the file exists; its chunks
    noted,                  \* Transfers: the size after the last chunk, if it is known
    place,                  \* history: where the call's chunk went (0: nowhere)
    ends,                   \* history: sizes that an allowed chunk of a synth left
    clashed                 \* history: others were at the file in the middle of a call

disc == <<there, file>>
fileVars == <<asksWrite, chunk, arg, disc, noted, place, ends, clashed>>

Foreign == "foreign"        \* a chunk of another program
Sizes == 0 .. MaxFile
FileAwaits == {"resolve", "asking", "measure", "open", "write", "flush"}
AtFile == {"measure", "open", "write"}
Modes == {"create", "replace", "append"}
Args == [synth : Synths, mode : Modes, offset : Sizes, asks : BOOLEAN,
         continuing : BOOLEAN]
Size == Len(file)

FileTypeOK ==
    /\ asksWrite \in BOOLEAN
    /\ chunk \in [Chunks -> FileAwaits \cup {"idle", "over"}]
    /\ arg \in [Chunks -> Args]
    /\ there \in BOOLEAN /\ file \in Seq(Chunks \cup {Foreign}) /\ Size <= MaxFile
    /\ noted \in {{}} \cup {{n} : n \in Sizes}
    /\ place \in [Chunks -> Sizes]
    /\ ends \subseteq Synths \X Sizes /\ clashed \in BOOLEAN

NoArg == [synth |-> CHOOSE s \in Synths : TRUE, mode |-> "create", offset |-> 0, asks |-> FALSE,
          continuing |-> FALSE]

FileInit ==
    /\ asksWrite \in BOOLEAN
    /\ chunk = [c \in Chunks |-> "idle"] /\ arg = [c \in Chunks |-> NoArg]
    /\ there = FALSE /\ file = <<>> /\ noted = {}
    /\ place = [c \in Chunks |-> 0] /\ ends = {} /\ clashed = FALSE

-----------------------------------------------------------------------------
(* The gate.                                                               *)

ChunkGoes(c, stage) == chunk' = [chunk EXCEPT ![c] = stage]
history == <<place, ends, clashed>>

\* files_method: past the pause and the switch the call goes by the settings
\* of this moment.
FilesMethod(c) ==
    /\ chunk[c] = "idle"
    /\ \E s \in Synths, md \in Modes, off \in 0 .. MaxFile - 1 :
         arg' = [arg EXCEPT ![c] = [synth |-> s, mode |-> md, offset |-> off, asks |-> asksWrite,
                                    continuing |-> FALSE]]
    /\ ChunkGoes(c, "resolve")
    /\ UNCHANGED <<asksWrite, disc, noted, history>>

\* resolve_write: the path is in a folder the settings let the synth write
\* to.  Then Transfers::continues, and the question.
OfThisPath(c) == noted # {}
AtItsEnd(c) == arg[c].offset \in noted
Continues(c) == arg[c].mode = "append" /\ AtItsEnd(c)
Resolved(c) ==
    /\ chunk[c] = "resolve"
    /\ arg' = [arg EXCEPT ![c].continuing = Continues(c)]
    /\ ChunkGoes(c, IF arg[c].asks /\ ~Continues(c) THEN "asking" ELSE "measure")
    /\ UNCHANGED <<asksWrite, disc, noted, history>>
FileOwnerSays(c) ==
    /\ chunk[c] = "asking"
    /\ ChunkGoes(c, "measure")
    /\ UNCHANGED <<asksWrite, arg, disc, noted, history>>

-----------------------------------------------------------------------------
(* files::write.                                                           *)

Clash(c) == clashed' = (clashed \/ \E d \in Chunks \ {c} : chunk[d] \in AtFile)

\* create and replace start at 0; an append at the size the file has now.
AnyOffset(c) == arg[c].mode = "append" => there
OffsetFits(c) ==
    IF arg[c].mode = "append" THEN there /\ arg[c].offset = Size ELSE arg[c].offset = 0
Measure(c) ==
    /\ chunk[c] = "measure"
    /\ ChunkGoes(c, IF OffsetFits(c) THEN "open" ELSE "over")
    /\ Clash(c)
    /\ UNCHANGED <<asksWrite, arg, disc, noted, place, ends>>

\* create_new fails on an existing file, File::create empties it, append
\* needs one.
Open(c) ==
    /\ chunk[c] = "open"
    /\ LET ok == CASE arg[c].mode = "create" -> ~there
                   [] arg[c].mode = "replace" -> TRUE
                   [] arg[c].mode = "append" -> there
       IN /\ ChunkGoes(c, IF ok THEN "write" ELSE "over")
          /\ IF ok /\ arg[c].mode # "append" THEN there' = TRUE /\ file' = <<>> ELSE UNCHANGED disc
    /\ UNCHANGED <<asksWrite, arg, noted, history>>

\* The bytes go to the end, or to the start of what the handle created.
Write(c) ==
    /\ chunk[c] = "write"
    /\ IF arg[c].mode = "append"
       THEN /\ Size < MaxFile
            /\ file' = Append(file, c) /\ place' = [place EXCEPT ![c] = Size + 1]
       ELSE /\ file' = IF file = <<>> THEN <<c>> ELSE [file EXCEPT ![1] = c]
            /\ place' = [place EXCEPT ![c] = 1]
    /\ ChunkGoes(c, "flush")
    /\ UNCHANGED <<asksWrite, arg, there, noted, ends, clashed>>

\* After the flush: the size by its own count, noted for the next chunk.
SizeAndChunk(c) == arg[c].offset + 2
SizeAfter(c) == IF arg[c].mode = "append" THEN arg[c].offset + 1 ELSE 1
Flushed(c) ==
    /\ chunk[c] = "flush"
    /\ noted' = IF arg[c].mode # "append" \/ arg[c].continuing THEN {SizeAfter(c)} ELSE noted
    /\ ends' = ends \cup {<<arg[c].synth, SizeAfter(c)>>}
    /\ ChunkGoes(c, "over")
    /\ UNCHANGED <<asksWrite, arg, disc, place, clashed>>

\* Ten minutes pass, or sixteen other files are written.
Forgotten ==
    /\ noted # {}
    /\ noted' = {}
    /\ UNCHANGED <<asksWrite, chunk, arg, disc, history>>

-----------------------------------------------------------------------------
(* Others.                                                                 *)

\* Other programs change the file as well: remove it, empty it (neither under
\* an open handle), add to it.
OtherProgram ==
    /\ \/ there /\ (\A c \in Chunks : chunk[c] # "write") /\ there' \in BOOLEAN /\ file' = <<>>
       \/ Size < MaxFile /\ there' = TRUE /\ file' = Append(file, Foreign)
    /\ clashed' = (clashed \/ \E c \in Chunks : chunk[c] \in AtFile)
    /\ UNCHANGED <<asksWrite, chunk, arg, noted, place, ends>>

\* The owner changes the setting.
AskOnWrite ==
    /\ asksWrite' = ~asksWrite
    /\ UNCHANGED <<chunk, arg, disc, noted, history>>

\* A refusal on the way (the folder is not to be written to, the owner), or
\* the task is aborted where it awaits.
FileDropped(c) ==
    /\ chunk[c] \in FileAwaits
    /\ ChunkGoes(c, "over")
    /\ UNCHANGED <<asksWrite, arg, disc, noted, history>>

FileNext ==
    \/ \E c \in Chunks :
         \/ FilesMethod(c) \/ Resolved(c) \/ FileOwnerSays(c) \/ Measure(c)
         \/ Open(c) \/ Write(c) \/ Flushed(c) \/ FileDropped(c)
    \/ Forgotten \/ OtherProgram \/ AskOnWrite

FileSpec == FileInit /\ [][FileNext]_fileVars

-----------------------------------------------------------------------------
(* Properties.                                                             *)

Unasked(c) == arg[c].asks /\ arg[c].continuing

\* A chunk the owner was not asked for is at the file only where an allowed
\* chunk of the same path ended, whatever other programs did to the file and
\* however the calls overlap.
UnaskedContinues ==
    \A c \in Chunks : Unasked(c) /\ place[c] > 0 => \E s \in Synths : <<s, arg[c].offset>> \in ends

\* Calls that were never at the file together leave their appends where they
\* were sent for.
AppendInPlace ==
    \A c \in Chunks : ~clashed /\ place[c] > 0 => place[c] = arg[c].offset + 1

-----------------------------------------------------------------------------
(* Claims of the repository that the code does not keep (README.md, 8).    *)

\* files.rs: "append: the file must exist and offset must equal its size."
AppendAlwaysInPlace == \A c \in Chunks : place[c] > 0 => place[c] = arg[c].offset + 1

\* rpc.rs: an append "continues the write the owner already allowed"; grants
\* are per synth.
UnaskedIsOwn ==
    \A c \in Chunks : Unasked(c) /\ place[c] > 0 => <<arg[c].synth, arg[c].offset>> \in ends
=============================================================================
