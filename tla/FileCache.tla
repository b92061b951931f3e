------------------------------ MODULE FileCache ------------------------------
(***************************************************************************)
(* The file cache: adapters/cache/filecache/filecache.go, one key of it.   *)
(* The keys are files of their own, so what holds for one holds for all.   *)
(*                                                                         *)
(* Set opens the key's file, which empties it, and then writes the         *)
(* compressed response; Get reads the file to its end and decompresses     *)
(* what it has read.  Nothing locks the file: all workers, and another     *)
(* process with the same folder, may be in Set and Get at once, and the    *)
(* operating system may let them see each other's writes in parts.  A part *)
(* is a block.  The checksum and the length at the end of the compressed   *)
(* form make every sequence of blocks but a complete one an error.  Each   *)
(* call of the operating system on the file may fail as well, except the   *)
(* close, whose error the code ignores and which is taken to succeed.      *)
(***************************************************************************)
EXTENDS Integers, Sequences

CONSTANTS
    Call,       \* goroutines that use the cache
    Value,      \* responses
    Size,       \* the number of blocks of each one's compressed form
    Miss,       \* Get's error when there is no file, or none that decodes
    Failed,     \* Get's error when the file cannot be opened or read
    Hole,       \* a block that was never written
    NoFile      \* the key has no file yet

ASSUME SizeAssumption ==
    /\ Size \in [Value -> Nat \ {0}]
    /\ Miss \notin Value /\ Failed \notin Value /\ Failed # Miss

\* What a file holds at an offset.
Block == (Value \X Nat) \cup {Hole}

\* A hole is no part of a response, and no file is not an empty one.
ASSUME BlockAssumption ==
    /\ Hole \notin Value \X Nat
    /\ NoFile \notin Seq(Block)

\* Compress of the marshalled response.
Encode(v) == [i \in 1..Size[v] |-> <<v, i>>]

\* Decompress and Unmarshal.
Decode(blocks) ==
    IF \E v \in Value : blocks = Encode(v)
    THEN CHOOSE v \in Value : blocks = Encode(v) ELSE Miss

VARIABLES
    file,       \* the key's file: its blocks, or NoFile
    pc,         \* where each call is
    value,      \* what the call is to store
    pos,        \* the offset of the call's open file
    data,       \* what Get has read so far
    result,     \* what the call's last Get has returned
    clash, stable, may  \* history, see CacheRegister

callVars == <<pc, value, pos, data, result>>
history == <<clash, stable, may>>
vars == <<file, callVars, history>>

Setting == {c \in Call : pc[c] \in {"encode", "write"}}
Getting == {c \in Call : pc[c] = "read"}

\* What a Get may find, given what has been stored.
Register == INSTANCE CacheRegister WITH setting <- Setting, getting <- Getting

TypeOK ==
    /\ file = NoFile \/ \E v \in Value : file \in Seq(Block) /\ Len(file) <= Size[v]
    /\ pc \in [Call -> {"idle", "encode", "write", "read"}]
    /\ value \in [Call -> Value \cup {Miss}]
    /\ pos \in [Call -> Nat]
    /\ data \in [Call -> Seq(Block)]
    /\ result \in [Call -> Value \cup {Miss, Failed}]

Init ==
    /\ file = NoFile
    /\ pc = [c \in Call |-> "idle"]
    /\ value = [c \in Call |-> Miss]
    /\ pos = [c \in Call |-> 0]
    /\ data = [c \in Call |-> <<>>]
    /\ Register!Init

(***************************************************************************)
(* Set.                                                                    *)
(***************************************************************************)
\* Mutant of Create: the file is opened without truncating it.
Create_NoTruncate(c, v) ==
    /\ pc[c] = "idle"
    /\ file' = IF file = NoFile THEN <<>> ELSE file
    /\ pc' = [pc EXCEPT ![c] = "encode"]
    /\ value' = [value EXCEPT ![c] = v]
    /\ Register!SetBegins(c, v)
    /\ UNCHANGED <<pos, data, result>>

\* os.Create.  When it fails, Set returns and nothing has changed.
Create(c, v) ==
    /\ pc[c] = "idle"
    /\ file' = <<>>
    /\ pc' = [pc EXCEPT ![c] = "encode"]
    /\ value' = [value EXCEPT ![c] = v]
    /\ Register!SetBegins(c, v)
    /\ UNCHANGED <<pos, data, result>>

\* A response that cannot be marshalled leaves the file empty.
EncodeStep(c) ==
    /\ pc[c] = "encode"
    /\ \/ pc' = [pc EXCEPT ![c] = "write"] /\ UNCHANGED <<value, history>>
       \/ /\ pc' = [pc EXCEPT ![c] = "idle"]
          /\ value' = [value EXCEPT ![c] = Miss]
          /\ Register!SetFails(c)
    /\ UNCHANGED <<file, pos, data, result>>

\* The file with block b at offset at: a file that was shortened meanwhile gets
\* a hole.
WithBlock(f, at, b) ==
    LET length == IF at + 1 > Len(f) THEN at + 1 ELSE Len(f) IN
    [i \in 1..length |-> IF i = at + 1 THEN b
                         ELSE IF i <= Len(f) THEN f[i] ELSE Hole]

WriteBlock(c) ==
    /\ pc[c] = "write" /\ pos[c] < Size[value[c]]
    /\ file' = WithBlock(file, pos[c], Encode(value[c])[pos[c] + 1])
    /\ pos' = [pos EXCEPT ![c] = @ + 1]
    /\ UNCHANGED <<pc, value, data, result, history>>

Leave(c) ==
    /\ pc' = [pc EXCEPT ![c] = "idle"]
    /\ value' = [value EXCEPT ![c] = Miss]
    /\ pos' = [pos EXCEPT ![c] = 0]
    /\ data' = [data EXCEPT ![c] = <<>>]

SetReturns(c) ==
    /\ pc[c] = "write" /\ pos[c] = Size[value[c]]
    /\ Leave(c)
    /\ Register!SetEnds(c, value[c])
    /\ UNCHANGED <<file, result>>

\* The disk is full: Set returns an error and leaves what it has written.
WriteFails(c) ==
    /\ pc[c] = "write" /\ pos[c] < Size[value[c]]
    /\ Leave(c)
    /\ Register!SetFails(c)
    /\ UNCHANGED <<file, result>>

(***************************************************************************)
(* Get.                                                                    *)
(***************************************************************************)
\* os.Open finds no file.
NoEntry(c) ==
    /\ pc[c] = "idle"
    /\ file = NoFile
    /\ result' = [result EXCEPT ![c] = Miss]
    /\ UNCHANGED <<file, pc, value, pos, data, history>>

\* os.Open fails for another reason, such as too many open files.
OpenFails(c) ==
    /\ pc[c] = "idle"
    /\ result' = [result EXCEPT ![c] = Failed]
    /\ UNCHANGED <<file, pc, value, pos, data, history>>

Open(c) ==
    /\ pc[c] = "idle"
    /\ file # NoFile
    /\ pc' = [pc EXCEPT ![c] = "read"]
    /\ Register!GetBegins(c)
    /\ UNCHANGED <<file, value, pos, data, result>>

ReadBlock(c) ==
    /\ pc[c] = "read" /\ pos[c] < Len(file)
    /\ data' = [data EXCEPT ![c] = Append(@, file[pos[c] + 1])]
    /\ pos' = [pos EXCEPT ![c] = @ + 1]
    /\ UNCHANGED <<file, pc, value, result, history>>

\* io.ReadAll fails after any number of blocks.
ReadFails(c) ==
    /\ pc[c] = "read"
    /\ result' = [result EXCEPT ![c] = Failed]
    /\ Leave(c)
    /\ Register!GetEnds(c)
    /\ UNCHANGED file

GetReturns(c) ==
    /\ pc[c] = "read" /\ pos[c] >= Len(file)
    /\ result' = [result EXCEPT ![c] = Decode(data[c])]
    /\ Leave(c)
    /\ Register!GetEnds(c)
    /\ UNCHANGED file

\* The process ends at any point.  The file stays as it is.
Crash ==
    /\ pc' = [c \in Call |-> "idle"]
    /\ value' = [c \in Call |-> Miss]
    /\ pos' = [c \in Call |-> 0]
    /\ data' = [c \in Call |-> <<>>]
    /\ result' = [c \in Call |-> Miss]
    /\ Register!AllStop
    /\ UNCHANGED file

Next ==
    \/ \E c \in Call :
         \/ \E v \in Value : Create(c, v)
         \/ EncodeStep(c) \/ WriteBlock(c) \/ SetReturns(c) \/ WriteFails(c)
         \/ NoEntry(c) \/ OpenFails(c) \/ Open(c)
         \/ ReadBlock(c) \/ ReadFails(c) \/ GetReturns(c)
    \/ Crash

Spec == Init /\ [][Next]_vars

-----------------------------------------------------------------------------
(***************************************************************************)
(* Properties.                                                             *)
(***************************************************************************)
\* Whatever overlaps, whichever call of the operating system fails and wherever the
\* process stops, Get returns a response that was stored, whole, or an error, and a
\* Set that is not disturbed repairs whatever is in the file: a Get after it returns
\* its response unless the file cannot be opened or read.
CacheIsRegister == Register!Spec
=============================================================================
