------------------------------ MODULE MirrorDump ------------------------------
(***************************************************************************)
(* The mirror of the cert store on disk.  Every handler that served a hit  *)
(* or stored a certificate calls InferenceServer._dump_mirror, with no     *)
(* lock: it takes the entries, writes them to one shared temporary path    *)
(* and renames that path to the mirror, which the MCP server process reads *)
(* (mcp_server.py).                                                        *)
(*                                                                         *)
(* A path names a file (inode) or nothing.  A document with the entries of *)
(* n calls is n blocks that say n; a writer's blocks reach the file one by *)
(* one, at its own offset.  Where two writers share a file their blocks    *)
(* mix, and a block beyond the end leaves a gap.                           *)
(***************************************************************************)
EXTENDS Integers, Sequences, FiniteSets

CONSTANTS
    Dumpers,     \* handler threads
    Files,       \* inodes
    MaxEntries,  \* bound: entries in the store
    MaxCrashes,  \* bound: how often the server process restarts
    None

ASSUME MirrorAssumption ==
    /\ None \notin Files /\ MaxEntries \in Nat /\ MaxCrashes \in Nat
    /\ IsFiniteSet(Dumpers) /\ IsFiniteSet(Files)
    /\ Cardinality(Files) >= Cardinality(Dumpers) + 3

VARIABLES
    entries,  \* how many entries the store has
    crashes,  \* how often the process has restarted
    content,  \* what each file holds
    tmp,      \* the file at cert_store_mirror_path + ".tmp"
    mirror,   \* the file at cert_store_mirror_path
    overlapped, \* history: whether two dumps have ever overlapped
    dumper,   \* each thread: where it is, its entries, its open file and
              \* offset, and whether no other dump has overlapped with it
    fd,       \* the file that the MCP server has open
    seen      \* whether the last document that it read could be parsed

vars == <<entries, crashes, content, tmp, mirror, overlapped, dumper, fd, seen>>

Gap == 0
Idle == [pc |-> "idle", snap |-> 0, file |-> None, pos |-> 0, alone |-> TRUE]
Active(d) == dumper[d].pc # "idle"

(* What json.load accepts: the blocks of one document, all of them.        *)
Whole(doc) == doc # <<>> /\ doc = [i \in 1..Len(doc) |-> Len(doc)]

TypeOK ==
    /\ entries \in 0..MaxEntries /\ crashes \in 0..MaxCrashes
    /\ content \in [Files -> Seq(0..MaxEntries)]
    /\ tmp \in Files \cup {None} /\ mirror \in Files \cup {None}
    /\ dumper \in [Dumpers -> [pc: {"idle", "dump", "open", "write", "replace"},
                               snap: 0..MaxEntries, file: Files \cup {None},
                               pos: 0..MaxEntries, alone: BOOLEAN]]
    /\ fd \in Files \cup {None} /\ overlapped \in BOOLEAN
    /\ seen \in {"nothing", "whole", "broken"}

Init ==
    /\ entries = 0 /\ crashes = 0
    /\ content = [f \in Files |-> <<>>]
    /\ tmp = None /\ mirror = None /\ overlapped = FALSE
    /\ dumper = [d \in Dumpers |-> Idle]
    /\ fd = None /\ seen = "nothing"

InUse == {tmp, mirror, fd} \cup {dumper[d].file : d \in Dumpers}

(* A file that no path and no process has any more is gone.                *)
FreeUnused == content' = [f \in Files |-> IF f \in InUse' THEN content[f] ELSE <<>>]

Moves(d, frame) == dumper' = [dumper EXCEPT ![d] = frame]

(* A handler counts a hit or stores a new entry, and calls _dump_mirror.   *)
Change(d) ==
    /\ ~ Active(d)
    /\ entries' \in {entries, entries + 1} \cap 1..MaxEntries
    /\ overlapped' = (overlapped \/ \E o \in Dumpers \ {d} : Active(o))
    /\ dumper' = [e \in Dumpers |->
         IF e = d THEN [Idle EXCEPT !.pc = "dump",
                                    !.alone = \A o \in Dumpers \ {d} : ~ Active(o)]
         ELSE [dumper[e] EXCEPT !.alone = @ /\ ~ Active(e)]]
    /\ UNCHANGED <<crashes, content, tmp, mirror, fd, seen>>

(* all_entries(), under the lock of the store.                             *)
Snapshot(d) ==
    /\ dumper[d].pc = "dump"
    /\ Moves(d, [dumper[d] EXCEPT !.pc = "open", !.snap = entries])
    /\ UNCHANGED <<overlapped, entries, crashes, content, tmp, mirror, fd, seen>>

(* Faulty: the temporary file is opened without emptying it.               *)
OpenKeeping(d) ==
    /\ dumper[d].pc = "open"
    /\ \E f \in Files :
         /\ IF tmp = None THEN f \notin InUse ELSE f = tmp
         /\ tmp' = f
         /\ Moves(d, [dumper[d] EXCEPT !.pc = "write", !.file = f])
    /\ UNCHANGED <<overlapped, entries, crashes, content, mirror, fd, seen>>

(* open(tmp_path, "w"): a new file, or the one that is there, emptied.     *)
OpenTmp(d) ==
    /\ dumper[d].pc = "open"
    /\ \E f \in Files :
         /\ IF tmp = None THEN f \notin InUse ELSE f = tmp
         /\ tmp' = f
         /\ content' = [content EXCEPT ![f] = <<>>]
         /\ Moves(d, [dumper[d] EXCEPT !.pc = "write", !.file = f])
    /\ UNCHANGED <<overlapped, entries, crashes, mirror, fd, seen>>

PutBlock(doc, i, block) ==
    [j \in 1..(IF i > Len(doc) THEN i ELSE Len(doc)) |->
       IF j = i THEN block ELSE IF j <= Len(doc) THEN doc[j] ELSE Gap]

(* Faulty: one block too many is written.                                  *)
IsLastLate(t, i) == i > t.snap

(* Block i ends the document of thread t.                                  *)
IsLast(t, i) == i = t.snap

(* json.dump: the next block reaches the file; after the last, it closes.  *)
WriteBlock(d) ==
    /\ dumper[d].pc = "write"
    /\ LET t == dumper[d]  i == t.pos + 1 IN
         /\ content' = [content EXCEPT ![t.file] = PutBlock(@, i, t.snap)]
         /\ Moves(d, [t EXCEPT !.pos = i,
                               !.pc = IF IsLast(t, i) THEN "replace" ELSE "write",
                               !.file = IF IsLast(t, i) THEN None ELSE @])
    /\ UNCHANGED <<overlapped, entries, crashes, tmp, mirror, fd, seen>>

(* The write raises: the file closes with what it has, and stays there.    *)
WriteFails(d) ==
    /\ dumper[d].pc = "write"
    /\ Moves(d, Idle)
    /\ UNCHANGED <<overlapped, entries, crashes, tmp, mirror, fd, seen>>
    /\ FreeUnused

(* Faulty: the temporary file is renamed after a failed write too.         *)
ReplaceAnyway(d) ==
    /\ dumper[d].pc \in {"write", "replace"}
    /\ tmp # None
    /\ mirror' = tmp /\ tmp' = None
    /\ Moves(d, Idle)
    /\ UNCHANGED <<overlapped, entries, crashes, fd, seen>>
    /\ FreeUnused

(* os.replace: whatever the temporary path names now becomes the mirror.   *)
Replace(d) ==
    /\ dumper[d].pc = "replace"
    /\ tmp # None
    /\ mirror' = tmp /\ tmp' = None
    /\ Moves(d, Idle)
    /\ UNCHANGED <<overlapped, entries, crashes, fd, seen>>
    /\ FreeUnused

(* FileNotFoundError: another thread has renamed it.                       *)
ReplaceFails(d) ==
    /\ dumper[d].pc = "replace"
    /\ tmp = None
    /\ Moves(d, Idle)
    /\ UNCHANGED <<overlapped, entries, crashes, content, tmp, mirror, fd, seen>>

(* The process dies; the files stay, the store and the threads do not.     *)
Crash ==
    /\ crashes < MaxCrashes
    /\ crashes' = crashes + 1 /\ entries' = 0
    /\ dumper' = [d \in Dumpers |-> Idle]
    /\ UNCHANGED <<overlapped, tmp, mirror, fd, seen>>
    /\ FreeUnused

(* The MCP server opens the mirror, and then reads it.                     *)
OpenMirrorFile ==
    /\ fd = None /\ mirror # None
    /\ fd' = mirror
    /\ UNCHANGED <<overlapped, entries, crashes, content, tmp, mirror, dumper, seen>>

ReadMirrorFile ==
    /\ fd # None
    /\ seen' = IF Whole(content[fd]) THEN "whole" ELSE "broken"
    /\ fd' = None
    /\ UNCHANGED <<overlapped, entries, crashes, tmp, mirror, dumper>>
    /\ FreeUnused

DumpStep(d) ==
    \/ Change(d) \/ Snapshot(d) \/ OpenTmp(d) \/ WriteBlock(d) \/ WriteFails(d)
    \/ Replace(d) \/ ReplaceFails(d)

Next ==
    \/ \E d \in Dumpers : DumpStep(d)
    \/ Crash \/ OpenMirrorFile \/ ReadMirrorFile

Spec == Init /\ [][Next]_vars

-----------------------------------------------------------------------------
(* What the comment of _dump_mirror says (server.py 437-438): writing the   *)
(* temporary file and renaming it is atomic, so the mirror is a document.  *)
MirrorWhole == mirror # None => Whole(content[mirror])

(* What the MCP server reads can be parsed, also when the mirror is        *)
(* replaced between its open and its read (inference_status has no handler *)
(* for a JSONDecodeError).                                                 *)
ReadWhole == seen # "broken"

(* Both hold as long as no two dumps have overlapped, with failed writes   *)
(* and crashes in the middle of a dump, and the files they leave behind.   *)
WholeUntilOverlap == ~ overlapped => MirrorWhole /\ ReadWhole

(* A dump that overlaps with no other one repairs the mirror, however      *)
(* broken the files are that earlier dumps and crashes left behind: it     *)
(* ends with a whole document of all the entries that it took.             *)
SoloDumpRepairs ==
    [][\A d \in Dumpers :
         dumper[d].alone /\ dumper[d].pc = "replace" /\ dumper'[d].pc = "idle"
           /\ crashes' = crashes
         => mirror' # None /\ Whole(content'[mirror'])
            /\ Len(content'[mirror']) = dumper[d].snap]_vars
=============================================================================
