--------------------------- MODULE MirrorDumpProofs ---------------------------
(***************************************************************************)
(* Proofs about MirrorDump: for any number of handlers, entries, files,    *)
(* crashes and failed writes, the mirror is whole until dumps overlap.     *)
(***************************************************************************)
EXTENDS MirrorDump, TLAPS

(* The first i blocks of the document with n entries.                      *)
Prefix(n, i) == [j \in 1..i |-> n]

LEMMA PrefixWhole ==
    ASSUME NEW n \in Nat \ {0}
    PROVE  Whole(Prefix(n, n))
<1>1. Prefix(n, n) \in Seq(Nat) /\ Len(Prefix(n, n)) = n
  BY DEF Prefix
<1>2. QED
  BY <1>1 DEF Whole, Prefix

LEMMA PrefixGrows ==
    ASSUME NEW n \in Nat, NEW i \in Nat
    PROVE  PutBlock(Prefix(n, i), i + 1, n) = Prefix(n, i + 1)
<1>1. Len(Prefix(n, i)) = i
  BY DEF Prefix
<1>2. QED
  BY <1>1 DEF PutBlock, Prefix

(* What the thread that is dumping knows of its files.                     *)
DumperInv(d) ==
    LET t == dumper[d] IN
    /\ t \in [pc: {"idle", "dump", "open", "write", "replace"}, snap: Nat,
              file: Files \cup {None}, pos: Nat, alone: BOOLEAN]
    /\ t.pc = "idle" => t.file = None
    /\ t.pc = "dump" => entries # 0 /\ t.pos = 0 /\ t.file = None
    /\ t.pc = "open" => t.snap # 0 /\ t.pos = 0 /\ t.file = None
    /\ t.pc = "write" => /\ t.file = tmp /\ tmp # None /\ t.pos < t.snap
                         /\ content[tmp] = Prefix(t.snap, t.pos)
    /\ t.pc = "replace" => /\ t.file = None /\ tmp # None /\ t.snap # 0
                           /\ content[tmp] = Prefix(t.snap, t.snap)

FilesInv ==
    /\ entries \in Nat /\ crashes \in Nat
    /\ content = [f \in Files |-> content[f]]
    /\ tmp \in Files \cup {None} /\ mirror \in Files \cup {None}
    /\ fd \in Files \cup {None}
    /\ tmp # None => tmp # mirror /\ tmp # fd
    /\ fd # None => Whole(content[fd])
    /\ dumper = [d \in Dumpers |-> dumper[d]]

(* At most one thread dumps.                                               *)
OneActive == \A d, e \in Dumpers : Active(d) /\ Active(e) => d = e

MirrorInv ==
    /\ FilesInv /\ OneActive /\ MirrorWhole /\ ReadWhole
    /\ \A d \in Dumpers : DumperInv(d)

LEMMA MirrorInit == Init => MirrorInv
BY MirrorAssumption
DEF Init, MirrorInv, FilesInv, OneActive, Active, DumperInv, MirrorWhole,
  ReadWhole, Idle

(* A step of the only active thread leaves the idle ones as they are.      *)
LEMMA OthersIdle ==
    ASSUME MirrorInv, NEW d \in Dumpers, Active(d), NEW frame, Moves(d, frame),
           DumperInv(d)'
    PROVE  OneActive' /\ \A e \in Dumpers : DumperInv(e)'
<1>1. \A e \in Dumpers \ {d} : dumper[e].pc = "idle" /\ dumper'[e] = dumper[e]
  BY DEF MirrorInv, FilesInv, OneActive, Active, Moves
<1>2. \A e \in Dumpers \ {d} : DumperInv(e)'
  BY <1>1 DEF MirrorInv, DumperInv
<1>3. QED
  BY <1>1, <1>2 DEF OneActive, Active

LEMMA MirrorStep ==
    ASSUME MirrorInv, [Next]_vars, ~ overlapped'
    PROVE  MirrorInv'
<1>1. ASSUME NEW d \in Dumpers, Change(d) PROVE MirrorInv'
  <2>1. entries' \in Nat \ {0}
    <3>1. entries' \in 1..MaxEntries
      BY <1>1, Zenon DEF Change
    <3>2. QED
      BY <3>1, MirrorAssumption
  <2>2. /\ dumper'[d].pc = "dump" /\ DumperInv(d)'
        /\ \A e \in Dumpers \ {d} : dumper'[e].pc = "idle" /\ DumperInv(e)'
    <3>1. \A e \in Dumpers \ {d} : dumper[e].pc = "idle"
      BY <1>1 DEF Change, Active
    <3>2. DumperInv(d)' /\ dumper'[d].pc = "dump"
      BY <1>1, <2>1 DEF Change, DumperInv, Idle
    <3>3. ASSUME NEW e \in Dumpers \ {d}
          PROVE  dumper'[e].pc = "idle" /\ DumperInv(e)'
      <4>1. dumper'[e] = [dumper[e] EXCEPT !.alone = @ /\ ~ Active(e)]
        BY <1>1 DEF Change
      <4>2. DumperInv(e)
        BY DEF MirrorInv
      <4>3. (dumper[e].alone /\ ~ Active(e)) \in BOOLEAN
        OBVIOUS
      <4>4. /\ dumper'[e] \in [pc: {"idle", "dump", "open", "write", "replace"},
                                snap: Nat, file: Files \cup {None}, pos: Nat,
                                alone: BOOLEAN]
            /\ dumper'[e].pc = dumper[e].pc /\ dumper'[e].file = dumper[e].file
        BY <4>1, <4>2, <4>3 DEF DumperInv
      <4>5. QED
        BY <3>1, <4>2, <4>4 DEF DumperInv
    <3>4. QED
      BY <3>2, <3>3
  <2>3. QED
    BY <1>1, <2>1, <2>2
    DEF OneActive, Active, Change, MirrorInv, FilesInv, MirrorWhole, ReadWhole
<1>2. ASSUME NEW d \in Dumpers, Snapshot(d) PROVE MirrorInv'
  <2>1. OneActive' /\ \A e \in Dumpers : DumperInv(e)'
    <3>1. /\ dumper'[d].pc = "open" /\ dumper'[d].file = None
          /\ dumper'[d].snap = entries /\ dumper'[d].pos = 0 /\ entries # 0
          /\ dumper'[d] \in [pc: {"idle", "dump", "open", "write", "replace"},
                             snap: Nat, file: Files \cup {None}, pos: Nat,
                             alone: BOOLEAN]
      BY <1>2 DEF Snapshot, Moves, MirrorInv, FilesInv, DumperInv
    <3>2. QED
      <4>1. DumperInv(d)'
        BY <3>1, <1>2 DEF Snapshot, DumperInv
      <4>2. QED
        BY <1>2, <4>1, OthersIdle DEF Snapshot, Active
  <2>2. QED
    BY <1>2, <2>1
    DEF Snapshot, Moves, MirrorInv, FilesInv, MirrorWhole, ReadWhole
<1>3. ASSUME NEW d \in Dumpers, OpenTmp(d) PROVE MirrorInv'
  <2>1. PICK f \in Files :
          /\ IF tmp = None THEN f \notin InUse ELSE f = tmp
          /\ tmp' = f
          /\ content' = [content EXCEPT ![f] = <<>>]
          /\ Moves(d, [dumper[d] EXCEPT !.pc = "write", !.file = f])
    BY <1>3 DEF OpenTmp
  <2>2. f # None /\ f # mirror /\ f # fd
    BY <2>1, MirrorAssumption DEF InUse, MirrorInv, FilesInv
  <2>3. content'[f] = <<>> /\ \A g \in Files \ {f} : content'[g] = content[g]
    BY <2>1 DEF MirrorInv, FilesInv
  <2>4. Prefix(dumper[d].snap, 0) = <<>>
    BY DEF Prefix
  <2>5. DumperInv(d)'
    <3>1. /\ dumper'[d].pc = "write" /\ dumper'[d].file = f
          /\ dumper'[d].snap = dumper[d].snap /\ dumper'[d].pos = dumper[d].pos
          /\ dumper'[d] \in [pc: {"idle", "dump", "open", "write", "replace"},
                             snap: Nat, file: Files \cup {None}, pos: Nat,
                             alone: BOOLEAN]
      BY <2>1 DEF Moves, MirrorInv, FilesInv, DumperInv
    <3>2. dumper[d].snap \in Nat \ {0} /\ dumper[d].pos = 0
      BY <1>3 DEF OpenTmp, MirrorInv, DumperInv
    <3>3. content'[tmp'] = Prefix(dumper'[d].snap, dumper'[d].pos)
      BY <2>1, <2>3, <2>4, <3>1, <3>2
    <3>4. QED
      BY <2>1, <2>2, <3>1, <3>2, <3>3 DEF DumperInv
  <2>6. OneActive' /\ \A e \in Dumpers : DumperInv(e)'
    BY <1>3, <2>1, <2>5, OthersIdle DEF OpenTmp, Active
  <2>7. QED
    BY <1>3, <2>1, <2>2, <2>3, <2>6
    DEF OpenTmp, Moves, MirrorInv, FilesInv, MirrorWhole, ReadWhole
<1>4. ASSUME NEW d \in Dumpers, WriteBlock(d) PROVE MirrorInv'
  <2> DEFINE t == dumper[d]
  <2>1. /\ t.file = tmp /\ tmp \in Files /\ t.pos < t.snap
        /\ content[tmp] = Prefix(t.snap, t.pos) /\ t.snap \in Nat /\ t.pos \in Nat
    BY <1>4 DEF WriteBlock, MirrorInv, FilesInv, DumperInv
  <2>2. content'[tmp] = Prefix(t.snap, t.pos + 1)
    BY <1>4, <2>1, PrefixGrows DEF WriteBlock, MirrorInv, FilesInv
  <2>3. \A g \in Files \ {tmp} : content'[g] = content[g]
    BY <1>4, <2>1 DEF WriteBlock, MirrorInv, FilesInv
  <2>4. DumperInv(d)'
    <3>1. /\ dumper'[d].pc = IF t.pos + 1 = t.snap THEN "replace" ELSE "write"
          /\ dumper'[d].file = IF t.pos + 1 = t.snap THEN None ELSE t.file
          /\ dumper'[d].snap = t.snap /\ dumper'[d].pos = t.pos + 1
          /\ dumper'[d] \in [pc: {"idle", "dump", "open", "write", "replace"},
                             snap: Nat, file: Files \cup {None}, pos: Nat,
                             alone: BOOLEAN]
      <4>1. t \in [pc: {"idle", "dump", "open", "write", "replace"}, snap: Nat,
                   file: Files \cup {None}, pos: Nat, alone: BOOLEAN]
        BY DEF MirrorInv, DumperInv
      <4>2. dumper = [e \in Dumpers |-> dumper[e]]
        BY DEF MirrorInv, FilesInv
      <4>3. dumper' = [dumper EXCEPT ![d] =
                        [t EXCEPT !.pos = t.pos + 1,
                           !.pc = IF t.pos + 1 = t.snap THEN "replace" ELSE "write",
                           !.file = IF t.pos + 1 = t.snap THEN None ELSE @]]
        BY <1>4, Zenon DEF WriteBlock, Moves, IsLast
      <4>4. t.pc = "write"
        BY <1>4 DEF WriteBlock
      <4> DEFINE g == [t EXCEPT !.pos = t.pos + 1,
                        !.pc = IF t.pos + 1 = t.snap THEN "replace" ELSE "write",
                        !.file = IF t.pos + 1 = t.snap THEN None ELSE @]
      <4>5. dumper'[d] = g
        BY <4>2, <4>3, Zenon
      <4> HIDE DEF t
      <4>6. CASE t.pos + 1 = t.snap
        <5>1. dumper'[d] = [t EXCEPT !.pos = t.pos + 1, !.pc = "replace",
                                     !.file = None]
          BY <4>1, <4>5, <4>6
        <5>2. QED
          BY <2>1, <4>1, <4>6, <5>1
      <4>7. CASE t.pos + 1 # t.snap
        <5>1. dumper'[d] = [t EXCEPT !.pos = t.pos + 1]
          BY <4>1, <4>4, <4>5, <4>7
        <5>2. QED
          BY <2>1, <4>1, <4>4, <4>7, <5>1
      <4>8. QED
        BY <4>6, <4>7
    <3>2. tmp' = tmp /\ tmp # None
      BY <1>4, <2>1, MirrorAssumption DEF WriteBlock
    <3> HIDE DEF t
    <3>3. QED
      BY <2>1, <2>2, <3>1, <3>2 DEF DumperInv
  <2>5. OneActive' /\ \A e \in Dumpers : DumperInv(e)'
    <3> HIDE DEF t
    <3>1. PICK frame : Moves(d, frame)
      BY <1>4 DEF WriteBlock
    <3>2. QED
      BY <1>4, <2>4, <3>1, OthersIdle DEF WriteBlock, Active
  <2>6. QED
    BY <1>4, <2>1, <2>3, <2>5
    DEF WriteBlock, Moves, MirrorInv, FilesInv, MirrorWhole, ReadWhole
<1>5. ASSUME NEW d \in Dumpers, WriteFails(d) PROVE MirrorInv'
  <2>1. OneActive' /\ \A e \in Dumpers : DumperInv(e)'
    <3>1. DumperInv(d)'
      BY <1>5 DEF WriteFails, Moves, DumperInv, Idle, MirrorInv, FilesInv
    <3>2. QED
      BY <1>5, <3>1, OthersIdle DEF WriteFails, Active
  <2>2. QED
    BY <1>5, <2>1 DEF WriteFails, Moves, FreeUnused, InUse, MirrorInv, FilesInv,
      MirrorWhole, ReadWhole
<1>6. ASSUME NEW d \in Dumpers, Replace(d) PROVE MirrorInv'
  <2>1. OneActive' /\ \A e \in Dumpers : DumperInv(e)'
    <3>1. DumperInv(d)'
      BY <1>6 DEF Replace, Moves, DumperInv, Idle, MirrorInv, FilesInv
    <3>2. QED
      BY <1>6, <3>1, OthersIdle DEF Replace, Active
  <2>2. tmp \in Files /\ Whole(content[tmp])
    BY <1>6, PrefixWhole DEF Replace, MirrorInv, FilesInv, DumperInv
  <2>3. content'[tmp] = content[tmp] /\ (fd # None => content'[fd] = content[fd])
    BY <1>6, <2>2 DEF Replace, FreeUnused, InUse, MirrorInv, FilesInv
  <2>4. QED
    BY <1>6, <2>1, <2>2, <2>3 DEF Replace, Moves, FreeUnused, MirrorInv,
      FilesInv, MirrorWhole, ReadWhole
<1>7. ASSUME NEW d \in Dumpers, ReplaceFails(d) PROVE MirrorInv'
  BY <1>7 DEF ReplaceFails, MirrorInv, DumperInv
<1>8. CASE Crash
  <2>1. OneActive' /\ \A e \in Dumpers : DumperInv(e)'
    BY <1>8 DEF Crash, DumperInv, Idle, OneActive, Active
  <2>2. QED
    BY <1>8, <2>1 DEF Crash, FreeUnused, InUse, MirrorInv, FilesInv,
      MirrorWhole, ReadWhole
<1>9. CASE OpenMirrorFile
  BY <1>9 DEF OpenMirrorFile, MirrorInv, FilesInv, OneActive, Active, DumperInv,
    MirrorWhole, ReadWhole
<1>10. CASE ReadMirrorFile
  <2>1. content' = [f \in Files |-> IF f \in InUse' THEN content[f] ELSE <<>>]
    BY <1>10 DEF ReadMirrorFile, FreeUnused
  <2>2. /\ tmp # None => content'[tmp] = content[tmp]
        /\ mirror # None => content'[mirror] = content[mirror]
    BY <1>10, <2>1 DEF ReadMirrorFile, InUse, MirrorInv, FilesInv
  <2>3. \A e \in Dumpers : DumperInv(e)'
    BY <1>10, <2>2 DEF ReadMirrorFile, DumperInv, MirrorInv
  <2>4. QED
    BY <1>10, <2>1, <2>2, <2>3
    DEF ReadMirrorFile, MirrorInv, FilesInv, OneActive, Active, MirrorWhole, ReadWhole
<1>11. CASE UNCHANGED vars
  BY <1>11 DEF vars, MirrorInv, FilesInv, OneActive, Active, DumperInv,
    MirrorWhole, ReadWhole
<1>12. QED
  BY <1>1, <1>2, <1>3, <1>4, <1>5, <1>6, <1>7, <1>8, <1>9, <1>10, <1>11
  DEF Next, DumpStep

(* Two dumps that have overlapped stay so.                                 *)
LEMMA OverlapStays ==
    ASSUME overlapped \in BOOLEAN, [Next]_vars
    PROVE  overlapped' \in BOOLEAN /\ (overlapped => overlapped')
BY DEF Next, vars, DumpStep, Change, Snapshot, OpenTmp, WriteBlock, WriteFails,
  Replace, ReplaceFails, Crash, OpenMirrorFile, ReadMirrorFile

(* Until two dumps overlap the mirror is never torn and every reader       *)
(* parses what it reads, whatever fails or crashes (server.py 436-454).    *)
THEOREM DumpIsAtomic == Spec => []WholeUntilOverlap
<1> DEFINE Inv == overlapped \in BOOLEAN /\ (~ overlapped => MirrorInv)
<1>1. Init => Inv
  BY MirrorInit DEF Init
<1>2. Inv /\ [Next]_vars => Inv'
  BY MirrorStep, OverlapStays
<1>3. Inv => WholeUntilOverlap
  BY DEF MirrorInv, WholeUntilOverlap
<1>4. QED
  BY <1>1, <1>2, <1>3, PTL DEF Spec

-----------------------------------------------------------------------------
(* Types, with any number of dumps that overlap.                           *)
Thread == [pc: {"idle", "dump", "open", "write", "replace"}, snap: 0..MaxEntries,
           file: Files \cup {None}, pos: 0..MaxEntries, alone: BOOLEAN]

PlaceInv(d) ==
    LET t == dumper[d] IN
    /\ t.pc = "dump" => entries # 0 /\ t.pos = 0
    /\ t.pc = "open" => t.snap # 0 /\ t.pos = 0
    /\ t.pc = "write" => t.file \in Files /\ t.pos < t.snap

TypeInv == TypeOK /\ \A d \in Dumpers : PlaceInv(d)

LEMMA PutBlockType ==
    ASSUME NEW S, Gap \in S, NEW doc \in Seq(S), NEW i \in Nat, NEW block \in S
    PROVE  PutBlock(doc, i, block) \in Seq(S)
BY DEF PutBlock

LEMMA MovesEffect ==
    ASSUME TypeInv, NEW d \in Dumpers, NEW frame \in Thread, Moves(d, frame)
    PROVE  /\ dumper' \in [Dumpers -> Thread] /\ dumper'[d] = frame
           /\ \A e \in Dumpers \ {d} : dumper'[e] = dumper[e]
BY DEF TypeInv, TypeOK, Thread, Moves

LEMMA FreeUnusedType ==
    ASSUME TypeInv, FreeUnused
    PROVE  content' \in [Files -> Seq(0..MaxEntries)]
<1>1. <<>> \in Seq(0..MaxEntries)
  OBVIOUS
<1>2. \A f \in Files : content[f] \in Seq(0..MaxEntries)
  BY DEF TypeInv, TypeOK
<1>3. QED
  BY <1>1, <1>2, Zenon DEF FreeUnused

(* What a writer's step does to its own frame.                             *)
LEMMA WriteEffect ==
    ASSUME TypeInv, NEW d \in Dumpers, WriteBlock(d)
    PROVE  /\ dumper' \in [Dumpers -> Thread]
           /\ \A e \in Dumpers \ {d} : dumper'[e] = dumper[e]
           /\ dumper'[d].pos = dumper[d].pos + 1 /\ dumper'[d].snap = dumper[d].snap
           /\ dumper'[d].alone = dumper[d].alone
           /\ \/ /\ dumper[d].pos + 1 = dumper[d].snap
                 /\ dumper'[d].pc = "replace" /\ dumper'[d].file = None
              \/ /\ dumper[d].pos + 1 < dumper[d].snap
                 /\ dumper'[d].pc = "write" /\ dumper'[d].file = dumper[d].file
<1> DEFINE t == dumper[d]
           ends == t.pos + 1 = t.snap
           g == [t EXCEPT !.pos = t.pos + 1,
                          !.pc = IF ends THEN "replace" ELSE "write",
                          !.file = IF ends THEN None ELSE @]
<1>1. t \in Thread /\ t.pc = "write" /\ t.pos < t.snap
  BY DEF WriteBlock, TypeInv, TypeOK, Thread, PlaceInv
<1>2. Moves(d, g)
  BY Zenon DEF WriteBlock, IsLast
<1>3. MaxEntries \in Nat
  BY MirrorAssumption
<1> HIDE DEF t
<1>4. CASE ends
  <2>1. g = [t EXCEPT !.pos = t.pos + 1, !.pc = "replace", !.file = None]
    BY <1>4
  <2>2. /\ g \in Thread /\ g.pos = t.pos + 1 /\ g.snap = t.snap /\ g.alone = t.alone
        /\ g.pc = "replace" /\ g.file = None
    BY <1>1, <1>3, <1>4, <2>1 DEF Thread
  <2> HIDE DEF g
  <2>3. QED
    BY <1>2, <1>4, <2>2, MovesEffect DEF t
<1>5. CASE ~ ends
  <2>1. g = [t EXCEPT !.pos = t.pos + 1]
    BY <1>1, <1>5 DEF Thread
  <2>2. /\ g \in Thread /\ g.pos = t.pos + 1 /\ g.snap = t.snap /\ g.alone = t.alone
        /\ g.pc = "write" /\ g.file = t.file /\ t.pos + 1 < t.snap
    BY <1>1, <1>3, <1>5, <2>1 DEF Thread
  <2> HIDE DEF g
  <2>3. QED
    BY <1>2, <2>2, MovesEffect DEF t
<1>6. QED
  BY <1>4, <1>5

LEMMA ChangeEffect ==
    ASSUME TypeInv, NEW d \in Dumpers, Change(d)
    PROVE  /\ entries' \in 1..MaxEntries /\ overlapped' \in BOOLEAN
           /\ dumper' \in [Dumpers -> Thread]
           /\ dumper'[d].pc = "dump" /\ dumper'[d].pos = 0
           /\ dumper'[d].alone => \A o \in Dumpers \ {d} : ~ Active(o)
           /\ \A e \in Dumpers \ {d} :
                /\ dumper'[e].pc = dumper[e].pc /\ dumper'[e].snap = dumper[e].snap
                /\ dumper'[e].pos = dumper[e].pos /\ dumper'[e].file = dumper[e].file
                /\ Active(e) => ~ dumper'[e].alone
<1>1. entries' \in 1..MaxEntries /\ overlapped' \in BOOLEAN
  BY DEF Change, TypeInv, TypeOK
<1> DEFINE clear == \A o \in Dumpers \ {d} : ~ Active(o)
<1>2. dumper'[d] = [Idle EXCEPT !.pc = "dump", !.alone = clear] /\ clear \in BOOLEAN
  BY Zenon DEF Change
<1> HIDE DEF clear
<1>3. /\ dumper'[d] \in Thread /\ dumper'[d].pc = "dump" /\ dumper'[d].pos = 0
      /\ dumper'[d].alone => clear
  <2>1. 0 \in 0..MaxEntries
    BY MirrorAssumption
  <2>2. dumper'[d] = [pc |-> "dump", snap |-> 0, file |-> None, pos |-> 0,
                      alone |-> clear]
    BY <1>2 DEF Idle
  <2>3. CASE clear
    <3>1. [pc |-> "dump", snap |-> 0, file |-> None, pos |-> 0,
           alone |-> clear] \in Thread
      BY <1>2, <2>1, Zenon DEF Thread
    <3>2. QED
      BY <2>2, <2>3, <3>1
  <2>4. CASE ~ clear
    <3>1. dumper'[d] = [pc |-> "dump", snap |-> 0, file |-> None, pos |-> 0,
                        alone |-> FALSE]
      BY <1>2, <2>2, <2>4
    <3>2. QED
      BY <2>1, <3>1 DEF Thread
  <2>5. QED
    BY <2>3, <2>4
<1>4. ASSUME NEW e \in Dumpers \ {d}
      PROVE  /\ dumper'[e] \in Thread
             /\ dumper'[e].pc = dumper[e].pc /\ dumper'[e].snap = dumper[e].snap
             /\ dumper'[e].pos = dumper[e].pos /\ dumper'[e].file = dumper[e].file
             /\ Active(e) => ~ dumper'[e].alone
  <2> DEFINE still == dumper[e].alone /\ ~ Active(e)
  <2>1. dumper'[e] = [dumper[e] EXCEPT !.alone = still] /\ still \in BOOLEAN
    BY DEF Change
  <2>2. dumper[e] \in Thread /\ (Active(e) => still = FALSE)
    BY DEF TypeInv, TypeOK, Thread
  <2> HIDE DEF still
  <2>3. QED
    BY <2>1, <2>2 DEF Thread
<1>5. dumper' = [e \in Dumpers |-> dumper'[e]]
  BY DEF Change
<1>6. QED
  BY <1>1, <1>3, <1>4, <1>5 DEF clear

LEMMA TypeStep ==
    ASSUME TypeInv, [Next]_vars
    PROVE  TypeInv'
<1>1. Idle \in Thread /\ MaxEntries \in Nat /\ None \notin Files
  BY MirrorAssumption DEF Idle, Thread
<1>2. dumper \in [Dumpers -> Thread]
  BY DEF TypeInv, TypeOK, Thread
<1>3. ASSUME NEW d \in Dumpers, NEW frame \in Thread, Moves(d, frame),
             entries' = entries,
             frame.pc = "open" => frame.snap # 0 /\ frame.pos = 0,
             frame.pc = "write" => frame.file \in Files /\ frame.pos < frame.snap,
             frame.pc # "dump"
      PROVE  /\ dumper' \in [Dumpers -> Thread]
             /\ \A e \in Dumpers : PlaceInv(e)'
  BY <1>3, MovesEffect DEF TypeInv, PlaceInv
<1>4. ASSUME NEW d \in Dumpers, Change(d) PROVE TypeInv'
  <2>1. \A e \in Dumpers : PlaceInv(e)'
    BY <1>4, ChangeEffect DEF TypeInv, PlaceInv
  <2>2. /\ entries' \in 0..MaxEntries /\ overlapped' \in BOOLEAN
        /\ dumper' \in [Dumpers -> Thread]
    BY <1>1, <1>4, ChangeEffect
  <2>3. UNCHANGED <<crashes, content, tmp, mirror, fd, seen>>
    BY <1>4 DEF Change
  <2>4. QED
    BY <2>1, <2>2, <2>3 DEF TypeInv, TypeOK, Thread
<1>5. ASSUME NEW d \in Dumpers, Snapshot(d) PROVE TypeInv'
  <2> DEFINE g == [dumper[d] EXCEPT !.pc = "open", !.snap = entries]
  <2>1. g \in Thread /\ g.pc = "open" /\ g.snap # 0 /\ g.pos = 0
    BY <1>2, <1>5 DEF Snapshot, TypeInv, TypeOK, PlaceInv, Thread
  <2>2. Moves(d, g) /\ UNCHANGED <<overlapped, entries, crashes, content, tmp, mirror, fd, seen>>
    BY <1>5 DEF Snapshot
  <2> HIDE DEF g
  <2>3. dumper' \in [Dumpers -> Thread] /\ \A e \in Dumpers : PlaceInv(e)'
    BY <1>3, <2>1, <2>2
  <2>4. QED
    BY <2>2, <2>3 DEF TypeInv, TypeOK, Thread
<1>6. ASSUME NEW d \in Dumpers, OpenTmp(d) PROVE TypeInv'
  <2>1. PICK f \in Files :
          /\ tmp' = f /\ content' = [content EXCEPT ![f] = <<>>]
          /\ Moves(d, [dumper[d] EXCEPT !.pc = "write", !.file = f])
    BY <1>6 DEF OpenTmp
  <2> DEFINE g == [dumper[d] EXCEPT !.pc = "write", !.file = f]
  <2>2. g \in Thread /\ g.pc = "write" /\ g.file \in Files /\ g.pos < g.snap
    <3>1. dumper[d] \in Thread /\ dumper[d].snap # 0 /\ dumper[d].pos = 0
      BY <1>2, <1>6 DEF OpenTmp, TypeInv, PlaceInv
    <3>2. dumper[d].snap \in 1..MaxEntries
      BY <1>1, <3>1 DEF Thread
    <3>3. g \in Thread /\ g.pc = "write" /\ g.file = f
          /\ g.pos = dumper[d].pos /\ g.snap = dumper[d].snap
      BY <3>1 DEF Thread
    <3> HIDE DEF g
    <3>4. QED
      BY <3>1, <3>2, <3>3
  <2>3. dumper' \in [Dumpers -> Thread] /\ \A e \in Dumpers : PlaceInv(e)'
    <3>1. Moves(d, g) /\ entries' = entries
      BY <1>6, <2>1 DEF OpenTmp
    <3> HIDE DEF g
    <3>2. QED
      BY <1>3, <2>2, <3>1
  <2>4. QED
    BY <1>6, <2>1, <2>3 DEF OpenTmp, TypeInv, TypeOK, Thread
<1>7. ASSUME NEW d \in Dumpers, WriteBlock(d) PROVE TypeInv'
  <2> DEFINE t == dumper[d]
  <2>1. t.file \in Files /\ t.pos + 1 \in Nat /\ t.snap \in 0..MaxEntries
    BY <1>2, <1>7 DEF WriteBlock, TypeInv, PlaceInv, Thread
  <2>2. PutBlock(content[t.file], t.pos + 1, t.snap) \in Seq(0..MaxEntries)
    <3>1. content[t.file] \in Seq(0..MaxEntries) /\ Gap \in 0..MaxEntries
      BY <1>1, <2>1 DEF TypeInv, TypeOK, Gap
    <3> HIDE DEF t
    <3>2. QED
      BY <2>1, <3>1, PutBlockType
  <2>3. content' \in [Files -> Seq(0..MaxEntries)]
    BY <1>7, <2>1, <2>2 DEF WriteBlock, TypeInv, TypeOK
  <2>4. dumper' \in [Dumpers -> Thread] /\ \A e \in Dumpers : PlaceInv(e)'
    BY <1>7, <2>1, WriteEffect DEF WriteBlock, TypeInv, PlaceInv
  <2>5. QED
    BY <1>7, <2>3, <2>4 DEF WriteBlock, TypeInv, TypeOK, Thread
<1>8. ASSUME NEW d \in Dumpers, Moves(d, Idle), entries' = entries
      PROVE  dumper' \in [Dumpers -> Thread] /\ \A e \in Dumpers : PlaceInv(e)'
  BY <1>1, <1>3, <1>8 DEF Idle
<1>9. ASSUME NEW d \in Dumpers, WriteFails(d) PROVE TypeInv'
  BY <1>8, <1>9, FreeUnusedType DEF WriteFails, TypeInv, TypeOK, Thread
<1>10. ASSUME NEW d \in Dumpers, Replace(d) PROVE TypeInv'
  BY <1>8, <1>10, FreeUnusedType DEF Replace, TypeInv, TypeOK, Thread
<1>11. ASSUME NEW d \in Dumpers, ReplaceFails(d) PROVE TypeInv'
  BY <1>8, <1>11 DEF ReplaceFails, TypeInv, TypeOK, Thread
<1>12. CASE Crash
  <2>1. dumper' \in [Dumpers -> Thread] /\ \A e \in Dumpers : PlaceInv(e)'
    BY <1>1, <1>12 DEF Crash, PlaceInv, Idle
  <2>2. QED
    <3>1. entries' \in 0..MaxEntries /\ crashes' \in 0..MaxCrashes
      BY <1>12, MirrorAssumption DEF Crash, TypeInv, TypeOK
    <3>2. content' \in [Files -> Seq(0..MaxEntries)]
      BY <1>12, FreeUnusedType DEF Crash
    <3>3. QED
      BY <1>12, <2>1, <3>1, <3>2 DEF Crash, TypeInv, TypeOK, Thread
<1>13. CASE OpenMirrorFile
  BY <1>13 DEF OpenMirrorFile, TypeInv, TypeOK, PlaceInv
<1>14. CASE ReadMirrorFile
  BY <1>14, FreeUnusedType DEF ReadMirrorFile, TypeInv, TypeOK, PlaceInv
<1>15. CASE UNCHANGED vars
  BY <1>15 DEF vars, TypeInv, TypeOK, PlaceInv
<1>16. QED
  BY <1>4, <1>5, <1>6, <1>7, <1>9, <1>10, <1>11, <1>12, <1>13, <1>14, <1>15
  DEF Next, DumpStep

LEMMA TypeInit == Init => TypeInv
<1> SUFFICES ASSUME Init PROVE TypeInv
  OBVIOUS
<1>1. 0 \in 0..MaxEntries /\ 0 \in 0..MaxCrashes /\ <<>> \in Seq(0..MaxEntries)
  BY MirrorAssumption
<1>2. content \in [Files -> Seq(0..MaxEntries)]
  BY <1>1 DEF Init
<1>3. Idle \in Thread /\ Idle.pc = "idle"
  BY <1>1 DEF Idle, Thread
<1>4. dumper \in [Dumpers -> Thread] /\ \A d \in Dumpers : PlaceInv(d)
  BY <1>3 DEF Init, PlaceInv
<1>5. QED
  BY <1>1, <1>2, <1>4 DEF Init, TypeInv, TypeOK, Thread

(* Type correctness of the dumps, the files and the reader, also where     *)
(* dumps overlap and their blocks mix in one file.                         *)
THEOREM MirrorTypeCorrect == Spec => []TypeOK
<1>1. TypeInv => TypeOK
  BY DEF TypeInv
<1>2. QED
  BY <1>1, TypeInit, TypeStep, PTL DEF Spec

-----------------------------------------------------------------------------
(* A dump that is alone has the temporary file to itself.                  *)
SoloInv ==
    \A d \in Dumpers :
        LET t == dumper[d] IN
        Active(d) /\ t.alone =>
            /\ \A e \in Dumpers \ {d} : ~ Active(e)
            /\ t.pc = "write" => t.file = tmp /\ content[tmp] = Prefix(t.snap, t.pos)
            /\ t.pc = "replace" => /\ tmp # None /\ t.snap # 0
                                   /\ content[tmp] = Prefix(t.snap, t.snap)

(* The blocks of a lone writer are all there is in its file.               *)
LEMMA SoloStep ==
    ASSUME TypeInv, SoloInv, [Next]_vars
    PROVE  SoloInv'
<1>1. dumper \in [Dumpers -> Thread]
  BY DEF TypeInv, TypeOK, Thread
<1>2. ASSUME NEW d \in Dumpers, Change(d) PROVE SoloInv'
  <2>1. UNCHANGED <<tmp, content>>
    BY <1>2 DEF Change
  <2>2. ASSUME NEW e \in Dumpers, Active(e)', dumper'[e].alone
        PROVE  e = d /\ (\A o \in Dumpers \ {e} : ~ Active(o)') /\ dumper'[e].pc = "dump"
    BY <1>2, <2>2, ChangeEffect DEF Active
  <2>3. QED
    BY <2>2 DEF SoloInv
<1>3. ASSUME NEW d \in Dumpers, Active(d), dumper' \in [Dumpers -> Thread],
             \A e \in Dumpers \ {d} : dumper'[e] = dumper[e],
             dumper'[d].alone /\ Active(d)' => dumper[d].alone,
             dumper[d].alone /\ dumper'[d].pc = "write" =>
               /\ dumper'[d].file = tmp'
               /\ content'[tmp'] = Prefix(dumper'[d].snap, dumper'[d].pos),
             dumper[d].alone /\ dumper'[d].pc = "replace" =>
               /\ tmp' # None /\ dumper'[d].snap # 0
               /\ content'[tmp'] = Prefix(dumper'[d].snap, dumper'[d].snap)
      PROVE  SoloInv'
  <2> SUFFICES ASSUME NEW e \in Dumpers, Active(e)', dumper'[e].alone
               PROVE  LET t == dumper'[e] IN
                      /\ \A o \in Dumpers \ {e} : ~ Active(o)'
                      /\ t.pc = "write" =>
                           t.file = tmp' /\ content'[tmp'] = Prefix(t.snap, t.pos)
                      /\ t.pc = "replace" => /\ tmp' # None /\ t.snap # 0
                                             /\ content'[tmp'] = Prefix(t.snap, t.snap)
    BY DEF SoloInv
  <2>1. e = d
    BY <1>3 DEF SoloInv, Active
  <2>2. \A o \in Dumpers \ {d} : ~ Active(o)'
    BY <1>3, <2>1 DEF SoloInv, Active
  <2>3. QED
    BY <1>3, <2>1, <2>2
<1>4. ASSUME NEW d \in Dumpers, Snapshot(d) PROVE SoloInv'
  <2> DEFINE g == [dumper[d] EXCEPT !.pc = "open", !.snap = entries]
  <2>1. g \in Thread /\ g.pc = "open" /\ g.alone = dumper[d].alone
    BY <1>1 DEF TypeInv, TypeOK, Thread
  <2>2. Moves(d, g) /\ Active(d)
    BY <1>4 DEF Snapshot, Active
  <2> HIDE DEF g
  <2>3. QED
    BY <1>3, <2>1, <2>2, MovesEffect
<1>5. ASSUME NEW d \in Dumpers, OpenTmp(d) PROVE SoloInv'
  <2>1. PICK f \in Files :
          /\ tmp' = f /\ content' = [content EXCEPT ![f] = <<>>]
          /\ Moves(d, [dumper[d] EXCEPT !.pc = "write", !.file = f])
    BY <1>5 DEF OpenTmp
  <2> DEFINE g == [dumper[d] EXCEPT !.pc = "write", !.file = f]
  <2>2. /\ g \in Thread /\ g.pc = "write" /\ g.file = f /\ g.pos = 0
        /\ g.alone = dumper[d].alone
    BY <1>1, <1>5 DEF OpenTmp, TypeInv, PlaceInv, Thread
  <2>3. Moves(d, g) /\ Active(d)
    BY <1>5, <2>1 DEF OpenTmp, Active
  <2>4. content'[f] = <<>> /\ Prefix(g.snap, 0) = <<>>
    BY <2>1 DEF TypeInv, TypeOK, Prefix
  <2> HIDE DEF g
  <2>5. QED
    BY <1>3, <2>1, <2>2, <2>3, <2>4, MovesEffect
<1>6. ASSUME NEW d \in Dumpers, WriteBlock(d) PROVE SoloInv'
  <2> DEFINE t == dumper[d]
  <2>1. /\ t.file \in Files /\ t.pos \in Nat /\ t.snap \in Nat /\ t.snap # 0
        /\ t.pc = "write" /\ tmp' = tmp
    BY <1>1, <1>6, MirrorAssumption DEF WriteBlock, TypeInv, PlaceInv, Thread
  <2>2. ASSUME t.alone PROVE t.file = tmp /\ content'[tmp] = Prefix(t.snap, t.pos + 1)
    <3>1. t.file = tmp /\ content[tmp] = Prefix(t.snap, t.pos)
      BY <2>1, <2>2 DEF SoloInv, Active
    <3>2. content'[tmp] = PutBlock(content[tmp], t.pos + 1, t.snap)
      BY <1>6, <2>1, <3>1 DEF WriteBlock, TypeInv, TypeOK
    <3> HIDE DEF t
    <3>3. QED
      BY <2>1, <3>1, <3>2, PrefixGrows
  <2>3. tmp # None \/ ~ t.alone
    BY <2>1, <2>2, MirrorAssumption
  <2>4. QED
    BY <1>3, <1>6, <2>1, <2>2, <2>3, WriteEffect DEF Active
<1>7. Idle \in Thread /\ Idle.pc = "idle"
  BY MirrorAssumption DEF Idle, Thread
<1>8. ASSUME NEW d \in Dumpers, Active(d), Moves(d, Idle) PROVE SoloInv'
  BY <1>3, <1>7, <1>8, MovesEffect DEF Active
<1>9. ASSUME NEW d \in Dumpers, WriteFails(d) \/ Replace(d) \/ ReplaceFails(d)
      PROVE  SoloInv'
  BY <1>8, <1>9 DEF WriteFails, Replace, ReplaceFails, Active
<1>10. CASE Crash
  BY <1>7, <1>10 DEF Crash, SoloInv, Active
<1>11. ASSUME UNCHANGED <<tmp, dumper>>, tmp # None => content'[tmp] = content[tmp]
       PROVE  SoloInv'
  <2>1. \A d \in Dumpers : dumper[d].pc = "write" => dumper[d].file # None
    BY MirrorAssumption DEF TypeInv, PlaceInv
  <2>2. QED
    BY <1>11, <2>1 DEF SoloInv, Active
<1>12. CASE OpenMirrorFile
  BY <1>11, <1>12 DEF OpenMirrorFile
<1>13. CASE ReadMirrorFile
  BY <1>11, <1>13 DEF ReadMirrorFile, FreeUnused, InUse, TypeInv, TypeOK
<1>14. CASE UNCHANGED vars
  BY <1>11, <1>14 DEF vars
<1>15. QED
  BY <1>2, <1>4, <1>5, <1>6, <1>9, <1>10, <1>12, <1>13, <1>14 DEF Next, DumpStep

(* A dump that overlaps with no other one leaves a whole document of the   *)
(* entries that it took, whatever earlier dumps and crashes left behind.   *)
THEOREM SoloDumpRepairsCorrect == Spec => SoloDumpRepairs
<1> DEFINE Repairs ==
      \A d \in Dumpers :
        dumper[d].alone /\ dumper[d].pc = "replace" /\ dumper'[d].pc = "idle"
          /\ crashes' = crashes
        => mirror' # None /\ Whole(content'[mirror'])
           /\ Len(content'[mirror']) = dumper[d].snap
<1>1. Init => SoloInv
  BY DEF Init, SoloInv, Active, Idle
<1>2. TypeInv /\ SoloInv /\ [Next]_vars => Repairs
  <2> SUFFICES ASSUME TypeInv, SoloInv, [Next]_vars, NEW d \in Dumpers,
                      dumper[d].alone, dumper[d].pc = "replace",
                      dumper'[d].pc = "idle", crashes' = crashes
               PROVE  /\ mirror' # None /\ Whole(content'[mirror'])
                      /\ Len(content'[mirror']) = dumper[d].snap
    OBVIOUS
  <2>1. /\ \A e \in Dumpers \ {d} : ~ Active(e)
        /\ tmp \in Files /\ dumper[d].snap \in Nat \ {0}
        /\ content[tmp] = Prefix(dumper[d].snap, dumper[d].snap)
    BY MirrorAssumption DEF SoloInv, Active, TypeInv, TypeOK
  <2>2. Replace(d)
    <3>1. \A e \in Dumpers : ~ Change(e)
      BY ChangeEffect DEF Change, Active
    <3>2. \A e \in Dumpers \ {d} : ~ (DumpStep(e) /\ ~ Change(e))
      BY <2>1 DEF Active, DumpStep, Snapshot, OpenTmp, WriteBlock, WriteFails,
        Replace, ReplaceFails
    <3>3. ~ Crash /\ ~ OpenMirrorFile /\ ~ ReadMirrorFile /\ ~ UNCHANGED vars
      BY DEF Crash, OpenMirrorFile, ReadMirrorFile, vars, TypeInv, TypeOK
    <3>4. DumpStep(d)
      BY <3>1, <3>2, <3>3 DEF Next
    <3>5. QED
      BY <2>1, <3>1, <3>4, MirrorAssumption
      DEF DumpStep, Snapshot, OpenTmp, WriteBlock, WriteFails, ReplaceFails
  <2>3. mirror' = tmp /\ content'[tmp] = content[tmp]
    BY <2>1, <2>2 DEF Replace, FreeUnused, InUse, TypeInv, TypeOK
  <2>4. Len(content[tmp]) = dumper[d].snap
    BY <2>1 DEF Prefix
  <2>5. QED
    BY <2>1, <2>3, <2>4, PrefixWhole, MirrorAssumption
<1>3. TypeInv /\ SoloInv /\ [Next]_vars => TypeInv' /\ SoloInv'
  BY TypeStep, SoloStep
<1>4. SoloDumpRepairs <=> [][Repairs]_vars
  BY DEF SoloDumpRepairs
<1>5. QED
  BY <1>1, <1>2, <1>3, <1>4, TypeInit, PTL DEF Spec
=============================================================================
