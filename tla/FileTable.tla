----------------------------- MODULE FileTable -----------------------------
(***************************************************************************)
(* The virtual disc (vfst.c, and main.c's and disc.c's use of it): mods'   *)
(* files.txt lines turned into a rebuilt file table and into extents past  *)
(* the image's end, before the game starts.  A line at a fault refuses its *)
(* whole mod, and the build starts again without it; two mods at one path  *)
(* stop the run.                                                           *)
(*                                                                         *)
(* A path is a sequence of names, the root the empty one; a name stands    *)
(* for every spelling that matches it.  Offsets and sizes are in units, and *)
(* a byte is whose it is and where in it.                                  *)
(***************************************************************************)
EXTENDS Integers, Sequences, FiniteSets, SequencesExt, FiniteSetsExt

CONSTANTS
    Base,         \* the disc's table: entries [dir, name, a, b] from 0 on
    Lines,        \* what SOA_MODS may hold: sequences of files.txt lines
    SourceCap, MemCap,            \* SOURCE_CAP, MEM_CAP
    Covered,                      \* the image's end
    OverlayBase, OverlayEnd,      \* DISC_OVERLAY_BASE, DISC_OVERLAY_END
    Align                         \* ALIGN

VARIABLES
    stage,        \* "build", "serialise", "check", "install", "run", "stopped"
    ops,          \* the lines: [verb, path, target, size, mod]
    refused,      \* the mods refused
    pos,          \* the line at hand, in the order of the two phases
    table,        \* Table: the base entries, the added ones in turn
    claims,       \* the lines that have their place
    extents,      \* g_vx: [off, size, op]
    cursor, mem,
    offset,       \* DiscFileOp.offset, by line
    out           \* the table rebuilt; at the end, the one the game sees

vars == <<stage, ops, refused, pos, table, claims, extents, cursor, mem, offset, out>>

BaseTable == [base |-> Base, added |-> <<>>]

Fresh ==
    /\ pos = 1 /\ table = BaseTable /\ claims = {} /\ extents = {}
    /\ cursor = OverlayBase /\ mem = 0

Init ==
    /\ stage = "build" /\ ops \in Lines /\ refused = {} /\ Fresh
    /\ offset = << >> /\ out = Base

-----------------------------------------------------------------------------
(* Walking a table *)

Count(t) == Cardinality(DOMAIN t)
EndOf(t, d) == IF d = 0 THEN Count(t) ELSE t[d].b

\* A directory's own entries, subdirectories' ranges skipped.
Own(t, d) ==
    LET from[i \in 0 .. Count(t)] ==
            IF i >= EndOf(t, d) THEN {}
            ELSE {i} \cup from[IF t[i].dir THEN t[i].b ELSE i + 1]
    IN from[d + 1]

\* walk: the entry at a path, or -1.
Walk(t, path) ==
    FoldLeft(LAMBDA d, name :
                 IF d < 0 \/ (d >= 0 /\ ~t[d].dir) THEN -1
                 ELSE LET named == {i \in Own(t, d) : t[i].name = name}
                      IN IF named = {} THEN -1 ELSE Min(named),
             0, path)

\* A path, from the directories that hold the entry.
PathOf(t, i) ==
    LET holding == SetToSortSeq({d \in 1 .. i - 1 : t[d].dir /\ i < t[d].b}, <)
    IN IF i = 0 THEN <<>> ELSE [n \in DOMAIN holding |-> t[holding[n]].name] \o <<t[i].name>>

IsDir(i) == i >= 0 /\ Base[i].dir
IsFile(i) == i >= 0 /\ ~Base[i].dir

\* added, find: what a path names on the disc or among the added files.
Added(path) == {n \in DOMAIN table.added :
                   Append(PathOf(Base, table.added[n].dir), table.added[n].name) = path}
Found(path) == Walk(Base, path) >= 0 \/ Added(path) # {}
FoundFile(path) == IF Walk(Base, path) >= 0 THEN IsFile(Walk(Base, path)) ELSE Added(path) # {}
ExtentAt(path) == IF Walk(Base, path) >= 0
                  THEN table.base[Walk(Base, path)] ELSE table.added[Min(Added(path))]

-----------------------------------------------------------------------------
(* build_pass, a line at a time *)

\* Replacements and additions of every mod, then every mod's aliases.
Order_AsGiven == [n \in DOMAIN ops |-> n]
Order ==
    LET all == [n \in DOMAIN ops |-> n]
        Aliases(yes) == SelectSeq(all, LAMBDA n : (ops[n].verb = "alias") = yes)
    IN Aliases(FALSE) \o Aliases(TRUE)

Directory(op) == Walk(Base, Front(op.path))

FaultOfSource(op) ==
    \/ op.size > SourceCap \/ mem + op.size > MemCap \/ cursor + op.size > OverlayEnd
FaultOfAlias(n) ==
    \/ Found(ops[n].path)
    \/ \E j \in DOMAIN ops \ {n} : /\ ops[j].verb = "alias" /\ ops[j].mod \notin refused
                                   /\ ops[j].path = ops[n].target
    \/ ~FoundFile(ops[n].target)
    \/ ~IsDir(Directory(ops[n]))
Fault(n) ==
    LET op == ops[n]
    IN \/ op.verb # "alias" /\ FaultOfSource(op)
       \/ op.verb = "replace" /\ ~IsFile(Walk(Base, op.path))
       \/ op.verb = "add" /\ (Found(op.path) \/ ~IsDir(Directory(op)))
       \/ op.verb = "alias" /\ FaultOfAlias(n)

Sharing(n) == {c \in claims : ops[c].path = ops[n].path}
Twice(n) == \E c \in Sharing(n) : ops[c].mod = ops[n].mod
ValidPath(path) == path # <<>>

\* The whole mod, and build again without it.
Again == /\ pos' = 1 /\ table' = BaseTable /\ claims' = {} /\ extents' = {}
         /\ cursor' = OverlayBase /\ mem' = 0
RefuseMod(n) == refused' = refused \cup {ops[n].mod} /\ Again /\ UNCHANGED <<stage, offset>>

Offset(n, at) == offset' = [m \in DOMAIN offset \cup {n} |-> IF m = n THEN at ELSE offset[m]]
Aligned(at) == ((at + Align - 1) \div Align) * Align + Align
Placed(op, a, b) ==
    IF op.verb = "replace"
    THEN [table EXCEPT !.base[Walk(Base, op.path)].a = a, !.base[Walk(Base, op.path)].b = b]
    ELSE [table EXCEPT !.added = Append(@, [dir |-> Directory(op), name |-> Last(op.path),
                                            a |-> a, b |-> b])]

PlaceSource(n) ==
    /\ table' = Placed(ops[n], cursor, ops[n].size)
    /\ extents' = extents \cup {[off |-> cursor, size |-> ops[n].size, op |-> n]}
    /\ Offset(n, cursor)
    /\ mem' = mem + ops[n].size /\ cursor' = Aligned(cursor + ops[n].size)

PlaceAlias(n) ==
    LET at == ExtentAt(ops[n].target)
    IN /\ table' = Placed(ops[n], at.a, at.b) /\ Offset(n, at.a)
       /\ UNCHANGED <<extents, mem, cursor>>

Place(n) ==
    /\ IF ops[n].verb = "alias" THEN PlaceAlias(n) ELSE PlaceSource(n)
    /\ claims' = claims \cup {n} /\ pos' = pos + 1 /\ UNCHANGED <<refused, stage>>

BuildLine ==
    /\ stage = "build" /\ pos <= Len(Order)
    /\ LET n == Order[pos]
       IN IF ops[n].mod \in refused
          THEN pos' = pos + 1
               /\ UNCHANGED <<stage, refused, table, claims, extents, cursor, mem, offset>>
          ELSE IF ~ValidPath(ops[n].path) \/ Twice(n) THEN RefuseMod(n)
          ELSE IF Sharing(n) # {}
          THEN stage' = "stopped" /\ extents' = {}
               /\ UNCHANGED <<refused, pos, table, claims, cursor, mem, offset>>
          ELSE IF Fault(n) THEN RefuseMod(n) ELSE Place(n)
    /\ UNCHANGED <<ops, out>>

-----------------------------------------------------------------------------
(* serialise, disc_overlay_check and main.c's installing it *)

Entry(i) == IF i < Count(Base) THEN table.base[i]
            ELSE LET x == table.added[i - Count(Base) + 1]
                 IN [dir |-> FALSE, name |-> x.name, a |-> x.a, b |-> x.b]
AddedTo(d) == SelectSeq([n \in DOMAIN table.added |-> Count(Base) + n - 1],
                        LAMBDA i : table.added[i - Count(Base) + 1].dir = d)

\* emit_dir: a directory, its own entries in base order, the files added to
\* it; and the end of its range after them all.
Emitted ==
    LET of[d \in DOMAIN Base] ==
            IF ~Base[d].dir THEN <<d>>
            ELSE LET own == SetToSortSeq(Own(Base, d), <)
                 IN <<d>> \o FlattenSeq([n \in DOMAIN own |-> of[own[n]]]) \o AddedTo(d)
    IN of

IndexIn(seq, x) == CHOOSE p \in DOMAIN seq : seq[p] = x
Rebuilt ==
    LET order == Emitted[0]
    IN [p \in 0 .. Len(order) - 1 |->
           LET i == order[p + 1]
           IN IF i \in DOMAIN Base /\ Base[i].dir
              THEN [dir |-> TRUE, name |-> Base[i].name, b |-> p + Len(Emitted[i]),
                    a |-> IF i = 0 THEN 0 ELSE IndexIn(order, Base[i].a) - 1]
              ELSE Entry(i)]

Serialise ==
    /\ stage = "build" /\ pos > Len(Order)
    /\ out' = Rebuilt /\ stage' = "check"
    /\ UNCHANGED <<ops, refused, pos, table, claims, extents, cursor, mem, offset>>

Standing == {n \in DOMAIN ops : ops[n].mod \notin refused}
Files(t) == {i \in DOMAIN t : ~t[i].dir}
ReplacedBy(path) == {n \in Standing : ops[n].verb = "replace" /\ ops[n].path = path}

At(path, a, b) ==
    Walk(out, path) >= 0 /\ out[Walk(out, path)].a = a /\ out[Walk(out, path)].b = b
Checked ==
    /\ Count(out) = Count(Base) + Cardinality({n \in Standing : ops[n].verb # "replace"})
    /\ \A i \in Files(Base) :
          LET path == PathOf(Base, i)
          IN IF ReplacedBy(path) = {} THEN At(path, Base[i].a, Base[i].b)
             ELSE At(path, offset[Max(ReplacedBy(path))], ops[Max(ReplacedBy(path))].size)
    /\ \A n \in Standing : ops[n].verb # "replace" =>
          Walk(out, ops[n].path) >= 0 /\ out[Walk(out, ops[n].path)].a = offset[n]

\* Parked only when it is right; with every mod refused it is the disc's own.
Install ==
    /\ stage = "check"
    /\ stage' = IF Checked THEN "run" ELSE "broken"
    /\ out' = IF Standing = {} THEN Base ELSE out
    /\ UNCHANGED <<ops, refused, pos, table, claims, extents, cursor, mem, offset>>

Next == BuildLine \/ Serialise \/ Install

Spec == Init /\ [][Next]_vars

-----------------------------------------------------------------------------
(* The drive, and what a path should read *)

Byte(of, n, at) == [of |-> of, n |-> n, at |-> at]

\* disc_peek, disc_overlay_read: the image, then mods' files, zeros between.
Served(o) ==
    LET holding == {v \in extents : v.off <= o /\ o < v.off + v.size}
    IN IF o < Covered THEN Byte("image", 0, o)
       ELSE IF o >= OverlayBase /\ holding # {}
       THEN LET v == CHOOSE v \in holding : TRUE IN Byte("mod", v.op, o - v.off)
       ELSE Byte("zero", 0, 0)
Read(path) ==
    LET x == out[Walk(out, path)] IN [n \in 1 .. x.b |-> Served(x.a + n - 1)]

Source(n) == [k \in 1 .. ops[n].size |-> Byte("mod", n, k - 1)]
Image(i) == [k \in 1 .. Base[i].b |-> Byte("image", 0, Base[i].a + k - 1)]
OnDisc(path) == IF ReplacedBy(path) # {} THEN Source(Max(ReplacedBy(path)))
                ELSE Image(Walk(Base, path))
Meant(n) ==
    IF ops[n].verb # "alias" THEN Source(n)
    ELSE IF Walk(Base, ops[n].target) >= 0 THEN OnDisc(ops[n].target)
    ELSE Source(CHOOSE m \in Standing : ops[m].path = ops[n].target)

\* EachPathItsFile: with the table the game is given, each path of the disc reads what was
\* on the disc or its replacement, each path a mod placed its source or what its target
\* reads, and there are no other paths: a refused mod's nowhere (disc_overlay_build,
\* disc_overlay_check, disc_peek).
EachPathItsFile ==
    /\ stage # "broken"
    /\ stage = "run" =>
          LET disc == {PathOf(Base, i) : i \in Files(Base)}
              placed == {ops[n].path : n \in Standing}
          IN /\ {PathOf(out, i) : i \in Files(out)} = disc \cup placed
             /\ \A path \in disc : Read(path) = OnDisc(path)
             /\ \A n \in Standing : Read(ops[n].path) = Meant(n)
=============================================================================
