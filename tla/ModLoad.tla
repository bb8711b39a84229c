------------------------------ MODULE ModLoad ------------------------------
(***************************************************************************)
(* The mod loader (mod.c): the folders under SOA_MODS put in order, their  *)
(* files.txt scanned before the disc's file table is parked, each mod      *)
(* loaded or refused whole, and the flag numbers they claim, kept in       *)
(* mods.lock from one start to the next.  Between starts the player adds,  *)
(* removes and turns off mods; the program can be killed at any step.      *)
(* What a mod.ini, a patches.txt or a files.txt says is data: a folder's   *)
(* record names the stage that would refuse it, a patch is a value for a   *)
(* cell, and a line of files.txt is the disc path it places.               *)
(***************************************************************************)
EXTENDS Naturals, Sequences, FiniteSets, SequencesExt

CONSTANTS Names,        \* the folders' names, in name order
          Installs,     \* what SOA_MODS may hold: folder numbers to records
          FlagLast,     \* FLAG_LAST; FLAG_FIRST is 1
          MaxStarts,
          KilledInSwap  \* may it be killed between the remove and the rename?

VARIABLES installed,   \* the folders' contents
          modLoad,     \* the loader's step
          plan,        \* g_plan: [order, bad]
          pos,         \* the place in the order that mod_load has reached
          scanned,     \* g_files: folders whose files.txt lines are in g_ops
          loaded,      \* g_mods
          patches,     \* g_patches
          hooks,       \* g_cb: the mods with callbacks, by their index
          claims,      \* g_claims, g_next_flag, g_lock_dirty, g_lock_bad
          lock, tmp,   \* mods.lock and mods.lock.tmp
          inUse,       \* history: the claims a running game has had
          starts

loadVars == <<plan, pos, scanned, loaded, patches, hooks, claims>>
fileVars == <<lock, tmp, inUse, starts, installed>>
vars == <<installed, modLoad, plan, pos, scanned, loaded, patches, hooks,
          claims, lock, tmp, inUse, starts>>

NoFile == [there |-> FALSE, torn |-> FALSE, next |-> 1, flags |-> {}]
NoPlan == [order |-> <<>>, bad |-> {}]
NoClaims == [next |-> 1, flags |-> {}, dirty |-> FALSE, bad |-> FALSE]

Init ==
    /\ installed \in Installs
    /\ modLoad = "off"
    /\ plan = NoPlan /\ pos = 1 /\ scanned = {}
    /\ loaded = <<>> /\ patches = {} /\ hooks = {} /\ claims = NoClaims
    /\ lock = NoFile /\ tmp = NoFile /\ inUse = {} /\ starts = 0

-----------------------------------------------------------------------------
(* The order *)

Present(inst) == DOMAIN inst

\* What a list names a folder by: its id, or its own name when it has none.
Key(inst, f) == IF inst[f].id = "" THEN Names[f] ELSE inst[f].id
Overrides(inst, f, g) == Key(inst, g) \in inst[f].over

\* Those SOA_MOD_ORDER names, in its order, then the rest by folder name.
Before(inst, f, g) ==
    \/ inst[f].rank > 0 /\ (inst[g].rank = 0 \/ inst[f].rank < inst[g].rank)
    \/ inst[f].rank = 0 /\ inst[g].rank = 0 /\ f < g
Listed(inst) ==
    CHOOSE order \in [1 .. Cardinality(Present(inst)) -> Present(inst)] :
        \A i, j \in DOMAIN order : i < j => Before(inst, order[i], order[j])

\* Two that override each other, neither turned off, cannot be ordered.
Opposed(inst) ==
    {f \in Present(inst) : \E g \in Present(inst) \ {f} :
        /\ Overrides(inst, f, g) /\ Overrides(inst, g, f)
        /\ ~inst[f].off /\ ~inst[g].off}

\* The pairs of places standing the wrong way round; a pass takes the first.
Wrong(inst, order) ==
    {p \in (DOMAIN order) \X (DOMAIN order) :
        /\ p[1] < p[2] /\ Overrides(inst, order[p[1]], order[p[2]])
        /\ {order[p[1]], order[p[2]]} \cap Opposed(inst) = {}}
FirstWrong(inst, order) ==
    CHOOSE p \in Wrong(inst, order) : \A q \in Wrong(inst, order) :
        p[1] < q[1] \/ (p[1] = q[1] /\ p[2] <= q[2])

Moved(order, i, j) ==
    [k \in DOMAIN order |-> IF k = j THEN order[i]
                            ELSE IF i <= k /\ k < j THEN order[k + 1]
                            ELSE order[k]]

\* One move a pass, and no pass after the k*k-th.
Passes_Few(k) == k
Passes(k) == k * k + 1
PlanOrder(inst) ==
    LET k == Cardinality(Present(inst))
        after[n \in 0 .. Passes(k)] ==
            IF n = 0 THEN Listed(inst)
            ELSE LET order == after[n - 1] IN
                 IF Wrong(inst, order) = {} THEN order
                 ELSE LET p == FirstWrong(inst, order)
                      IN Moved(order, p[1], p[2])
    IN after[Passes(k)]

-----------------------------------------------------------------------------
(* The files, before the file table is parked *)

\* The id of a mod whose files are in g_ops already: the code looks at the
\* folders before this one by name.
IdTaken(inst, done, f) ==
    \E g \in done : g < f /\ Key(inst, g) = Key(inst, f) /\ Key(inst, f) # Names[f]

ScanOne(inst, done, f) ==
    IF \/ inst[f].files = {} \/ inst[f].off \/ f \in Opposed(inst)
       \/ inst[f].wrong \in {"dol", "scan"} \/ IdTaken(inst, done, f)
    THEN done ELSE done \cup {f}

ScanRefuses(inst, done, f) == inst[f].files # {} /\ f \notin done

Scan(inst, order) == FoldLeft(LAMBDA done, f : ScanOne(inst, done, f), {}, order)

\* A disc with no room or no such file refuses a mod whole, at its first line
\* here; two mods that place one path stop the start.  FileTable has the lines
\* in the order they are built.
Placeable(inst, done) == {f \in done : inst[f].wrong # "place"}
Collide(inst, done) ==
    \E f, g \in Placeable(inst, done) : f # g /\ inst[f].files \cap inst[g].files # {}

Start ==
    /\ modLoad = "off" /\ starts < MaxStarts
    /\ starts' = starts + 1
    /\ \E inst \in Installs :
          LET order == PlanOrder(inst)
              done == Scan(inst, order)
          IN /\ installed' = inst
             /\ plan' = [order |-> order, bad |-> Opposed(inst)]
             /\ scanned' = done
             /\ modLoad' = IF Collide(inst, done) THEN "stopped" ELSE "lock"
    /\ UNCHANGED <<pos, loaded, patches, hooks, claims, lock, tmp, inUse>>

-----------------------------------------------------------------------------
(* mod_load *)

\* A line it cannot read: no mod that claims a number is loaded.
ReadLock_Empty(file) ==
    IF file.torn THEN NoClaims
    ELSE [NoClaims EXCEPT !.next = file.next, !.flags = file.flags]
ReadLock(file) ==
    IF file.torn THEN [NoClaims EXCEPT !.bad = TRUE]
    ELSE [NoClaims EXCEPT !.next = file.next, !.flags = file.flags]

LockRead ==
    /\ modLoad = "lock"
    /\ claims' = ReadLock(lock)
    /\ modLoad' = "load"
    /\ UNCHANGED <<plan, pos, scanned, loaded, patches, hooks, fileVars>>

\* A claim already in the lock keeps its number; a new one gets the next.
Assign(mod, given, name) ==
    IF ~given.ok \/ \E c \in given.flags : c.mod = mod /\ c.name = name THEN given
    ELSE IF given.next > FlagLast THEN [given EXCEPT !.ok = FALSE]
    ELSE [given EXCEPT
             !.flags = @ \cup {[mod |-> mod, name |-> name, number |-> given.next]},
             !.next = @ + 1, !.dirty = TRUE]
Assigned(f) ==
    LET from == [next |-> claims.next, flags |-> claims.flags,
                 dirty |-> claims.dirty, ok |-> ~claims.bad]
    IN FoldLeft(LAMBDA given, n : Assign(installed[f].id, given, n), from,
                installed[f].claims)

\* Two patches meet at a cell and leave different values there.
Clash(f, g) ==
    \E p \in installed[f].patches, q \in installed[g].patches :
        p.cell = q.cell /\ p.value # q.value
CanOverride(f, g) == Overrides(installed, f, g) \/ Overrides(installed, g, f)
Conflicts(f) ==
    \E i \in DOMAIN loaded : Clash(f, loaded[i]) /\ ~CanOverride(f, loaded[i])

Duplicate(f) ==
    /\ installed[f].id # ""
    /\ \E i \in DOMAIN loaded : installed[loaded[i]].id = installed[f].id

\* What load_one finds wrong before it gives out a number, and after.
RefusedEarly(f) ==
    installed[f].wrong \in {"dol", "ini", "patch"} \/ Duplicate(f) \/ Conflicts(f)
Claiming(f) == ~RefusedEarly(f) /\ installed[f].claims # <<>>
RefusedLate(f) ==
    \/ Claiming(f) /\ ~Assigned(f).ok
    \/ installed[f].lib /\ installed[f].wrong = "init"
    \/ ~installed[f].lib /\ installed[f].patches = {} /\ f \notin scanned
Refused(f) == RefusedEarly(f) \/ RefusedLate(f)

PassedOver(f) ==
    \/ installed[f].off \/ f \in plan.bad \/ ScanRefuses(installed, scanned, f)
    \/ (f \in scanned /\ installed[f].wrong = "place")

\* The mod's patches and callbacks stand under the index it would have.
Written(f, i) == {[mod |-> i, cell |-> p.cell, value |-> p.value] :
                     p \in installed[f].patches}
KeepPatches(f, refused) ==
    IF refused THEN patches ELSE patches \cup Written(f, Len(loaded) + 1)
KeepHooks_Stay(f, refused) ==
    IF ~installed[f].lib THEN hooks ELSE hooks \cup {Len(loaded) + 1}
KeepHooks(f, refused) ==
    IF refused \/ ~installed[f].lib THEN hooks ELSE hooks \cup {Len(loaded) + 1}
KeepClaims(f) ==
    IF Claiming(f)
    THEN [next |-> Assigned(f).next, flags |-> Assigned(f).flags,
          dirty |-> Assigned(f).dirty, bad |-> claims.bad]
    ELSE claims

PassOver ==
    /\ modLoad = "load" /\ pos <= Len(plan.order) /\ PassedOver(plan.order[pos])
    /\ pos' = pos + 1
    /\ UNCHANGED <<modLoad, plan, scanned, loaded, patches, hooks, claims, fileVars>>

\* Refused after its files were placed, a mod stops the run: exit(9).
LoadOne ==
    /\ modLoad = "load" /\ pos <= Len(plan.order) /\ ~PassedOver(plan.order[pos])
    /\ LET f == plan.order[pos]
           refused == Refused(f)
       IN /\ loaded' = IF refused THEN loaded ELSE Append(loaded, f)
          /\ patches' = KeepPatches(f, refused)
          /\ hooks' = KeepHooks(f, refused)
          /\ claims' = KeepClaims(f)
          /\ modLoad' = IF refused /\ f \in scanned THEN "stopped" ELSE "load"
    /\ pos' = pos + 1
    /\ UNCHANGED <<plan, scanned, fileVars>>

-----------------------------------------------------------------------------
(* lock_write: the new text beside the old, the old removed, the new renamed *)

NewLock == [there |-> TRUE, torn |-> FALSE, next |-> claims.next,
            flags |-> claims.flags]

LoadDone ==
    /\ modLoad = "load" /\ pos > Len(plan.order)
    /\ modLoad' = IF claims.dirty THEN "write" ELSE "playing"
    /\ inUse' = IF claims.dirty THEN inUse ELSE inUse \cup claims.flags
    /\ UNCHANGED <<loadVars, lock, tmp, starts, installed>>

WriteTmp ==
    /\ modLoad = "write"
    /\ tmp' = NewLock
    /\ modLoad' = "remove"
    /\ UNCHANGED <<loadVars, lock, inUse, starts, installed>>

RemoveLock ==
    /\ modLoad = "remove"
    /\ lock' = NoFile
    /\ modLoad' = "swap"
    /\ UNCHANGED <<loadVars, tmp, inUse, starts, installed>>

\* Only now does a game run that could set a claimed flag or save one.
RenameLock ==
    /\ modLoad = "swap"
    /\ lock' = tmp /\ tmp' = NoFile
    /\ claims' = [claims EXCEPT !.dirty = FALSE]
    /\ inUse' = inUse \cup claims.flags
    /\ modLoad' = "playing"
    /\ UNCHANGED <<plan, pos, scanned, loaded, patches, hooks, starts, installed>>

-----------------------------------------------------------------------------
(* The program's end, and the player's hand on the file *)

Stop ==
    /\ modLoad # "off" /\ (modLoad = "swap" => KilledInSwap)
    /\ modLoad' = "off"
    /\ plan' = NoPlan /\ pos' = 1 /\ scanned' = {}
    /\ loaded' = <<>> /\ patches' = {} /\ hooks' = {} /\ claims' = NoClaims
    /\ UNCHANGED fileVars

Damage ==
    /\ modLoad = "off" /\ lock.there /\ lock' = [lock EXCEPT !.torn = ~@]
    /\ UNCHANGED <<modLoad, loadVars, tmp, inUse, starts, installed>>

Next ==
    \/ Start \/ LockRead \/ PassOver \/ LoadOne \/ LoadDone
    \/ WriteTmp \/ RemoveLock \/ RenameLock \/ Stop \/ Damage

Spec == Init /\ [][Next]_vars

-----------------------------------------------------------------------------
(* Properties *)

Playing == modLoad = "playing"
Circle(inst, some) ==
    \E ring \in (SUBSET some) \ {{}} :
        \A f \in ring : \E g \in ring : Overrides(inst, f, g)
Ordered(among) ==
    Circle(installed, among) \/
    \A i, j \in DOMAIN loaded :
        /\ i < j => ~Overrides(installed, loaded[i], loaded[j])
        /\ i < j /\ Clash(loaded[i], loaded[j])
              => Overrides(installed, loaded[j], loaded[i])

\* When the mods' overrides go round in no circle, a mod loads after each one
\* it overrides, and of two mods whose patches meet at a cell the later is the
\* one that says it overrides the other (plan_order, check_conflicts).  Of five
\* folders, that is: the 26 passes settle any five, but six may need 57 moves.
LastWord ==
    Playing /\ Cardinality(Present(installed)) <= 5
        => Ordered(Present(installed) \ plan.bad)

\* The same of any number of folders, and counting circles only among the mods
\* that are not turned off: an `overrides = ID, ...` "loads it after each mod it
\* names" (mod.c, M17).
OverridesKept ==
    Playing => Ordered({f \in Present(installed) \ plan.bad : ~installed[f].off})

\* A refused mod leaves nothing behind: every patch is one that the mod at its
\* index wrote, every callback a loaded mod's, and a mod whose files are on the
\* disc is loaded (load_one's "refused whole", mod_load's "never half a mod").
RefusedWhole ==
    Playing =>
        /\ \A p \in patches : p.mod \in DOMAIN loaded /\ p \in Written(loaded[p.mod], p.mod)
        /\ \A i \in hooks : i \in DOMAIN loaded /\ installed[loaded[i]].lib
        /\ \A f \in Placeable(installed, scanned) : f \in Range(loaded)

\* A number that a running game has had for a claim is that claim's for good,
\* whatever mods come and go and wherever a start is killed: no other claim
\* gets it and the claim gets no other (claim_assign, lock_read, lock_write).
ClaimsStand ==
    \A c, d \in inUse :
        (c.mod = d.mod /\ c.name = d.name) <=> c.number = d.number
=============================================================================
