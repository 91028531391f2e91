--------------------------- MODULE ProgramStorage ---------------------------
(***************************************************************************)
(* The control blocks of programs and work spaces, and who refers to them  *)
(* (As36Transfer.cpp, As36Storage.cpp, As36TaskCreate.cpp).  A task has a  *)
(* stack of request blocks, the newest first in the code and last here.    *)
(* Each runs a program block and has a map table of blocks it addresses;   *)
(* its translation file (image) names the pages of all of them.  Blocks    *)
(* are counted: +27 is incremented by every reference, and the block is    *)
(* deleted, its pages returned, when the last goes.                        *)
(*                                                                         *)
(* A cell is the address of a control block.  A call the code refuses      *)
(* stops the machine and is no step.  Logical pages are abstracted to      *)
(* windows: an object is mapped in one window, whatever its size, and an   *)
(* entry that is mapped over gives up all of its own.                      *)
(*                                                                         *)
(* An operator named <Definition>_<Fault> is the definition with a         *)
(* plausible bug; it is not part of Next.                                  *)
(***************************************************************************)
EXTENDS ModuleStorage, SequencesExt

CONSTANTS
    Tasks,          \* the tasks, and among them
    IplTask,        \* the one that csipl makes
    Cells,          \* the addresses of control blocks in the queue space
    Nobody,         \* no task, no cell
    Nucleus,        \* no program block: what csipl's request block has
    Region,         \* what a block made by SVC 31 runs
    Modules,        \* the load members, by their sectors
    InPlace,        \* attribute 02: they need the system transient area
    NotHashed,      \* attribute 40: every transfer builds a block of its own
    Isolated,       \* mode A0: they inherit no addressability
    Translated,     \* mode 80: they do not inherit the caller's program
    CorePages,      \* [Modules -> the pages the header asks for; 1 is loaded]
    Windows,        \* the logical windows
    LoadWindow,     \* [Modules and Region -> the window they run in]
    SpaceForms,     \* how the guest asks for work spaces
    MaxFrames,      \* bounds: request blocks of all tasks, entries of a map
    MaxEntries,     \* table, and whether
    Misplaced,      \* a block may be mapped from below its load page, and
    AreaContended   \* tasks displace each other's transients

Programs == Modules \cup {Region, Nucleus}

ASSUME TasksAssumption == IplTask \in Tasks /\ Nobody \notin Tasks \cup Cells

ASSUME ProgramsAssumption ==
    /\ Nucleus \notin Modules \cup Cells \cup {Region} /\ Region \notin Modules
    /\ InPlace \cup NotHashed \cup Isolated \cup Translated \subseteq Modules
    /\ CorePages \in [Modules -> {1, 2}]
    /\ LoadWindow \in [Modules \cup {Region} -> Windows]
    /\ SpaceForms \subseteq [system : BOOLEAN, pinned : BOOLEAN, mapped : BOOLEAN]

ASSUME BoundsAssumption == MaxFrames \in Nat /\ MaxEntries \in Nat

VARIABLES
    block,          \* [Cells -> the control block there]
    stack,          \* [Tasks -> its request blocks]
    held,           \* the blocks whose address SVC 31 gave to the guest
    transient,      \* currentTransientProgramBlock_
    arena,          \* the module storage
    current         \* currentTaskBlock_

vars == <<block, stack, held, transient, arena, current>>

NoBlock == [kind |-> "none", use |-> 0, pinned |-> FALSE, queued |-> FALSE,
            owner |-> Nobody, module |-> Nucleus, at |-> 0, pages |-> 0,
            tail |-> 0, mapped |-> FALSE, astray |-> FALSE]

(* at and pages are the extent of a program; tail is the page of a work    *)
(* space, or of a region beyond its extent, once it was addressed.  A      *)
(* region is astray when its second page is published past its extent, or, *)
(* the extent having taken the page over, a translation file in use still  *)
(* had it elsewhere.                                                       *)
Blocks == [kind : {"none", "program", "space"}, use : 0..255, pinned : BOOLEAN,
           queued : BOOLEAN, owner : Tasks \cup {Nobody}, module : Programs,
           at : 0..LastPage, pages : 0..2, tail : 0..LastPage, mapped : BOOLEAN,
           astray : BOOLEAN]

NewProgram(m, at, pages) ==
    [kind |-> "program", use |-> IF m = Region THEN 1 ELSE 0, pinned |-> FALSE,
     queued |-> m \in Modules \ NotHashed, owner |-> Nobody, module |-> m,
     at |-> at, pages |-> pages, tail |-> 0, mapped |-> FALSE, astray |-> FALSE]

NewSpace(form, t) ==
    [kind |-> "space", use |-> 0, pinned |-> form.pinned, queued |-> TRUE,
     owner |-> IF form.system THEN Nobody ELSE t, module |-> Nucleus, at |-> 0,
     pages |-> 0, tail |-> 0, mapped |-> form.mapped, astray |-> FALSE]

Entries == [window : Windows, cell : Cells, pages : 1..2]

Frames == [program : Cells \cup {Nucleus}, map : Seq(Entries),
           image : SUBSET (Cells \X {0, 1} \X Pages), stale : BOOLEAN]

Top(t) == Last(stack[t])

Live(t) == stack[t] # <<>>

Depth(t) == Len(stack[t])

(* The request blocks of all tasks.                                        *)
Positions == UNION {{t} \X DOMAIN stack[t] : t \in Tasks}

FrameAt(x) == stack[x[1]][x[2]]

ModuleOf(b, c) == IF c = Nucleus THEN Nucleus ELSE b[c].module

-----------------------------------------------------------------------------
(* Use counts.  What a request block refers to has a number: its program   *)
(* is 0, an entry of its map table has its own.                            *)

Named(f, j) == IF j = 0 THEN f.program ELSE f.map[j].cell

ReferencesTo(f, c) == {j \in {0} \cup DOMAIN f.map : Named(f, j) = c}

(* References gained and lost are numbers for each cell: none, one to a    *)
(* block, those of a request block, and those of some request blocks.      *)
NoReference == [c \in Cells |-> 0]

(* Fault: a block is mapped, or found by a guest, without being acquired.  *)
Reference_NotAcquired(x) == NoReference

Reference(x) == [c \in Cells |-> IF c = x THEN 1 ELSE 0]

References(f) == [c \in Cells |-> Cardinality(ReferencesTo(f, c))]

AllReferences(S) ==
    [c \in Cells |->
        Cardinality(UNION {{x} \X ReferencesTo(FrameAt(x), c) : x \in S})]

(* The use count is a byte; its overflow halfword is not reached.          *)
UseAfter(b, c, gain, lose) == (b[c].use + gain[c] - lose[c]) % 256

(* A release that leaves no reference deletes the block, unless pinned.    *)
Deleted(b, gain, lose) ==
    {c \in Cells : /\ b[c].kind # "none" /\ ~b[c].pinned
                   /\ lose[c] > 0 /\ UseAfter(b, c, gain, lose) = 0}

(* What a block occupies of the module storage.                            *)
Occupied(r) == (PageRange(r.at, r.pages) \cap Pages) \cup ({r.tail} \ {0})

WithUse(r, n) == [r EXCEPT !.use = n]

(* The blocks once references are gained and lost.                         *)
Counted(b, gain, lose) ==
    [c \in Cells |->
        IF c \in Deleted(b, gain, lose) \/ b[c].kind = "none" THEN NoBlock
        ELSE WithUse(b[c], UseAfter(b, c, gain, lose))]

Vacated(b, gone) == UNION {Occupied(b[c]) : c \in gone}

TransientAfter(gone) == IF transient \in gone THEN Nobody ELSE transient

-----------------------------------------------------------------------------
(* Translation files.                                                      *)

(* The second page of a region that has one in its extent: of its swap     *)
(* area, or, published past the extent, the page that follows it.          *)
Beyond(r) == IF r.astray THEN r.at + 1 ELSE r.tail

(* The first n pages of a block: of its extent, or of its swap area once   *)
(* addressed.                                                              *)
PagesOf(b, c, n) ==
    {x \in {c} \X (0..(n - 1)) \X Pages :
        \/ x[2] < b[c].pages /\ x[3] = b[c].at + x[2]
        \/ /\ b[c].kind = "program" /\ b[c].module = Region
           /\ x[2] = 1 /\ b[c].pages = 1 /\ x[3] = Beyond(b[c])
        \/ b[c].kind = "space" /\ b[c].mapped /\ x[2] = 0 /\ x[3] = b[c].tail}

(* The elements of a sequence at some of its positions, in their order.    *)
Sublist(s, P) == [k \in 1..Cardinality(P) |-> s[Nth(P, k)]]

(* What a frame shows in a window: the last entry of its map table there,  *)
(* or its own program, unless that is addressed in place.                  *)
OwnEntry(b, c) == [window |-> LoadWindow[b[c].module], cell |-> c, pages |-> 2]

Objects(b, f) ==
    IF f.program = Nucleus \/ b[f.program].module \in InPlace THEN f.map
    ELSE <<OwnEntry(b, f.program)>> \o f.map

Shown(b, f, w) ==
    LET o     == Objects(b, f)
        there == {i \in DOMAIN o : o[i].window = w}
    IN  {o[i] : i \in {j \in there : \A k \in there : k <= j}}

(* The blocks of a frame whose swap area page is not in storage yet, in    *)
(* the order in which buildTranslationRegisters comes to them.             *)
Absent(b, f) ==
    LET o        == Objects(b, f)
        needs(e) == /\ b[e.cell].tail = 0
                    /\ \/ b[e.cell].kind = "space" /\ b[e.cell].mapped
                       \/ /\ b[e.cell].kind = "program" /\ b[e.cell].module = Region
                          /\ b[e.cell].pages = 1 /\ ~b[e.cell].astray /\ e.pages = 2
        first(i) == \A j \in 1..(i - 1) : needs(o[j]) => o[j].cell # o[i].cell
        new      == {i \in DOMAIN o : needs(o[i]) /\ first(i)}
    IN  [k \in 1..Cardinality(new) |-> o[Nth(new, k)].cell]

(* Page k of a number of pages allocated singly, or 0 for none.            *)
Single(a, k) ==
    LET fresh == a.next + (k - Cardinality(a.returned)) - 1
    IN  CASE k <= Cardinality(a.returned) -> Nth(a.returned, k)
          [] k > Cardinality(a.returned) /\ fresh <= LastPage -> fresh
          [] OTHER -> 0

WithTail(r, p) == [r EXCEPT !.tail = p]

(* workSpaceResidentPages for every absent block of a frame.               *)
Loaded(b, a, f) ==
    LET absent == Absent(b, f)
        place(c) == CHOOSE k \in DOMAIN absent : absent[k] = c
    IN  [c \in Cells |-> IF \E k \in DOMAIN absent : absent[k] = c
                         THEN WithTail(b[c], Single(a, place(c))) ELSE b[c]]

ArenaLoaded(b, a, f) ==
    LET taken == {Single(a, k) : k \in DOMAIN Absent(b, f)} \ {0}
        fresh == {p \in taken : p >= a.next}
    IN  [returned |-> a.returned \ taken, next |-> a.next + Cardinality(fresh)]

(* buildTranslationRegisters: the frame with its image, over loaded blocks.*)
Built(b, f) ==
    [program |-> f.program, map |-> f.map, stale |-> FALSE,
     image   |-> UNION {PagesOf(b, e.cell, e.pages) :
                            e \in UNION {Shown(b, f, w) : w \in Windows}}]

-----------------------------------------------------------------------------
Init ==
    /\ block = [c \in Cells |-> NoBlock]
    /\ stack = [t \in Tasks |->
                  IF t = IplTask
                  THEN <<[program |-> Nucleus, map |-> <<>>, image |-> {}, stale |-> FALSE]>>
                  ELSE <<>>]
    /\ held = {} /\ transient = Nobody
    /\ arena = EmptyArena
    /\ current = IplTask

Free == {c \in Cells : block[c].kind = "none"}

Queued == {c \in Cells : block[c].kind = "space" /\ block[c].queued}

(* The top of stack s is built, over blocks b and arena a.                 *)
Rebuild(b, a, s) ==
    LET top == Last(s)
    IN  \E ready \in {b} : \E loaded \in {Loaded(ready, a, top)} :
        /\ block' = loaded
        /\ arena' = ArenaLoaded(ready, a, top)
        /\ stack' = [stack EXCEPT ![current] = [s EXCEPT ![Len(s)] = Built(loaded, top)]]

(* References are lost and nothing is built after it.                      *)
Release(b, a, lose) ==
    LET gone == Deleted(b, NoReference, lose)
    IN  /\ block' = Counted(b, NoReference, lose)
        /\ arena' = ReturnPages(a, Vacated(b, gone))
        /\ transient' = TransientAfter(gone)

(* No task but the one that runs c resumes in the system transient area.   *)
Undisturbed(stacks, c) ==
    \/ AreaContended
    \/ \A t \in Tasks : stacks[t] # <<>> =>
          LET p == Last(stacks[t]).program
          IN  p = c \/ ModuleOf(block, p) \notin InPlace

-----------------------------------------------------------------------------
(* Transfers.                                                              *)

(* The block of a module that is in the hash, or of an SVC 31 region.      *)
Found(m) ==
    {[cell |-> c, block |-> block, arena |-> arena] :
        c \in {x \in Cells : /\ block[x].kind = "program" /\ block[x].module = m
                             /\ block[x].queued \/ x \in held}}

(* buildProgramBlock and makeProgramBlockReady: a new block of the module. *)
Fresh(m) ==
    LET first == AllocatedAt(arena, 1)
        one   == Allocate(arena, 1)
        room  == CanAllocate(arena, 1) /\ CanGrow(one, first, 1, CorePages[m])
        at    == GrownAt(one, first, 1, CorePages[m])
    IN  CASE m \in InPlace ->
               {[cell |-> c, block |-> [block EXCEPT ![c] = NewProgram(m, 0, 0)],
                 arena |-> arena] : c \in Free}
          [] m \notin InPlace /\ room ->
               {[cell |-> c, block |-> [block EXCEPT ![c] = NewProgram(m, at, CorePages[m])],
                 arena |-> Grown(one, first, 1, CorePages[m])] : c \in Free}
          [] OTHER -> {}

(* transferControl: a module that is hashed is built once only.            *)
Entered(m) == IF m \notin NotHashed /\ Found(m) # {} THEN Found(m) ELSE Fresh(m)

(* SVC 04, SVC 10 and SVC 14 name the entry of a table, and it the module; *)
(* a region is transferred to by its address.                              *)
Callees == Found(Region) \cup UNION {Entered(m) : m \in Modules}

(* copyCallerAddressability: the caller's map table, after an entry for    *)
(* the caller's program if the callee is not translated.                   *)
Inherited(b, f, m) ==
    CASE f.program = Nucleus \/ m \in Isolated -> <<>>
      [] f.program # Nucleus /\ m \in Translated \ Isolated -> f.map
      [] OTHER -> Objects(b, f)

(* The map table once the window shows the cell, or nothing.               *)
Without(map, w) == Sublist(map, {i \in DOMAIN map : map[i].window # w})

Placed(map, w, c) == Append(Without(map, w), [window |-> w, cell |-> c, pages |-> 1])

Owned(b, t) == {c \in Cells : b[c].kind = "space" /\ b[c].owner = t}

Unused(b, t) == {c \in Owned(b, t) : b[c].use = 0}

(* A block that goes with its last reference.                              *)
LetGo(r) == [r EXCEPT !.pinned = FALSE, !.queued = FALSE, !.owner = Nobody]

(* releaseTaskWorkSpaces: the task's spaces that are not in use go, the    *)
(* others live until their last reference does.                            *)
SpacesReleased(b, t) ==
    [c \in Cells |->
        CASE c \in Unused(b, t) -> NoBlock
          [] b[c].owner = t /\ c \notin Unused(b, t) -> LetGo(b[c])
          [] OTHER -> b[c]]

(* attachNewTask: the request block of a new task has none below it.       *)
Attachable(u, discard) == ~Live(u) /\ ~discard

(* The root of a task returned: what its transfer to the termination       *)
(* program may not do.                                                     *)
ToTermination(u, discard, header) ==
    u = current /\ ~discard /\ Depth(u) = 1 /\ header.cell \notin Owned(block, current)

(* transferControl and performTransfer, to a block come by in `way`, in    *)
(* the caller's task or in a new one u.  With `discard` the caller's frame *)
(* is freed; with `header` the load member's own MAP list names a space.   *)
(* `ending`: the root of a task returned, its spaces were released, and    *)
(* the transfer is to the termination program.                             *)
Transfer(way, u, discard, header, ending) ==
    LET caller == Top(current)
        c      == way.cell
        m      == way.block[c].module
        plain  == Inherited(way.block, caller, m)
        map    == IF header.cell = Nobody THEN plain
                  ELSE Placed(plain, header.window, header.cell)
        frame  == [program |-> c, map |-> map, image |-> {}, stale |-> FALSE]
        below  == IF discard THEN Front(stack[u]) ELSE stack[u]
        lost   == IF discard THEN References(caller) ELSE NoReference
        a      == IF ending THEN ReturnPages(way.arena, Vacated(block, Unused(block, current)))
                            ELSE way.arena
    IN  /\ u # current => Attachable(u, discard)
        /\ ending => ToTermination(u, discard, header)
        /\ discard \/ Cardinality(Positions) < MaxFrames
        /\ Len(map) <= MaxEntries
        /\ m \in InPlace => Undisturbed([stack EXCEPT ![u] = <<>>], c)
        /\ \E gained \in {Counted(IF ending THEN SpacesReleased(way.block, current)
                                            ELSE way.block, References(frame), NoReference)} :
           \E loaded \in {Loaded(gained, a, frame)} :
           LET gone == Deleted(loaded, NoReference, lost)
           IN  /\ block' = Counted(loaded, NoReference, lost)
               /\ arena' = ReturnPages(ArenaLoaded(gained, a, frame), Vacated(loaded, gone))
               /\ stack' = [stack EXCEPT ![u] = Append(below, Built(loaded, frame))]
               /\ transient' = IF m \in InPlace THEN c ELSE TransientAfter(gone)
        /\ UNCHANGED <<held, current>>

(* Fault: the caller resumes in what the callee left in the area.          *)
Resumed_AsIs(p, gone) == TransientAfter(gone)

(* The area once program p resumes: its own module is read again.          *)
Resumed(p, gone) == IF ModuleOf(block, p) \in InPlace THEN p ELSE TransientAfter(gone)

(* SVC 11, from a frame that has a caller.                                 *)
Exit ==
    LET lose  == References(Top(current))
        gone  == Deleted(block, NoReference, lose)
        b     == Counted(block, NoReference, lose)
        a     == ReturnPages(arena, Vacated(block, gone))
        rest  == Front(stack[current])
        prev  == Last(rest)
    IN  /\ Depth(current) > 1
        /\ ModuleOf(block, prev.program) \in InPlace =>
              Undisturbed([stack EXCEPT ![current] = <<>>], prev.program)
        /\ IF prev.stale THEN Rebuild(b, a, rest)
           ELSE block' = b /\ arena' = a /\ stack' = [stack EXCEPT ![current] = rest]
        /\ transient' = Resumed(prev.program, gone)
        /\ UNCHANGED <<held, current>>

(* SVC 05.                                                                 *)
FreeSecond ==
    LET s      == stack[current]
        second == s[Len(s) - 1]
    IN  /\ Depth(current) > 1
        /\ Release(block, arena, References(second))
        /\ stack' = [stack EXCEPT ![current] = Append(Front(Front(s)), Last(s))]
        /\ UNCHANGED <<held, current>>

(* A task's end: its root returned through its return element or a native  *)
(* continuation with the cleanup asked for, or a storage protection check. *)
(* The dispatcher goes on with some task.                                  *)
EndTask ==
    LET spaces == SpacesReleased(block, current)
        a      == ReturnPages(arena, Vacated(block, Unused(block, current)))
    IN  /\ current # IplTask
        /\ Release(spaces, a, AllReferences({current} \X DOMAIN stack[current]))
        /\ stack' = [stack EXCEPT ![current] = <<>>]
        /\ current' \in {t \in Tasks \ {current} : Live(t)}
        /\ UNCHANGED held

-----------------------------------------------------------------------------
(* SVC 2F.                                                                 *)

(* What an entry of the list may name: the program itself, a block by its  *)
(* address, a work space by its type, or what the caller's request block   *)
(* shows in some window.                                                   *)
Mappable ==
    {Top(current).program} \cup held \cup Queued \cup
    (IF Depth(current) = 1 THEN {}
     ELSE LET prev == stack[current][Depth(current) - 1]
          IN  IF prev.program = Nucleus THEN {}
              ELSE {e.cell : e \in UNION {Shown(block, prev, w) : w \in Windows}})

WithMap(f, map) == [f EXCEPT !.map = map]

(* Window w of the top's map table is given up for `entries`; what it held *)
(* is released, and the registers are built.                               *)
Remap(w, entries, gain) ==
    LET f    == Top(current)
        left == {j \in DOMAIN f.map : f.map[j].window = w}
        lose == [c \in Cells |-> Cardinality({j \in left : f.map[j].cell = c})]
        gone == Deleted(block, gain, lose)
        next == WithMap(f, Without(f.map, w) \o entries)
    IN  /\ f.program # Nucleus /\ Len(next.map) <= MaxEntries
        /\ Rebuild(Counted(block, gain, lose), ReturnPages(arena, Vacated(block, gone)),
                   Append(Front(stack[current]), next))
        /\ transient' = TransientAfter(gone)
        /\ UNCHANGED <<held, current>>

Map(w, c) == Remap(w, Placed(<<>>, w, c), Reference(c))

(* Mapped from below its load page, the reference is taken to the block    *)
(* that the list names and the entry is for the program itself.            *)
MapBelow(w, c) ==
    /\ Misplaced /\ c \in held \cup Queued
    /\ Remap(w, Placed(<<>>, w, Top(current).program), Reference(c))

Unmap(w) == Remap(w, <<>>, NoReference)

-----------------------------------------------------------------------------
(* Regions and work spaces.                                                *)

(* SVC 31: a region of one page in storage and one in its swap area.       *)
AttachTask(c) ==
    /\ CanAllocate(arena, 1)
    /\ block' = [block EXCEPT ![c] = NewProgram(Region, AllocatedAt(arena, 1), 1)]
    /\ arena' = Allocate(arena, 1)
    /\ held' = held \cup {c}
    /\ UNCHANGED <<stack, transient, current>>

(* SVC 32.                                                                 *)
DetachTask(c) ==
    /\ Release(block, arena, Reference(c))
    /\ held' = held \ {c}
    /\ UNCHANGED <<stack, current>>

(* SVC 35: a space of the task or of the system, pinned or not, its page   *)
(* addressable at once or not.                                             *)
CreateWorkSpace(c, form) ==
    /\ block' = [block EXCEPT ![c] = NewSpace(form, current)]
    /\ UNCHANGED <<stack, held, transient, arena, current>>

DeleteWorkSpace(c) ==
    /\ IF block[c].use = 0
       THEN /\ block' = [block EXCEPT ![c] = NoBlock]
            /\ arena' = ReturnPages(arena, Occupied(block[c]))
       ELSE /\ block' = [block EXCEPT ![c] = LetGo(block[c])]
            /\ UNCHANGED arena
    /\ UNCHANGED <<stack, held, transient, current>>

(* What SVC 2C may raise the page count of: a space none of whose pages is *)
(* addressable, a region that publishes one page.                          *)
Raisable(r) ==
    \/ r.kind = "space" /\ ~r.mapped
    \/ r.kind = "program" /\ r.module = Region /\ r.pages = 1 /\ ~r.astray

(* The page count raised: the page of a space is addressable; a region's   *)
(* second page is published, but no storage is made ready for it.          *)
Addressable(r) ==
    IF r.kind = "space" THEN [r EXCEPT !.mapped = TRUE] ELSE [r EXCEPT !.astray = TRUE]

(* SVC 2C: the high water of a block reaches the page.                     *)
AssignArea(c) ==
    /\ Raisable(block[c]) /\ Top(current).program # Nucleus
    /\ Rebuild([block EXCEPT ![c] = Addressable(block[c])], arena, stack[current])
    /\ UNCHANGED <<held, transient, current>>

(* Fault: the images keep the pages the extent had.                        *)
Rebased_Not(f, old, at) == f

(* A page that moves, in an image: whoever's entry names it follows.       *)
Rebased(f, old, at) ==
    [f EXCEPT !.image = {IF x[3] = old THEN <<x[1], x[2], at>> ELSE x : x \in f.image}]

(* A region of two pages from `at` on, the second elsewhere for someone.   *)
Enlarged(r, at, elsewhere) == [r EXCEPT !.at = at, !.pages = 2, !.astray = elsewhere]

(* Frames below the top that SVC 2C marks, or none.                        *)
Marked(f, stale) == [f EXCEPT !.stale = @ \/ stale]

(* A frame other than the top of the current task, in use as it is, has    *)
(* the second page of c in its image.                                      *)
ShownElsewhere(stacks, c) ==
    \E t \in Tasks : \E i \in DOMAIN stacks[t] :
        /\ IF t = current THEN i # Len(stacks[t]) /\ ~stacks[t][i].stale
           ELSE i = Len(stacks[t]) \/ ~stacks[t][i].stale
        /\ \E x \in stacks[t][i].image : x[1] = c /\ x[2] = 1

(* A region's second page joins its extent, which moves when it must.      *)
Grow(c, outerStale) ==
    LET r      == block[c]
        at     == GrownAt(arena, r.at, 1, 2)
        moved(t, i) == Marked(Rebased(stack[t][i], r.at, at),
                              outerStale /\ t = current /\ i < Depth(t))
        stacks == [t \in Tasks |-> [i \in DOMAIN stack[t] |-> moved(t, i)]]
        bigger == [block EXCEPT ![c] = Enlarged(block[c], at, ShownElsewhere(stacks, c))]
        a      == Grown(arena, r.at, 1, 2)
        loaded == Loaded(bigger, a, Last(stacks[current]))
    IN  /\ r.module = Region /\ r.pages = 1 /\ CanGrow(arena, r.at, 1, 2)
        /\ block' = loaded
        /\ arena' = ArenaLoaded(bigger, a, Last(stacks[current]))
        /\ stack' = [stacks EXCEPT ![current] =
                        Append(Front(@), Built(loaded, Last(@)))]
        /\ UNCHANGED <<held, transient, current>>

(* SVC 2C in a region, translated: it reaches past the pages published.    *)
GrowRegion(c) == ~block[c].astray /\ Top(current).program # Nucleus /\ Grow(c, TRUE)

(* SVC 12, which sees to the storage of a page that was published without, *)
(* and does not mark the frames below.                                     *)
GetPage == Top(current).program # Nucleus /\ Grow(Top(current).program, FALSE)

(* The dispatcher goes to another task: its newest request block's         *)
(* translation file is selected, and nothing is built.                     *)
TakeTurn(t) ==
    /\ t # current /\ Live(t)
    /\ current' = t
    /\ UNCHANGED <<block, stack, held, transient, arena>>

-----------------------------------------------------------------------------
Headers == [window : Windows, cell : Queued \cup {Nobody}]

Next ==
    \/ \E way \in Callees, u \in Tasks, discard, ending \in BOOLEAN, header \in Headers :
          Transfer(way, u, discard, header, ending)
    \/ Exit \/ FreeSecond \/ EndTask
    \/ \E w \in Windows, c \in Mappable : Map(w, c) \/ MapBelow(w, c)
    \/ \E w \in Windows : Unmap(w)
    \/ \E c \in Free : AttachTask(c)
    \/ \E c \in held : DetachTask(c)
    \/ \E c \in Free, form \in SpaceForms : CreateWorkSpace(c, form)
    \/ \E c \in Queued : DeleteWorkSpace(c)
    \/ \E c \in Queued \cup held : AssignArea(c)
    \/ \E c \in held : GrowRegion(c)
    \/ GetPage
    \/ \E t \in Tasks : TakeTurn(t)

Spec == Init /\ [][Next]_vars

-----------------------------------------------------------------------------
(* Everything that refers to a cell.                                       *)
Referring(c) == AllReferences(Positions)[c] + (IF c \in held THEN 1 ELSE 0)

(* A block's use count is the number of request blocks' programs, of map   *)
(* entries, own or inherited, and of guests' addresses that refer to it,   *)
(* so that nothing refers to a block that was deleted.                     *)
CountsAreReferences == \A c \in Cells : block[c].use = Referring(c)

(* Every block is referred to, or is a work space that its queue still     *)
(* has: of the system, or of a task that lives.  What a task leaves behind *)
(* at its end goes with the last reference.                                *)
NothingStranded ==
    \A c \in Cells : block[c].kind # "none" /\ Referring(c) = 0 =>
        c \in Queued /\ (block[c].owner = Nobody \/ Live(block[c].owner))

(* No block is deleted while something refers to it, and none is kept when *)
(* nothing can reach it any more.                                          *)
ReferencesAreRight == CountsAreReferences /\ NothingStranded

(* The pages of a block, and any at all for the second of a region that is *)
(* astray.                                                                 *)
Admitted(b, c) ==
    PagesOf(b, c, 2) \cup {x \in {c} \X {1} \X Pages : b[c].astray}

(* A request block's translation file, unless it is marked to be built     *)
(* again before it is used, names for each block that it refers to the     *)
(* pages where the block is now; the second page of a region that was      *)
(* published past its extent, or taken over while somebody else had it, is *)
(* the only one that may be elsewhere.                                     *)
PagesInOnePlace ==
    \A t \in Tasks : \A i \in DOMAIN stack[t] :
        LET f == stack[t][i]
        IN  ~f.stale \/ i = Depth(t) =>
              \A x \in f.image :
                  x \in Admitted(block, x[1]) /\ ReferencesTo(f, x[1]) # {}

(* What the code's comment on growing storage wants: whatever is grown,    *)
(* and however, each page named in a translation file in use is the        *)
(* block's own.  It fails; see section 6 of the README.                    *)
PagesAreOwn ==
    \A t \in Tasks : \A i \in DOMAIN stack[t] :
        LET f == stack[t][i]
        IN  ~f.stale \/ i = Depth(t) =>
              \A x \in f.image :
                  x \in PagesOf(block, x[1], 2) /\ x[3] \in Occupied(block[x[1]])

(* No page of the module storage belongs to two blocks, or to one and to   *)
(* the returned ranges, and none below `next` is lost.                     *)
StorageApart ==
    /\ \A c, d \in Cells : c # d => Occupied(block[c]) \cap Occupied(block[d]) = {}
    /\ \A c \in Cells : Occupied(block[c]) \cap arena.returned = {}
    /\ (UNION {Occupied(block[c]) : c \in Cells}) \cup arena.returned = 1..(arena.next - 1)

(* The program that runs in the system transient area is the one whose     *)
(* code is there.                                                          *)
TransientHeld ==
    LET p == Top(current).program
    IN  ModuleOf(block, p) \in InPlace => transient = p
=============================================================================
