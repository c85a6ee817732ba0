------------------------------ MODULE Services ------------------------------
(***************************************************************************)
(* What the kernel and the shell keep beside threads and IPC objects, side *)
(* by side: timers, the heap of mem.c, a heap of memheap.c, the slab       *)
(* allocator, the objects of one class, the input line of the shell and    *)
(* what rt_kprintf prints.  One state has one of them, which `part` names; *)
(* the variables of the others are Unused, those of Timer as they were     *)
(* made, and variables the modules have in common are shared.              *)
(***************************************************************************)
EXTENDS Timer, Heaps

CONSTANTS Static, Dynamic, Batch, List, Null,       \* of Objects
          Typed, Lines, Commands,                   \* of Shell
          Handlers, Urgency, Texts,                 \* of Console
          Size, Nul,                                \* of the last two
          Unused         \* the value of a variable that is not in use

VARIABLES
    part,                                                  \* besides those of the two
    chain, typed, stray, life, lister,                     \* of Objects
    line, pos, cur, history, current, stat,                \* of Shell
    log, nest, running, print                              \* of Console

memVars == <<mem, lfree, moving>>
memheapVars == <<item, freeList, available>>
slabVars == <<runs, usage, zones, avail, spare>>
objectVars == <<chain, typed, stray, life, lister>>
shellVars == <<line, pos, cur, history, current, stat>>
consoleVars == <<log, nest, running, print>>
allVars == <<part, vars, memVars, memheapVars, slabVars, call, held, objectVars, shellVars,
             consoleVars>>

Registry == INSTANCE Objects WITH Heap <- Dynamic
Line == INSTANCE Shell WITH Chars <- Typed
Output == INSTANCE Console

ASSUME InstancesAssumption ==
    /\ TimerAssumption /\ Small!HeapAssumption /\ Large!MemHeapAssumption
    /\ Paged!SlabAssumption
    /\ Registry!ObjectsAssumption /\ Line!ShellAssumption /\ Output!ConsoleAssumption

NoMem == mem = Unused /\ lfree = Unused /\ moving = Unused
NoMemheap == item = Unused /\ freeList = Unused /\ available = Unused
NoSlab == /\ runs = Unused /\ usage = Unused /\ zones = Unused
          /\ avail = Unused /\ spare = Unused
NotHeld == held = Unused /\ call = Unused
NoObjects == chain = Unused /\ typed = Unused /\ stray = Unused /\ life = Unused /\ lister = Unused
NoShell == /\ line = Unused /\ pos = Unused /\ cur = Unused
           /\ history = Unused /\ current = Unused /\ stat = Unused
NoConsole == log = Unused /\ nest = Unused /\ running = Unused /\ print = Unused

AllInit ==
    /\ Init
    /\ \/ /\ part = "timers" /\ NoMem /\ NoMemheap /\ NoSlab
          /\ NotHeld /\ NoObjects /\ NoShell /\ NoConsole
       \/ /\ part = "mem" /\ Small!Init /\ NoMemheap /\ NoSlab
          /\ call = Unused /\ NoObjects /\ NoShell /\ NoConsole
       \/ /\ part = "memheap" /\ Large!Init /\ NoMem /\ NoSlab
          /\ NoObjects /\ NoShell /\ NoConsole
       \/ /\ part = "slab" /\ Paged!Init /\ NoMem /\ NoMemheap
          /\ NoObjects /\ NoShell /\ NoConsole
       \/ /\ part = "objects" /\ Registry!Init /\ NoMem /\ NoMemheap /\ NoSlab
          /\ NotHeld /\ NoShell /\ NoConsole
       \/ /\ part = "shell" /\ Line!Init /\ NoMem /\ NoMemheap /\ NoSlab
          /\ NotHeld /\ NoObjects /\ NoConsole
       \/ /\ part = "console" /\ Output!Init /\ NoMem /\ NoMemheap /\ NoSlab
          /\ NotHeld /\ NoObjects /\ NoShell

TimersStep == /\ part = "timers" /\ Next
              /\ UNCHANGED <<part, memVars, memheapVars, slabVars, call, held,
                             objectVars, shellVars, consoleVars>>
MemStep == /\ part = "mem" /\ Small!Next
           /\ UNCHANGED <<part, vars, memheapVars, slabVars, call,
                          objectVars, shellVars, consoleVars>>
MemheapStep == /\ part = "memheap" /\ Large!Next
               /\ UNCHANGED <<part, vars, memVars, slabVars,
                              objectVars, shellVars, consoleVars>>
SlabStep == /\ part = "slab" /\ Paged!Next
            /\ UNCHANGED <<part, vars, memVars, memheapVars,
                           objectVars, shellVars, consoleVars>>
ObjectsStep == /\ part = "objects" /\ Registry!Next
               /\ UNCHANGED <<part, vars, memVars, memheapVars, slabVars, call, held,
                              shellVars, consoleVars>>
ShellStep == /\ part = "shell" /\ Line!Next
             /\ UNCHANGED <<part, vars, memVars, memheapVars, slabVars, call, held,
                            objectVars, consoleVars>>
ConsoleStep == /\ part = "console" /\ Output!Next
               /\ UNCHANGED <<part, vars, memVars, memheapVars, slabVars, call, held,
                              objectVars, shellVars>>
AllNext == TimersStep \/ MemStep \/ MemheapStep \/ SlabStep
           \/ ObjectsStep \/ ShellStep \/ ConsoleStep

AllSpec == AllInit /\ [][AllNext]_allVars

-----------------------------------------------------------------------------
(* The properties of the modules, each where it applies; the modules say    *)
(* what they mean.  Those of Timer hold of its variables in every part.     *)

\* The blocks of a heap tile it, no two neighbours are free, and the pointers
\* and lists that lead to the free ones do (Heap, MemHeap); so do the pages of
\* the slab allocator (Slab).
Tiled ==
    CASE part = "mem" -> Small!Tiled /\ Small!FreeSound
      [] part = "memheap" -> Large!Tiled
      [] part = "slab" -> Paged!Tiled
      [] OTHER -> TRUE

\* Every used block has one owner, and the room it counts on (Heap, MemHeap,
\* Slab).
OwnedOnce ==
    CASE part = "mem" -> Small!OwnedOnce
      [] part = "memheap" -> Large!OwnedOnce
      [] part = "slab" -> Paged!OwnedOnce
      [] OTHER -> TRUE

\* When everything is freed the heap of mem.c is whole again (Heap), and the slab
\* allocator keeps no more zones than it means to (Slab).
Recovered == (part = "mem" => Small!Recovered) /\ (part = "slab" => Paged!Recovered)

\* Only rt_realloc hides a free block below lfree (Heap).
LostOnlyByShrinking == [][part = "mem" => Small!HiddenByShrinking]_allVars

\* The list of a class is sound, and a listing complete unless it met an
\* object on its way in or out (Objects).
ListingComplete == part = "objects" => Registry!ChainSound /\ Registry!ListingComplete

\* The input line ends where the cursor's text does (Shell).
LineEnds == part = "shell" => Line!LineEnds

\* A caller of rt_kprintf that is alone prints his text, all output ends in the
\* buffer, and threads do not interleave what they send (Console).
Printed == part = "console" => Output!Printed

\* The input line implements a text with a cursor and a history (Shell,
\* LineEditor).
Written == IF part = "shell" THEN Line!Text ELSE <<>>
Cursor == IF part = "shell" THEN cur ELSE 0
Past == IF part = "shell" THEN history ELSE <<>>
Recalled == IF part = "shell" THEN current ELSE 0
Dropped == part = "shell" /\ Line!Full
Editor == INSTANCE LineEditor WITH
    Chars <- Typed, text <- Written, cursor <- Cursor, past <- Past, at <- Recalled,
    dropped <- Dropped
ImplementsEditor == Editor!Spec
=============================================================================
