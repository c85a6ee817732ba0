------------------------------ MODULE Objects ------------------------------
(***************************************************************************)
(* The objects of one class: rt_object_init and rt_object_allocate,         *)
(* rt_object_detach and rt_object_delete of object.c, and the listing of    *)
(* cmd.c (list_thread and the like), which walks the list of the class in  *)
(* batches and prints with interrupts enabled.                             *)
(*                                                                         *)
(* The type of an object is set before it is linked and cleared before it  *)
(* is unlinked, with interrupts enabled between.  A control block is       *)
(* static memory, or a block of the heap that is used again once freed.    *)
(***************************************************************************)
EXTENDS Integers, SequencesExt

CONSTANTS Static,  \* the control blocks of rt_object_init
          Heap,    \* the blocks rt_malloc returns for rt_object_allocate
          Batch,   \* LIST_FIND_OBJ_NR
          List,    \* the list head, object_list
          Null     \* RT_NULL

Blocks == Static \union Heap

ObjectsAssumption ==
    Batch \in Nat \ {0} /\ List \notin Blocks /\ Null \notin Blocks /\ List # Null

VARIABLES
    chain,   \* object_list, from its head
    typed,   \* the blocks whose type field holds the type of the class
    stray,   \* [Blocks -> where object->list.next leads] of a block not linked
    life,    \* what a block is used for, and how far its maker is with it
    lister   \* the thread that lists: what it does (at), the block it goes on
             \* from (next), those it still has to show (todo), those linked since
             \* it began (stay) and which of them it showed (shown); whether it met
             \* a block that had lost its type or changed hands (met)

vars == <<chain, typed, stray, life, lister>>
makers == <<chain, typed, stray, life>>

TypeOK ==
    /\ chain \in Seq(Blocks) /\ typed \subseteq Blocks
    /\ stray \in [Blocks -> Blocks \union {Null}]
    /\ life \in [Blocks -> {"free", "other", "made", "linked", "leaving"}]
    /\ lister \in [at : {"off", "get", "show", "done", "wild"}, next : Blocks \union {List, Null},
                  todo : Seq(Blocks), stay : SUBSET Blocks, shown : SUBSET Blocks, met : BOOLEAN]
    /\ lister.shown \subseteq lister.stay

-----------------------------------------------------------------------------
(* The makers of objects.  What they do to the block the lister goes on    *)
(* from, it meets there.                                                   *)

Met(b) == lister' = [lister EXCEPT !.met = @ \/ b = lister.next,
                                   !.stay = @ \ {b}, !.shown = @ \ {b}]

\* rt_object_init sets the type of a static control block, ...
InitType(b) ==
    /\ b \in Static /\ life[b] = "free"
    /\ typed' = typed \union {b}
    /\ life' = [life EXCEPT ![b] = "made"]
    /\ Met(b)
    /\ UNCHANGED <<chain, stray>>

\* ... rt_object_allocate that of a block it has cleared, ...
AllocateType(b) ==
    /\ b \in Heap /\ life[b] = "free"
    /\ typed' = typed \union {b}
    /\ stray' = [stray EXCEPT ![b] = Null]
    /\ life' = [life EXCEPT ![b] = "made"]
    /\ Met(b)
    /\ UNCHANGED chain

\* ... and both link it behind the list head.
Link(b) ==
    /\ life[b] = "made"
    /\ chain' = <<b>> \o chain
    /\ life' = [life EXCEPT ![b] = "linked"]
    /\ UNCHANGED <<typed, stray, lister>>

\* rt_object_detach and rt_object_delete clear the type ...
ClearType(b) ==
    /\ life[b] = "linked"
    /\ typed' = typed \ {b}
    /\ life' = [life EXCEPT ![b] = "leaving"]
    /\ Met(b)
    /\ UNCHANGED <<chain, stray>>

\* ... and then unlink; rt_list_remove lets the node point to itself.
Unlink(b) ==
    /\ life[b] = "leaving"
    /\ chain' = RemoveAt(chain, CHOOSE i \in DOMAIN chain : chain[i] = b)
    /\ stray' = [stray EXCEPT ![b] = b]
    /\ life' = [life EXCEPT ![b] = "free"]
    /\ UNCHANGED <<typed, lister>>

\* A freed block may be given to anybody, who writes to it what he likes.
Reuse(b) ==
    /\ b \in Heap /\ life[b] = "free"
    /\ \E t \in {typed \ {b}, typed \union {b}} : typed' = t
    /\ stray' = [stray EXCEPT ![b] = Null]
    /\ life' = [life EXCEPT ![b] = "other"]
    /\ Met(b)
    /\ UNCHANGED chain

Free(b) ==
    /\ life[b] = "other"
    /\ life' = [life EXCEPT ![b] = "free"]
    /\ UNCHANGED <<chain, typed, stray, lister>>

-----------------------------------------------------------------------------
(* The listing                                                              *)

Linked == Range(chain)
After(b) == IF b = List THEN 1 ELSE 1 + CHOOSE i \in DOMAIN chain : chain[i] = b

Begin ==
    /\ lister.at \in {"off", "done"}
    /\ lister' = [at |-> "get", next |-> List, todo |-> <<>>, shown |-> {},
                  stay |-> {b \in Blocks : life[b] = "linked"}, met |-> FALSE]
    /\ UNCHANGED makers

\* Mutation of GetNext: the batch begins with the block it goes on from.
GetNextAgain ==
    LET from == After(lister.next) - (IF lister.next = List THEN 0 ELSE 1)
        got == SubSeq(chain, from, IF from + Batch - 1 < Len(chain) THEN from + Batch - 1 ELSE Len(chain))
    IN  /\ lister.at = "get" /\ lister.next \in {List} \union (typed \intersect Linked)
        /\ lister' = [lister EXCEPT !.at = "show", !.todo = got,
                          !.next = IF Len(got) = Batch THEN Last(got) ELSE Null,
                          !.met = @ \/ (Len(got) = Batch /\ Last(got) \notin typed)]
        /\ UNCHANGED makers

\* list_get_next: up to Batch blocks behind the one it goes on from; it goes on
\* from the last of a full batch.
GetNext ==
    LET from == After(lister.next)
        got == SubSeq(chain, from, IF from + Batch - 1 < Len(chain) THEN from + Batch - 1 ELSE Len(chain))
    IN  /\ lister.at = "get" /\ lister.next \in {List} \union (typed \intersect Linked)
        /\ lister' = [lister EXCEPT !.at = "show", !.todo = got,
                          !.next = IF Len(got) = Batch THEN Last(got) ELSE Null,
                          !.met = @ \/ (Len(got) = Batch /\ Last(got) \notin typed)]
        /\ UNCHANGED makers

\* "The node in the list?"  Without the type it takes the listing for ended.
GetNothing ==
    /\ lister.at = "get" /\ lister.next \notin {List} \union typed
    /\ lister' = [lister EXCEPT !.at = "done"]
    /\ UNCHANGED makers

\* With the type, but not in the list, it follows what the block holds.  A block
\* that points to itself fills the batch; the others lead out of the objects.
GetStray ==
    /\ lister.at = "get" /\ lister.next \in typed \ Linked
    /\ lister' = IF stray[lister.next] = Null THEN [lister EXCEPT !.at = "wild"]
                 ELSE [lister EXCEPT !.at = "show", !.todo = [i \in 1..Batch |-> lister.next]]
    /\ UNCHANGED makers

\* One block of the batch, if it has its type (still).
Show ==
    /\ lister.at = "show" /\ lister.todo # <<>>
    /\ lister' = [lister EXCEPT !.todo = Tail(@),
                      !.shown = @ \union ({Head(lister.todo)} \intersect typed \intersect lister.stay)]
    /\ UNCHANGED makers

\* The batch is shown.
Shown ==
    /\ lister.at = "show" /\ lister.todo = <<>>
    /\ lister' = [lister EXCEPT !.at = IF lister.next = Null THEN "done" ELSE "get"]
    /\ UNCHANGED makers

Init ==
    /\ chain = <<>> /\ typed = {}
    /\ stray = [b \in Blocks |-> Null]
    /\ life = [b \in Blocks |-> "free"]
    /\ lister = [at |-> "off", next |-> Null, todo |-> <<>>, shown |-> {}, stay |-> {}, met |-> FALSE]

Next ==
    \/ \E b \in Blocks : \/ InitType(b) \/ AllocateType(b) \/ Link(b)
                         \/ ClearType(b) \/ Unlink(b) \/ Reuse(b) \/ Free(b)
    \/ Begin \/ GetNext \/ GetNothing \/ GetStray \/ Show \/ Shown

Spec == Init /\ [][Next]_vars
-----------------------------------------------------------------------------
(* Properties                                                               *)

\* The list holds every object that is linked, or about to be unlinked, once.
ChainSound ==
    /\ TypeOK /\ IsInjective(chain)
    /\ Linked = {b \in Blocks : life[b] \in {"linked", "leaving"}}

\* However objects come and go between the batches: a listing that did not meet
\* a block which had lost its type or changed hands shows every object that was
\* there all the time, and no such object twice.
ListingComplete ==
    ~lister.met =>
        /\ lister.at # "wild"
        /\ lister.at = "done" => lister.stay = lister.shown
        /\ IsInjective(lister.todo) /\ Range(lister.todo) \intersect lister.shown = {}
=============================================================================
