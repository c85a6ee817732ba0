------------------------------ MODULE Channel ------------------------------
(***************************************************************************)
(* What a mailbox and a message queue promise: a bounded FIFO.  A call to  *)
(* send offers a value, which some later step puts into the channel or     *)
(* refuses; a receiver gets the first value and is handed exactly that     *)
(* one.  Resetting the object empties the channel.                         *)
(***************************************************************************)
EXTENDS Sequences, Naturals

CONSTANTS Procs,     \* threads and interrupt handlers
          Values,    \* what is sent
          Capacity,  \* how many values the channel holds
          None       \* no value

VARIABLES chan,   \* the values sent and not received, first one first
          offer,  \* what a process is sending
          hand    \* what a process has received and not returned with yet

vars == <<chan, offer, hand>>

Offer(p, v) == /\ offer[p] = None
               /\ offer' = [offer EXCEPT ![p] = v]
               /\ UNCHANGED <<chan, hand>>

Put(p) == /\ offer[p] # None /\ Len(chan) < Capacity
          /\ chan' = Append(chan, offer[p])
          /\ offer' = [offer EXCEPT ![p] = None]
          /\ UNCHANGED hand

\* An urgent value goes before the others.
PutFirst(p) == /\ offer[p] # None /\ Len(chan) < Capacity
               /\ chan' = <<offer[p]>> \o chan
               /\ offer' = [offer EXCEPT ![p] = None]
               /\ UNCHANGED hand

\* The channel was full, or the sender gave up.
Refuse(p) == /\ offer[p] # None
             /\ offer' = [offer EXCEPT ![p] = None]
             /\ UNCHANGED <<chan, hand>>

Get(p) == /\ hand[p] = None /\ chan # <<>>
          /\ hand' = [hand EXCEPT ![p] = Head(chan)]
          /\ chan' = Tail(chan)
          /\ UNCHANGED offer

Return(p) == /\ hand[p] # None
             /\ hand' = [hand EXCEPT ![p] = None]
             /\ UNCHANGED <<chan, offer>>

Clear == chan' = <<>> /\ UNCHANGED <<offer, hand>>

Init == /\ chan = <<>>
        /\ offer = [p \in Procs |-> None]
        /\ hand = [p \in Procs |-> None]

Next == \/ \E p \in Procs : \/ \E v \in Values : Offer(p, v)
                            \/ Put(p) \/ PutFirst(p) \/ Refuse(p)
                            \/ Get(p) \/ Return(p)
        \/ Clear

Spec == Init /\ [][Next]_vars
=============================================================================
