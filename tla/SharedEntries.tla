--------------------------- MODULE SharedEntries ---------------------------
(***************************************************************************)
(* What a SessionState object promises the callers of updateEntry, without     *)
(* generations, alarms, sweeps, registrations or the callers' clocks: an entry  *)
(* is missed only when it is not there or its time is up, another write drops   *)
(* it only for want of room, and an update goes through only while the entry is *)
(* as its caller saw it.  A caller whose object began anew since it read is not  *)
(* sure of what it saw.                                                         *)
(***************************************************************************)
EXTENDS Integers

CONSTANTS
    Keys, Callers, None,
    Room            \* the sets of keys that there is room for

VARIABLES
    entry,          \* each key's, with its value and expiresAt, or None
    view,           \* what each caller saw: current, of its key, or None
    clock,
    count           \* how many values were written: a value is its number

vars == <<entry, view, clock, count>>

Init ==
    /\ entry = [k \in Keys |-> None]
    /\ view = [c \in Callers |-> None]
    /\ clock = 1
    /\ count = 0

Gone(k) == entry[k] = None \/ entry[k].expiresAt <= clock

Sees(c, k, v) ==
    /\ view'[c] # None /\ view'[c].key = k /\ view'[c].current = v /\ ~view'[c].restarted
    /\ view' = [view EXCEPT ![c] = view'[c]]

\* The caller has nothing in hand, or asks again about its key.
Read(c, k) ==
    /\ UNCHANGED <<clock, count>>
    /\ view[c] = None \/ view[c].key = k
    /\ entry' = [entry EXCEPT ![k] = entry'[k]]
    /\ \/ Gone(k) /\ entry'[k] = None /\ Sees(c, k, None)
       \/ /\ entry[k] # None /\ entry'[k] # None
          /\ entry'[k].value = entry[k].value /\ entry'[k].expiresAt >= entry[k].expiresAt
          /\ Sees(c, k, entry[k].value)

\* The entry of k is the next value; others go for want of room only.
Put(k) ==
    /\ count' = count + 1
    /\ entry'[k] # None /\ entry'[k].value = count'
    /\ entry' = [j \in Keys |-> IF j # k /\ entry'[j] # None THEN entry[j] ELSE entry'[j]]
    /\ (\E j \in Keys \ {k} : entry[j] # None /\ entry'[j] = None) =>
            {j \in Keys : entry[j] # None} \cup {k} \notin Room
    /\ UNCHANGED clock

\* The entry is as the caller saw it.
AsSeen(c) ==
    LET k == view[c].key
    IN  IF view[c].current = None THEN Gone(k) ELSE entry[k] # None /\ entry[k].value = view[c].current

May(c) == view[c] # None /\ (~view[c].restarted => AsSeen(c))

Update(c) ==
    /\ May(c)
    /\ Put(view[c].key)
    /\ view' = [view EXCEPT ![c] = None] \/ Sees(c, view[c].key, count')

UpdateDeletes(c) ==
    /\ UNCHANGED <<clock, count>>
    /\ view' = [view EXCEPT ![c] = None]
    /\ May(c)
    /\ entry' = [entry EXCEPT ![view[c].key] = None]

Overwrite(k) == UNCHANGED view /\ Put(k)

Delete(k) ==
    /\ UNCHANGED <<view, clock, count>>
    /\ entry' = [entry EXCEPT ![k] = None]

Leave(c) ==
    /\ view' = [view EXCEPT ![c] = None]
    /\ UNCHANGED <<entry, clock, count>>

\* Some entries whose time is up go.
Lapse ==
    /\ entry' = [k \in Keys |-> IF entry'[k] = None THEN None ELSE entry[k]]
    /\ \A k \in Keys : entry'[k] = None => Gone(k)

Unsure == view' = [c \in Callers |-> IF view[c] = None THEN None ELSE [view[c] EXCEPT !.restarted = TRUE]]

Expire ==
    /\ UNCHANGED <<clock, count>>
    /\ UNCHANGED view \/ Unsure
    /\ Lapse

\* The org is deleted.
Wipe ==
    /\ entry' = [k \in Keys |-> None]
    /\ Unsure
    /\ UNCHANGED <<clock, count>>

Tick == clock' = clock + 1 /\ UNCHANGED <<entry, view, count>>

Next ==
    \/ Tick \/ Expire
    \/ \E k \in Keys : Overwrite(k) \/ Delete(k)
    \/ \E c \in Callers : Update(c) \/ UpdateDeletes(c) \/ Leave(c) \/ \E k \in Keys : Read(c, k)
    \/ Wipe

Spec == Init /\ [][Next]_vars
=============================================================================
