--------------------------- MODULE TimersPromise ---------------------------
(***************************************************************************)
(* What the timers of a script world promise, without the array, the       *)
(* index table and the versions: timers are added, cancelled one by one or *)
(* by owner, and an update calls each timer that was there when it began   *)
(* and is still active, at most once; one that does not repeat is gone     *)
(* after its call.                                                         *)
(***************************************************************************)
CONSTANTS Owners, Ids

VARIABLES active,   \* the timers that may be called, by identity
          due,      \* those the update in progress has yet to come to
          calling   \* the timer whose callback runs, or none

None == 0

Timer == [id : Ids, owner : Owners, repeat : BOOLEAN]
Named(i) == {t \in active : t.id = i}

Init == active = {} /\ due = {} /\ calling = None

Add(t) ==
  /\ Named(t.id) = {}
  /\ active' = active \cup {t}
  /\ UNCHANGED <<due, calling>>

Cancel(i) ==
  /\ active' = active \ Named(i)
  /\ due' = due \ {i}
  /\ UNCHANGED calling

Kill(owner) ==
  /\ active' = {t \in active : t.owner # owner}
  /\ due' = {i \in due : \A t \in Named(i) : t.owner # owner}
  /\ UNCHANGED calling

Begin ==
  /\ due = {} /\ calling = None
  /\ due' = {t.id : t \in active}
  /\ UNCHANGED <<active, calling>>

\* Time is not up for a timer.
PassOver(i) ==
  /\ i \in due /\ calling = None
  /\ due' = due \ {i}
  /\ UNCHANGED <<active, calling>>

Call(i) ==
  /\ i \in due /\ Named(i) # {} /\ calling = None
  /\ due' = due \ {i}
  /\ calling' = i
  /\ UNCHANGED active

Return ==
  /\ calling # None
  /\ active' = {t \in active : t.id = calling => t.repeat}
  /\ calling' = None
  /\ UNCHANGED due

Next ==
  \/ \E t \in Timer : Add(t)
  \/ \E i \in Ids : Cancel(i) \/ PassOver(i) \/ Call(i)
  \/ \E o \in Owners : Kill(o)
  \/ Begin \/ Return

Spec == Init /\ [][Next]_<<active, due, calling>>

=============================================================================
