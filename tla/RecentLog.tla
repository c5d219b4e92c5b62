------------------------------- MODULE RecentLog -------------------------------
(***************************************************************************)
(* What a history that lives in one file promises: the newest entries in   *)
(* the order they were written, never more than Size of them, forgotten    *)
(* from the old end only, and, after a restart, exactly what the last save *)
(* kept.  A save that is cut short costs all that was kept; what an        *)
(* earlier version of the program left elsewhere (ancient) may then take   *)
(* its place.                                                              *)
(***************************************************************************)
EXTENDS Naturals, Sequences

CONSTANTS
  Entries,  \* what can be written
  Size      \* how many entries are kept at most

VARIABLES
  recent,  \* the entries in memory, the oldest first
  kept,    \* what a restart would find
  ancient  \* what an earlier version of the program left behind

logVars == <<recent, kept, ancient>>

Newest(s) == IF Len(s) > Size THEN Tail(s) ELSE s

Write(x) == recent' = Newest(Append(recent, x)) /\ UNCHANGED <<kept, ancient>>

\* Entries expire, the oldest first.
Expire ==
  /\ \E n \in 0..Len(recent) : recent' = SubSeq(recent, n + 1, Len(recent))
  /\ UNCHANGED <<kept, ancient>>

Keep == kept' = recent /\ UNCHANGED <<recent, ancient>>

\* A save is cut short.
Damage ==
  /\ kept' \in {<<>>, ancient}
  /\ UNCHANGED <<recent, ancient>>

Restart ==
  /\ recent' = kept
  /\ kept' \in {kept, ancient}
  /\ UNCHANGED ancient

Init == recent = <<>> /\ kept \in {<<>>, ancient} /\ ancient \in Seq(Entries)

Next ==
  \/ \E x \in Entries : Write(x)
  \/ Expire
  \/ Keep
  \/ Damage
  \/ Restart

Spec == Init /\ [][Next]_logVars
=============================================================================
