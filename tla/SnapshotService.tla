-------------------------- MODULE SnapshotService ---------------------------
(***************************************************************************)
(* What the agent promises its user: an alarm clock that goes off when one *)
(* of the configured frequencies has passed since the last snapshot, a     *)
(* snapshot whenever it has gone off, and each snapshot offered to every   *)
(* storage of the configuration it was taken with.  SnapshotAgent, with    *)
(* its ticker, its lock and its watcher, implements this specification.    *)
(***************************************************************************)
EXTENDS Naturals

VARIABLES now,
          phase,    \* "waiting", "taking", "distributing" or "stopped"
          last,     \* when the last snapshot began, 0 before the first
          alarm,    \* when the alarm will go off, 0 once it has
          allowed,  \* frequencies that were configured since then
          config,   \* the parts in use; its sections are the storages
          rest      \* the storages that were not yet offered the snapshot

vars == <<now, phase, last, alarm, allowed, config, rest>>

\* The first snapshot is due at once.
Init == /\ now \in Nat \ {0}
        /\ phase = "waiting"
        /\ last = 0
        /\ alarm = 0
        /\ allowed \in SUBSET (Nat \ {0})
        /\ rest = {}

Pass == /\ phase # "stopped"
        /\ now' = now + 1
        /\ alarm' = IF alarm <= now + 1 THEN 0 ELSE alarm
        /\ UNCHANGED <<phase, last, allowed, config, rest>>

\* Only the frequencies in use are allowed from now on.
Begin == /\ phase = "waiting"
         /\ alarm = 0
         /\ phase' = "taking"
         /\ last' = now
         /\ allowed' \in SUBSET allowed
         /\ \E f \in allowed' : alarm' = now + f
         /\ UNCHANGED <<now, config, rest>>

Fail == /\ phase = "taking"
        /\ phase' = "waiting"
        /\ UNCHANGED <<now, last, alarm, allowed, config, rest>>

Distribute == /\ phase = "taking"
              /\ phase' = "distributing"
              /\ rest' = config.sections
              /\ UNCHANGED <<now, last, alarm, allowed, config>>

\* To one storage, or to none of those that are left.
Offer == /\ phase = "distributing"
         /\ rest' \in {rest \ {l} : l \in rest} \cup {{}}
         /\ UNCHANGED <<now, phase, last, alarm, allowed, config>>

SetAlarm == \E f \in allowed : last + f > now /\ alarm' = last + f

End == /\ phase = "distributing"
       /\ rest = {}
       /\ phase' = "waiting"
       /\ SetAlarm \/ UNCHANGED alarm
       /\ UNCHANGED <<now, last, allowed, config, rest>>

\* A change of the file allows more at any time; parts are exchanged only
\* between snapshots.
Reload == /\ phase # "stopped"
          /\ allowed' \in SUBSET (Nat \ {0})
          /\ allowed \subseteq allowed'
          /\ phase # "waiting" => UNCHANGED config
          /\ UNCHANGED <<now, phase, last, alarm, rest>>

Reschedule == /\ phase = "waiting"
              /\ last # 0
              /\ SetAlarm
              /\ UNCHANGED <<now, phase, last, allowed, config, rest>>

Stop == /\ phase = "waiting"
        /\ phase' = "stopped"
        /\ UNCHANGED <<now, last, alarm, allowed, config, rest>>

Next == \/ Pass
        \/ Begin
        \/ Fail
        \/ Distribute
        \/ Offer
        \/ End
        \/ Reload
        \/ Reschedule
        \/ Stop

Spec == Init /\ [][Next]_vars

(***************************************************************************)
(* Two snapshots begin no closer together than a frequency that was        *)
(* configured at some moment between them.                                 *)
(***************************************************************************)
KeepsItsDistance ==
  [][last # 0 /\ last' # last => \E f \in allowed : last' >= last + f]_vars

(***************************************************************************)
(* The alarm is never set so late that none of the frequencies configured  *)
(* since the last snapshot would have asked for it.                        *)
(***************************************************************************)
IsInTime == last # 0 => alarm = 0 \/ \E f \in allowed : alarm <= last + f

=============================================================================
