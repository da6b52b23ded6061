----------------------- MODULE SnapshotServiceProofs ------------------------
(***************************************************************************)
(* Whatever implements SnapshotService keeps its pace, from both sides.    *)
(***************************************************************************)
EXTENDS SnapshotService, TLAPS

ServiceOK ==
  /\ now \in Nat \ {0}
  /\ last \in Nat
  /\ alarm \in Nat
  /\ allowed \in SUBSET (Nat \ {0})

\* The alarm is set between two times at which an allowed frequency has
\* passed since the last snapshot, and has gone off after the first of them.
AlarmInv ==
  last # 0 =>
    /\ \E f \in allowed : last + f <= IF alarm = 0 THEN now ELSE alarm
    /\ IsInTime

LEMMA Invariance == Spec => [](ServiceOK /\ AlarmInv)
  <1>1. Init => ServiceOK /\ AlarmInv
    BY DEF Init, ServiceOK, AlarmInv
  <1>2. ASSUME ServiceOK, AlarmInv, [Next]_vars
        PROVE  ServiceOK' /\ AlarmInv'
    <2> USE <1>2 DEF ServiceOK
    <2>1. CASE Pass
      <3>1. /\ now' = now + 1
            /\ alarm' = IF alarm <= now + 1 THEN 0 ELSE alarm
            /\ UNCHANGED <<last, allowed>>
        BY <2>1 DEF Pass
      <3>2. ServiceOK'
        BY <3>1
      <3>3. ASSUME last # 0
            PROVE  \E f \in allowed : last + f <= IF alarm' = 0 THEN now' ELSE alarm'
        <4>1. PICK f \in allowed : last + f <= IF alarm = 0 THEN now ELSE alarm
          BY <3>3 DEF AlarmInv
        <4>2. last + f \in Nat
          OBVIOUS
        <4>3. last + f <= IF alarm' = 0 THEN now' ELSE alarm'
          BY <3>1, <4>1, <4>2
        <4>4. QED
          BY <4>3
      <3>4. last # 0 => IsInTime'
        BY <3>1 DEF AlarmInv, IsInTime
      <3>5. QED
        BY <3>1, <3>2, <3>3, <3>4 DEF AlarmInv
    <2>2. CASE Begin
      <3>1. PICK f \in allowed' : alarm' = now + f
        BY <2>2 DEF Begin
      <3>2. /\ last' = now /\ now' = now
            /\ allowed' \in SUBSET allowed
        BY <2>2 DEF Begin
      <3>3. ServiceOK' /\ f \in Nat /\ alarm' # 0
        BY <3>1, <3>2
      <3>4. last' + f <= alarm' /\ alarm' <= last' + f
        BY <3>1, <3>2, <3>3
      <3>5. QED
        BY <3>3, <3>4 DEF AlarmInv, IsInTime
    <2>3. CASE Fail \/ Distribute \/ Offer \/ Stop
      BY <2>3 DEF Fail, Distribute, Offer, Stop, AlarmInv, IsInTime
    <2>4. ASSUME SetAlarm, last # 0, UNCHANGED <<now, last, allowed>>
          PROVE  ServiceOK' /\ AlarmInv'
      <3>1. PICK f \in allowed : last + f > now /\ alarm' = last + f
        BY <2>4 DEF SetAlarm
      <3>2. alarm' \in Nat /\ alarm' # 0 /\ last + f <= alarm' /\ alarm' <= last + f
        BY <3>1
      <3>3. QED
        BY <2>4, <3>2 DEF AlarmInv, IsInTime
    <2>5. CASE Reschedule
      BY <2>4, <2>5 DEF Reschedule
    <2>6. CASE End
      <3>1. UNCHANGED <<now, last, allowed>>
        BY <2>6 DEF End
      <3>2. CASE UNCHANGED alarm
        BY <3>1, <3>2 DEF AlarmInv, IsInTime
      <3>3. CASE SetAlarm
        <4>1. CASE last # 0
          BY <2>4, <3>1, <3>3, <4>1
        <4>2. CASE last = 0
          BY <3>1, <3>3, <4>2 DEF SetAlarm, AlarmInv
        <4>3. QED
          BY <4>1, <4>2
      <3>4. QED
        BY <2>6, <3>2, <3>3 DEF End
    <2>7. CASE Reload
      BY <2>7 DEF Reload, AlarmInv, IsInTime
    <2>8. CASE UNCHANGED vars
      BY <2>8 DEF vars, AlarmInv, IsInTime
    <2>9. QED
      BY <2>1, <2>2, <2>3, <2>5, <2>6, <2>7, <2>8 DEF Next
  <1>3. QED
    BY <1>1, <1>2, PTL DEF Spec

(***************************************************************************)
(* "ensure that we do not hammer on vault" (snapshot-agent.go:149), of     *)
(* every service that is driven by such an alarm: it goes off only when a  *)
(* frequency has passed, and nothing else starts a snapshot.               *)
(***************************************************************************)
THEOREM ServiceKeepsItsDistance == Spec => KeepsItsDistance
  <1>1. ASSUME ServiceOK, AlarmInv, Next, last # 0, last' # last
        PROVE  \E f \in allowed : last' >= last + f
    <2>1. Begin
      BY <1>1 DEF Next, Pass, Fail, Distribute, Offer, End, Reload, Reschedule, Stop
    <2>2. alarm = 0 /\ last' = now
      BY <2>1 DEF Begin
    <2>3. PICK f \in allowed : last + f <= now
      BY <1>1, <2>2 DEF AlarmInv
    <2>4. QED
      BY <1>1, <2>2, <2>3 DEF ServiceOK
  <1>2. ServiceOK /\ AlarmInv /\ [Next]_vars =>
          [last # 0 /\ last' # last => \E f \in allowed : last' >= last + f]_vars
    BY <1>1
  <1>3. QED
    BY <1>2, Invariance, PTL DEF Spec, KeepsItsDistance

(***************************************************************************)
(* ... and its alarm goes off no later than the longest frequency asks     *)
(* for: however often snapshots fail and configurations change, the next   *)
(* one is never forgotten.                                                 *)
(***************************************************************************)
THEOREM ServiceIsInTime == Spec => []IsInTime
  <1>1. AlarmInv => IsInTime
    BY DEF AlarmInv, IsInTime
  <1>2. QED
    BY <1>1, Invariance, PTL

=============================================================================
