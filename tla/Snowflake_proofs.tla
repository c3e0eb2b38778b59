-------------------------- MODULE Snowflake_proofs --------------------------
(***************************************************************************)
(* For any number of threads, ids per millisecond and reads of the clock:  *)
(* a thread's ids increase, and nextId() gives up only when it has issued  *)
(* all ids of the millisecond, until the clock is set back or a wait has   *)
(* failed.  The inductive invariant relates the ids that were issued to    *)
(* the last timestamp and the sequence.                                    *)
(***************************************************************************)
EXTENDS Snowflake, TLAPS

(* Nothing has gone wrong for the thread yet.                              *)
Sane(t) == ~setBack /\ ~failed[t]

(* What was given to initSnowflake() are integers of any sign; only a      *)
(* thread that has a generator waits.                                      *)
CustomInv ==
    /\ custom \in Int \X Int
    /\ hostHash \in (-Range + 1)..(Range - 1)
    /\ threadHash \in [Threads -> 0..(Range - 1)]
    /\ \A t \in Threads : pc[t] = "waiting" => generator[t] # <<>>

(* No id is ahead of the last timestamp, nor, in that millisecond, of the  *)
(* sequence.                                                               *)
Behind(t, id) ==
    \/ id.timestamp < lastTimestamp[t]
    \/ id.timestamp = lastTimestamp[t] /\ (pc[t] = "waiting" \/ id.sequence <= sequence[t])

OrderInv == \A t \in Threads : Sane(t) =>
    /\ lastTimestamp[t] <= now
    /\ Increasing(issued[t])
    /\ \A i \in DOMAIN issued[t] : Behind(t, issued[t][i])

(* All numbers up to the sequence are used, all of them when it waits.     *)
UsedInv == \A t \in Threads : Sane(t) =>
    /\ pc[t] = "waiting" => Used(t) = 0..(Sequences - 1)
    /\ pc[t] = "idle" /\ lastTimestamp[t] # -1 => Used(t) = 0..sequence[t]

FlakeInv == TypeOK /\ CustomInv /\ OrderInv /\ UsedInv

-----------------------------------------------------------------------------
(* Numbers and sequences.                                                  *)

(* The following number, unless it wraps, is the next one.                 *)
LEMMA FollowingIs ==
    ASSUME NEW t \in Threads, sequence[t] \in 0..(Sequences - 1)
    PROVE  /\ Following(t) = IF sequence[t] + 1 = Sequences THEN 0 ELSE sequence[t] + 1
           /\ Following(t) \in 0..(Sequences - 1)
<1> DEFINE n == sequence[t] + 1
<1>1. Sequences \in Nat \ {0} /\ n \in 1..Sequences
  BY SnowflakeAssumption
<1>2. CASE n = Sequences
  <2>1. Sequences % Sequences = 0
    BY <1>1
  <2> QED
    BY <1>1, <1>2, <2>1 DEF Following
<1>3. CASE n < Sequences
  <2>1. n % Sequences = n
    BY <1>1, <1>3
  <2> QED
    BY <1>1, <1>3, <2>1 DEF Following
<1> QED
  BY <1>1, <1>2, <1>3

(* The ids after one more was issued.                                      *)
LEMMA AfterAppend ==
    ASSUME NEW ids \in Seq(Ids), NEW id \in Ids
    PROVE  /\ Append(ids, id) \in Seq(Ids)
           /\ DOMAIN Append(ids, id) = DOMAIN ids \cup {Len(ids) + 1}
           /\ \A i \in DOMAIN ids : i < Len(ids) + 1 /\ Append(ids, id)[i] = ids[i]
           /\ Append(ids, id)[Len(ids) + 1] = id
OBVIOUS

(* Ids that increase, and one that is after all of them, increase.         *)
LEMMA IncreasingAppend ==
    ASSUME NEW ids \in Seq(Ids), NEW id \in Ids, Increasing(ids),
           \A i \in DOMAIN ids : Before(ids[i], id)
    PROVE  Increasing(Append(ids, id))
<1> DEFINE more == Append(ids, id)
<1> SUFFICES ASSUME NEW i \in DOMAIN more, NEW j \in DOMAIN more, i < j
             PROVE  Before(more[i], more[j])
  BY DEF Increasing
<1>1. DOMAIN more = DOMAIN ids \cup {Len(ids) + 1} /\ Len(ids) \in Nat
  BY AfterAppend
<1>2. i \in DOMAIN ids /\ more[i] = ids[i]
  BY <1>1, AfterAppend
<1>3. CASE j \in DOMAIN ids
  BY <1>2, <1>3, AfterAppend DEF Increasing
<1>4. CASE j = Len(ids) + 1
  BY <1>2, <1>4, AfterAppend
<1> QED
  BY <1>1, <1>3, <1>4

-----------------------------------------------------------------------------
(* The one step that issues an id.                                         *)

LEMMA Issuing ==
    ASSUME FlakeInv, NEW t \in Threads, NEW number \in 0..(Sequences - 1),
           Issue(t, number), generator[t] # <<>>,
           UNCHANGED <<now, setBack, machine, generator, waitCount, failed>>,
           Sane(t) => \A i \in DOMAIN issued[t] :
                          Before(issued[t][i], Id(t, now, number)),
           Sane(t) => \/ number = 0 /\ now # lastTimestamp[t]
                      \/ /\ now = lastTimestamp[t] /\ pc[t] = "idle"
                         /\ number = sequence[t] + 1
    PROVE  FlakeInv'
<1> DEFINE id == Id(t, now, number)
<1>0. /\ now \in 0..MaxTime /\ MaxTime \in Nat /\ Sequences \in Nat \ {0}
      /\ sequence \in [Threads -> 0..(Sequences - 1)]
      /\ lastTimestamp \in [Threads -> -1..MaxTime]
      /\ pc \in [Threads -> {"idle", "waiting"}]
      /\ generator \in [Threads -> {<<>>} \cup (FieldRange \X FieldRange)]
      /\ issued \in [Threads -> Seq(Ids)]
  BY SnowflakeAssumption DEF FlakeInv, TypeOK
<1>1. id \in Ids /\ id.timestamp = now /\ id.sequence = number
  BY <1>0 DEF Id, Ids
<1>2. /\ sequence'[t] = number /\ lastTimestamp'[t] = now /\ pc'[t] = "idle"
      /\ issued'[t] = Append(issued[t], id)
      /\ \A u \in Threads \ {t} :
            /\ sequence'[u] = sequence[u] /\ lastTimestamp'[u] = lastTimestamp[u]
            /\ pc'[u] = pc[u] /\ issued'[u] = issued[u]
  BY <1>0 DEF Issue
<1>3. issued[t] \in Seq(Ids) /\ issued'[t] \in Seq(Ids)
  BY <1>0, <1>1, <1>2, AfterAppend
<1>4. TypeOK'
  <2>1. (setBack \in BOOLEAN)' /\ (failed \in [Threads -> BOOLEAN])'
    BY Zenon DEF FlakeInv, TypeOK
  <2>2. issued' \in [Threads -> Seq(Ids)]
    BY <1>0, <1>3, <1>2 DEF Issue
  <2> QED
    BY <1>0, <2>1, <2>2 DEF FlakeInv, TypeOK, Issue
<1>5. CustomInv'
  BY <1>0, <1>2 DEF FlakeInv, CustomInv, machine
<1>6. ASSUME NEW u \in Threads, Sane(u)' PROVE Sane(u)
  BY <1>6 DEF Sane
<1>7. OrderInv'
  <2> SUFFICES ASSUME NEW u \in Threads, Sane(u)'
               PROVE  /\ lastTimestamp'[u] <= now
                      /\ Increasing(issued'[u])
                      /\ \A i \in DOMAIN issued'[u] : Behind(u, issued[u][i])'
    BY DEF OrderInv
  <2>1. /\ lastTimestamp[u] <= now
        /\ Increasing(issued[u])
        /\ \A i \in DOMAIN issued[u] : Behind(u, issued[u][i])
    BY <1>6 DEF FlakeInv, OrderInv
  <2>2. CASE u # t
    <3>1. /\ lastTimestamp'[u] = lastTimestamp[u] /\ sequence'[u] = sequence[u]
          /\ pc'[u] = pc[u] /\ issued'[u] = issued[u]
      BY <1>2, <2>2
    <3>2. lastTimestamp'[u] <= now /\ Increasing(issued'[u])
      BY <2>1, <3>1
    <3>3. ASSUME NEW i \in DOMAIN issued'[u] PROVE Behind(u, issued[u][i])'
      BY <2>1, <3>1, <3>3 DEF Behind
    <3> QED
      BY <3>2, <3>3
  <2>3. CASE u = t
    <3>1. Sane(t)
      BY <1>6, <2>3
    <3>2. Increasing(issued'[t])
      BY <1>1, <1>2, <1>3, <2>1, <2>3, <3>1, IncreasingAppend
    <3>3. ASSUME NEW i \in DOMAIN issued'[t] PROVE Behind(t, issued[t][i])'
      <4>1. CASE i \in DOMAIN issued[t]
        <5>1. issued'[t][i] = issued[t][i] /\ Before(issued[t][i], id)
          BY <1>1, <1>2, <1>3, <3>1, <4>1, AfterAppend
        <5>2. /\ issued[t][i] \in Ids
          BY <1>3, <4>1
        <5> QED
          BY <1>0, <1>1, <1>2, <5>1, <5>2 DEF Before, Behind, Ids
      <4>2. CASE i = Len(issued[t]) + 1
        BY <1>0, <1>1, <1>2, <1>3, <4>2, AfterAppend DEF Behind
      <4> QED
        BY <1>1, <1>2, <1>3, <3>3, <4>1, <4>2, AfterAppend
    <3>4. ASSUME NEW i \in DOMAIN issued'[u] PROVE Behind(u, issued[u][i])'
      <4>1. Behind(t, issued[t][i])'
        BY <2>3, <3>3
      <4> QED
        BY <2>3, <4>1 DEF Behind
    <3>5. lastTimestamp'[u] <= now
      BY <1>0, <1>2, <2>3
    <3>6. Increasing(issued'[u])
      BY <2>3, <3>2, Zenon
    <3> QED
      BY <3>4, <3>5, <3>6
  <2> QED
    BY <2>2, <2>3
<1>8. UsedInv'
  <2> SUFFICES ASSUME NEW u \in Threads, Sane(u)'
               PROVE  /\ pc'[u] = "waiting" => Used(u)' = 0..(Sequences - 1)
                      /\ pc'[u] = "idle" /\ lastTimestamp'[u] # -1 =>
                             Used(u)' = 0..sequence'[u]
    BY DEF UsedInv
  <2>1. CASE u # t
    <3>1. Used(u)' = Used(u)
      BY <1>2, <2>1 DEF Used
    <3> QED
      BY <1>2, <1>6, <2>1, <3>1 DEF FlakeInv, UsedInv
  <2>2. CASE u = t
    <3>0. Sane(t) /\ pc'[t] = "idle"
      BY <1>2, <1>6, <2>2
    <3> DEFINE ids == issued[t]
               Numbers(list) == {list[i].sequence : i \in {j \in DOMAIN list :
                                                         list[j].timestamp = now}}
    <3>1. Used(t)' = Numbers(Append(ids, id))
      BY <1>2 DEF Used
    <3>2. Numbers(Append(ids, id)) = Numbers(ids) \cup {number}
      <4> DEFINE more == Append(ids, id)
      <4>0. /\ DOMAIN more = DOMAIN ids \cup {Len(ids) + 1}
            /\ \A i \in DOMAIN ids : more[i] = ids[i]
            /\ more[Len(ids) + 1] = id
        BY <1>1, <1>3, AfterAppend
      <4> HIDE DEF more, id, ids
      <4> QED
        BY <4>0, <1>1
    <3>3. CASE now # lastTimestamp[t]
      <4>1. \A i \in DOMAIN ids : ids[i].timestamp # now
        <5> SUFFICES ASSUME NEW i \in DOMAIN ids PROVE ids[i].timestamp < now
          BY <1>0
        <5>1. ids[i] \in Ids /\ Before(ids[i], id)
          BY <1>3, <3>0
        <5>2. Behind(t, ids[i]) /\ lastTimestamp[t] < now
          BY <1>0, <3>0, <3>3 DEF FlakeInv, OrderInv
        <5> QED
          BY <1>0, <5>1, <5>2 DEF Behind, Ids
      <4>2. Numbers(ids) = {}
        BY <4>1
      <4>3. number = 0
        BY <3>0, <3>3
      <4>4. Used(t)' = {0}
        BY <3>1, <3>2, <4>2, <4>3
      <4>5. 0..0 = {0}
        OBVIOUS
      <4> QED
        BY <1>2, <2>2, <3>0, <4>3, <4>4, <4>5
    <3>4. CASE now = lastTimestamp[t]
      <4>1. pc[t] = "idle" /\ number = sequence[t] + 1
        BY <3>0, <3>4
      <4>2. Numbers(ids) = Used(t)
        BY <3>4 DEF Used
      <4>3. Used(t) = 0..sequence[t]
        BY <1>0, <3>0, <3>4, <4>1 DEF FlakeInv, UsedInv
      <4>4. 0..number = 0..sequence[t] \cup {number}
        BY <1>0, <4>1
      <4> QED
        BY <1>2, <2>2, <3>0, <3>1, <3>2, <4>2, <4>3, <4>4
    <3> QED
      BY <3>3, <3>4
  <2> QED
    BY <2>1, <2>2
<1> QED
  BY <1>4, <1>5, <1>7, <1>8 DEF FlakeInv

-----------------------------------------------------------------------------
LEMMA Starting == Init => FlakeInv
<1> SUFFICES ASSUME Init PROVE FlakeInv
  OBVIOUS
<1>0. /\ MaxTime \in Nat /\ Range \in Nat \ {0} /\ Sequences \in Nat \ {0}
      /\ MaxWaits \in Nat \ {0}
  BY SnowflakeAssumption
<1>1. TypeOK
  <2>1. (setBack \in BOOLEAN) /\ (failed \in [Threads -> BOOLEAN])
    BY Zenon DEF Init
  <2> QED
    BY <1>0, <2>1 DEF Init, TypeOK
<1>2. CustomInv
  BY SnowflakeAssumption DEF Init, CustomInv
<1>3. OrderInv /\ UsedInv
  BY <1>0 DEF Init, OrderInv, UsedInv, Increasing
<1> QED
  BY <1>1, <1>2, <1>3 DEF FlakeInv

LEMMA Continuing == FlakeInv /\ [Next]_vars => FlakeInv'
<1> SUFFICES ASSUME FlakeInv, [Next]_vars PROVE FlakeInv'
  OBVIOUS
<1> USE DEF machine, count
<1>0. /\ now \in 0..MaxTime /\ MaxTime \in Nat /\ Sequences \in Nat \ {0}
      /\ sequence \in [Threads -> 0..(Sequences - 1)]
      /\ lastTimestamp \in [Threads -> -1..MaxTime]
      /\ pc \in [Threads -> {"idle", "waiting"}]
      /\ waitCount \in [Threads -> 0..(MaxWaits - 1)] /\ MaxWaits \in Nat \ {0}
      /\ issued \in [Threads -> Seq(Ids)]
  BY SnowflakeAssumption DEF FlakeInv, TypeOK
<1>1. CASE Tick
  <2> USE <1>0, <1>1 DEF Tick
  <2>1. (setBack \in BOOLEAN)' /\ (failed \in [Threads -> BOOLEAN])'
    BY Zenon DEF FlakeInv, TypeOK
  <2>2. TypeOK' /\ CustomInv'
    BY <2>1 DEF FlakeInv, TypeOK, CustomInv
  <2>3. OrderInv'
    BY DEF FlakeInv, OrderInv, Sane, Behind
  <2>4. UsedInv'
    BY DEF FlakeInv, UsedInv, Sane, Used
  <2> QED
    BY <2>2, <2>3, <2>4 DEF FlakeInv
<1>2. CASE SetBack
  <2> USE <1>0, <1>2 DEF SetBack
  <2>1. (setBack \in BOOLEAN)' /\ (failed \in [Threads -> BOOLEAN])'
    BY Zenon DEF FlakeInv, TypeOK
  <2>2. TypeOK' /\ CustomInv'
    BY <2>1 DEF FlakeInv, TypeOK, CustomInv
  <2>3. OrderInv' /\ UsedInv'
    BY DEF OrderInv, UsedInv, Sane
  <2> QED
    BY <2>2, <2>3 DEF FlakeInv
<1>3. CASE initSnowflake
  <2> USE <1>0, <1>3 DEF initSnowflake
  <2>1. (setBack \in BOOLEAN)' /\ (failed \in [Threads -> BOOLEAN])'
    BY Zenon DEF FlakeInv, TypeOK
  <2>2. TypeOK'
    BY <2>1 DEF FlakeInv, TypeOK
  <2>3. CustomInv'
    BY SnowflakeAssumption DEF FlakeInv, CustomInv
  <2>4. OrderInv' /\ UsedInv'
    BY DEF FlakeInv, OrderInv, UsedInv, Sane, Behind, Used
  <2> QED
    BY <2>2, <2>3, <2>4 DEF FlakeInv
<1>4. ASSUME NEW t \in Threads, NewGenerator(t) PROVE FlakeInv'
  <2> USE <1>0, <1>4 DEF NewGenerator
  <2> DEFINE datacenter == Field(custom[1], hostHash)
             worker == Field(custom[2], threadHash[t])
  <2>0. /\ Range \in Nat \ {0} /\ custom[1] \in Int /\ custom[2] \in Int
        /\ hostHash \in (-Range + 1)..(Range - 1) /\ threadHash[t] \in 0..(Range - 1)
    BY SnowflakeAssumption DEF FlakeInv, CustomInv
  <2>1. \A n \in Int : n % Range \in 0..(Range - 1)
    BY <2>0
  <2>2. datacenter >= 0 => datacenter \in 0..(Range - 1)
    <3>1. CASE custom[1] >= 0
      BY <2>0, <2>1, <3>1 DEF Field
    <3>2. CASE ~(custom[1] >= 0)
      <4>1. datacenter = hostHash
        BY <3>2 DEF Field
      <4> QED
        BY <2>0, <4>1
    <3> QED
      BY <3>1, <3>2
  <2>3. worker \in 0..(Range - 1)
    BY <2>0, <2>1 DEF Field
  <2>4. generator' = [generator EXCEPT ![t] = <<datacenter, worker>>] /\ datacenter >= 0
    OBVIOUS
  <2> HIDE DEF datacenter, worker
  <2>5. generator' \in [Threads -> {<<>>} \cup (FieldRange \X FieldRange)]
    BY <2>2, <2>3, <2>4 DEF FlakeInv, TypeOK, FieldRange
  <2>6. (setBack \in BOOLEAN)' /\ (failed \in [Threads -> BOOLEAN])'
    BY Zenon DEF FlakeInv, TypeOK
  <2>7. TypeOK' /\ CustomInv'
    BY <2>5, <2>6 DEF FlakeInv, TypeOK, CustomInv
  <2>8. OrderInv' /\ UsedInv'
    BY DEF FlakeInv, OrderInv, UsedInv, Sane, Behind, Used
  <2> QED
    BY <2>7, <2>8 DEF FlakeInv
<1>5. ASSUME NEW t \in Threads, NextInNewMillisecond(t) PROVE FlakeInv'
  <2> USE <1>0, <1>5 DEF NextInNewMillisecond, NewMillisecond, CanCall
  <2>1. Sane(t) => \A i \in DOMAIN issued[t] : Before(issued[t][i], Id(t, now, 0))
    <3> SUFFICES ASSUME Sane(t), NEW i \in DOMAIN issued[t]
                 PROVE  issued[t][i].timestamp < now
      BY DEF Before, Id
    <3>1. issued[t][i] \in Ids /\ Behind(t, issued[t][i]) /\ lastTimestamp[t] < now
      BY DEF FlakeInv, OrderInv
    <3> QED
      BY <3>1 DEF Behind, Ids
  <2>2. now # lastTimestamp[t] /\ generator[t] # <<>> /\ 0 \in 0..(Sequences - 1)
    OBVIOUS
  <2>3. Issue(t, 0) /\ UNCHANGED <<now, setBack, machine, generator, waitCount, failed>>
    OBVIOUS
  <2> QED
    BY ONLY <1>0, <2>1, <2>2, <2>3, FlakeInv, Issuing
<1>6. ASSUME NEW t \in Threads, NextInMillisecond(t) PROVE FlakeInv'
  <2> USE <1>0, <1>6 DEF NextInMillisecond, NewMillisecond, CanCall
  <2>0. Following(t) = sequence[t] + 1 /\ Following(t) \in 0..(Sequences - 1)
    BY FollowingIs
  <2>1. Sane(t) => \A i \in DOMAIN issued[t] : Before(issued[t][i], Id(t, now, Following(t)))
    <3> SUFFICES ASSUME Sane(t), NEW i \in DOMAIN issued[t]
                 PROVE  Before(issued[t][i], Id(t, now, Following(t)))
      OBVIOUS
    <3>1. issued[t][i] \in Ids /\ Behind(t, issued[t][i])
      BY DEF FlakeInv, OrderInv
    <3> QED
      BY <2>0, <3>1 DEF Behind, Before, Id, Ids
  <2>2. now = lastTimestamp[t] /\ pc[t] = "idle" /\ generator[t] # <<>>
    OBVIOUS
  <2>3. Issue(t, Following(t)) /\ UNCHANGED <<now, setBack, generator, waitCount, failed>>
    OBVIOUS
  <2> QED
    BY <2>0, <2>1, <2>2, <2>3, Issuing
<1>7. ASSUME NEW t \in Threads, Overflow(t) PROVE FlakeInv'
  <2> USE <1>0, <1>7 DEF Overflow, NewMillisecond, CanCall
  <2>0. sequence[t] + 1 = Sequences
    BY FollowingIs
  <2>1. (setBack \in BOOLEAN)' /\ (failed \in [Threads -> BOOLEAN])'
    BY Zenon DEF FlakeInv, TypeOK
  <2>2. TypeOK' /\ CustomInv'
    BY <2>1 DEF FlakeInv, TypeOK, CustomInv
  <2>3. OrderInv'
    BY DEF FlakeInv, OrderInv, Sane, Behind
  <2>4. UsedInv'
    <3>1. \A u \in Threads : Used(u)' = Used(u)
      BY DEF Used
    <3>2. Sane(t) => Used(t) = 0..(Sequences - 1)
      BY <2>0 DEF FlakeInv, UsedInv
    <3> QED
      BY <3>1, <3>2 DEF FlakeInv, UsedInv, Sane
  <2> QED
    BY <2>2, <2>3, <2>4 DEF FlakeInv
<1>8. ASSUME NEW t \in Threads, WaitOver(t) PROVE FlakeInv'
  <2> USE <1>0, <1>8 DEF WaitOver
  <2>1. Sane(t) => \A i \in DOMAIN issued[t] : Before(issued[t][i], Id(t, now, 0))
    <3> SUFFICES ASSUME Sane(t), NEW i \in DOMAIN issued[t]
                 PROVE  issued[t][i].timestamp < now
      BY DEF Before, Id
    <3>1. issued[t][i] \in Ids /\ Behind(t, issued[t][i])
      BY DEF FlakeInv, OrderInv
    <3> QED
      BY <3>1 DEF Behind, Ids
  <2>2. generator[t] # <<>>
    BY DEF FlakeInv, CustomInv
  <2> QED
    BY <2>1, <2>2, Issuing
<1>9. ASSUME NEW t \in Threads, WaitOn(t) PROVE FlakeInv'
  <2> USE <1>0, <1>9 DEF WaitOn, Read
  <2>1. (setBack \in BOOLEAN)' /\ (failed \in [Threads -> BOOLEAN])'
    BY Zenon DEF FlakeInv, TypeOK
  <2>2. TypeOK' /\ CustomInv'
    BY <2>1 DEF FlakeInv, TypeOK, CustomInv
  <2>3. OrderInv' /\ UsedInv'
    BY DEF FlakeInv, OrderInv, UsedInv, Sane, Behind, Used
  <2> QED
    BY <2>2, <2>3 DEF FlakeInv
<1>10. ASSUME NEW t \in Threads, WaitFails(t) PROVE FlakeInv'
  <2> USE <1>0, <1>10 DEF WaitFails
  <2>0. /\ (setBack \in BOOLEAN) /\ (failed \in [Threads -> BOOLEAN])
        /\ UNCHANGED setBack /\ failed' = [failed EXCEPT ![t] = TRUE]
    BY Zenon DEF FlakeInv, TypeOK
  <2>1. /\ (setBack \in BOOLEAN)' /\ (failed \in [Threads -> BOOLEAN])'
        /\ failed'[t] = TRUE /\ \A u \in Threads \ {t} : failed'[u] = failed[u]
    BY <2>0, Zenon
  <2>2. TypeOK' /\ CustomInv'
    BY <2>1 DEF FlakeInv, TypeOK, CustomInv
  <2>3. OrderInv' /\ UsedInv'
    <3>1. \A u \in Threads : Sane(u)' => Sane(u) /\ u # t
      BY <2>0, <2>1, Zenon DEF Sane
    <3>2. \A u \in Threads \ {t} : pc'[u] = pc[u] /\ Used(u)' = Used(u)
      BY DEF Used
    <3>3. OrderInv'
      BY <3>1, <3>2 DEF FlakeInv, OrderInv, Behind
    <3>4. UsedInv'
      BY <3>1, <3>2 DEF FlakeInv, UsedInv
    <3> QED
      BY <3>3, <3>4
  <2> QED
    BY <2>2, <2>3 DEF FlakeInv
<1>11. CASE UNCHANGED vars
  BY <1>11 DEF vars, FlakeInv, TypeOK, CustomInv, OrderInv, UsedInv, Sane, Behind, Used
<1> QED
  BY <1>1, <1>2, <1>3, <1>4, <1>5, <1>6, <1>7, <1>8, <1>9, <1>10, <1>11
     DEF Next, nextId, Wait

LEMMA AlwaysFlakeInv == Spec => []FlakeInv
<1> QED
  BY Starting, Continuing, PTL DEF Spec

-----------------------------------------------------------------------------

(* Every field of every id fits into its bits, whatever was given to       *)
(* initSnowflake() and whatever the clock does.                            *)
THEOREM FieldsFit == Spec => []TypeOK
<1>1. FlakeInv => TypeOK
  BY DEF FlakeInv
<1> QED
  BY <1>1, AlwaysFlakeInv, PTL

(* The ids of a thread increase until the clock is set back or a wait for  *)
(* the next millisecond fails.                                             *)
THEOREM Monotonic == Spec => []IdsIncrease
<1>1. FlakeInv => IdsIncrease
  BY DEF FlakeInv, OrderInv, IdsIncrease, Sane
<1> QED
  BY <1>1, AlwaysFlakeInv, PTL

(* nextId() fails for the first time only when every number of the         *)
(* millisecond has been used.                                              *)
THEOREM FailsExhausted == Spec => GivesUpExhausted
<1> DEFINE Exhausted(t) == failed'[t] /\ ~failed[t] /\ ~setBack => Used(t) = 0..(Sequences - 1)
<1>1. ASSUME FlakeInv, [Next]_vars, NEW t \in Threads PROVE Exhausted(t)
  <2> SUFFICES ASSUME failed'[t], ~failed[t], ~setBack PROVE Used(t) = 0..(Sequences - 1)
    OBVIOUS
  <2>1. failed \in [Threads -> BOOLEAN]
    BY <1>1, Zenon DEF FlakeInv, TypeOK
  <2>2. PICK u \in Threads : WaitFails(u)
    BY <1>1 DEF Next, vars, nextId, Wait, Tick, SetBack, initSnowflake, NewGenerator,
                NextInNewMillisecond, NextInMillisecond, Overflow, WaitOver, WaitOn
  <2>3. u = t
    <3>1. SUFFICES ASSUME u # t PROVE FALSE
      OBVIOUS
    <3>2. failed' = [failed EXCEPT ![u] = TRUE]
      BY <2>2, Zenon DEF WaitFails
    <3> QED
      BY <2>1, <3>1, <3>2, Zenon
  <2>4. pc[t] = "waiting" /\ Sane(t)
    BY <2>2, <2>3 DEF WaitFails, Sane
  <2> QED
    BY <1>1, <2>4 DEF FlakeInv, UsedInv
<1>2. FlakeInv /\ [Next]_vars => [\A t \in Threads : Exhausted(t)]_vars
  BY <1>1
<1>3. Spec => [][\A t \in Threads : Exhausted(t)]_vars
  BY <1>2, AlwaysFlakeInv, PTL DEF Spec
<1> QED
  BY <1>3 DEF GivesUpExhausted

=============================================================================
