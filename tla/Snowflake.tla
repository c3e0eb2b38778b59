----------------------------- MODULE Snowflake -----------------------------
(***************************************************************************)
(* IdUtil's Snowflake ids: every thread makes a generator of its own at    *)
(* its first call, from the ids given by initSnowflake() or else from the  *)
(* host and the thread, and counts the ids of a millisecond.  When it has  *)
(* used them up it reads the clock a few more times, in steps of its own.  *)
(*                                                                         *)
(* An id is the tuple of the fields that the code packs into 64 bits.  The *)
(* clock is the system's: it may stand still, go on and be set back.       *)
(***************************************************************************)
EXTENDS Integers, Sequences

CONSTANTS Threads,
          Range,         \* 32: data centers, and machines, an id has room for
          Sequences,     \* MAX_SEQUENCE + 1: the ids of a millisecond
          MaxWaits,      \* MAX_WAIT_COUNT
          Given,         \* the arguments of initSnowflake()
          HostHashes,    \* the values of getHostMacHash() % 32, of either sign
          MaxTime,       \* bound: the last millisecond explored
          MaxIds         \* bound: the ids of a thread

ASSUME SnowflakeAssumption ==
    /\ {Range, Sequences, MaxWaits} \subseteq Nat \ {0}
    /\ Given \subseteq Int
    /\ HostHashes \subseteq (-Range + 1)..(Range - 1)
    /\ MaxTime \in Nat

VARIABLES
    now,                  \* currentTimeMillis()
    setBack,              \* history: the clock was set back
    hostHash, threadHash, \* what the ids are made from by default
    custom,               \* s_customDatacenterId and s_customWorkerId
    generator,            \* the ids of each thread's generator, or <<>>
    sequence, lastTimestamp,
    pc, waitCount,        \* of nextId()
    issued,               \* history: the ids returned to each thread, in order
    failed                \* history: nextId() has returned 0 to the thread

machine == <<hostHash, threadHash, custom>>
count == <<sequence, lastTimestamp>>
vars == <<now, setBack, machine, generator, count, pc, waitCount, issued, failed>>

Init ==
    /\ now = 0
    /\ setBack = FALSE
    /\ hostHash \in HostHashes
    /\ threadHash \in [Threads -> 0..(Range - 1)]
    /\ custom = <<-1, -1>>
    /\ generator = [t \in Threads |-> <<>>]
    /\ sequence = [t \in Threads |-> 0]
    /\ lastTimestamp = [t \in Threads |-> -1]
    /\ pc = [t \in Threads |-> "idle"]
    /\ waitCount = [t \in Threads |-> 0]
    /\ issued = [t \in Threads |-> <<>>]
    /\ failed = [t \in Threads |-> FALSE]

-----------------------------------------------------------------------------
(* The clock.                                                              *)

Tick ==
    /\ now < MaxTime
    /\ now' = now + 1
    /\ UNCHANGED <<setBack, machine, generator, count, pc, waitCount, issued, failed>>

SetBack ==
    /\ now > 0
    /\ now' = now - 1
    /\ setBack' = TRUE
    /\ UNCHANGED <<machine, generator, count, pc, waitCount, issued, failed>>

-----------------------------------------------------------------------------
(* The generators.                                                         *)

initSnowflake ==
    /\ \E datacenter, worker \in Given : custom' = <<datacenter, worker>>
    /\ UNCHANGED <<now, setBack, hostHash, threadHash, generator, count, pc, waitCount,
                   issued, failed>>

(* Mutant: an id that was given is not brought into range.                 *)
Field_AsGiven(given, hash) == IF given >= 0 THEN given ELSE hash

Field(given, hash) == IF given >= 0 THEN given % Range ELSE hash

(* The generator's constructor throws if an id is negative, and the call   *)
(* of generateSnowflakeId() with it.                                       *)
NewGenerator(t) ==
    /\ generator[t] = <<>>
    /\ LET ids == <<Field(custom[1], hostHash), Field(custom[2], threadHash[t])>>
       IN /\ ids[1] >= 0
          /\ generator' = [generator EXCEPT ![t] = ids]
    /\ UNCHANGED <<now, setBack, machine, count, pc, waitCount, issued, failed>>

-----------------------------------------------------------------------------
(* nextId()                                                                *)

Id(t, timestamp, number) ==
    [timestamp |-> timestamp, ids |-> generator[t], sequence |-> number]

Issue(t, number) ==
    /\ sequence' = [sequence EXCEPT ![t] = number]
    /\ lastTimestamp' = [lastTimestamp EXCEPT ![t] = now]
    /\ issued' = [issued EXCEPT ![t] = Append(@, Id(t, now, number))]
    /\ pc' = [pc EXCEPT ![t] = "idle"]

(* Mutant: one id of a millisecond too few.                                *)
Following_Early(t) == (sequence[t] + 1) % (Sequences - 1)

(* Mutant: the sequence does not wrap.                                     *)
Following_Endless(t) == sequence[t] + 1

Following(t) == (sequence[t] + 1) % Sequences

CanCall(t) == pc[t] = "idle" /\ generator[t] # <<>> /\ Len(issued[t]) < MaxIds

(* Mutant: the sequence starts again whatever the millisecond.             *)
NewMillisecond_Always(t) == TRUE

NewMillisecond(t) == now # lastTimestamp[t]

NextInNewMillisecond(t) ==
    /\ CanCall(t)
    /\ NewMillisecond(t)
    /\ Issue(t, 0)
    /\ UNCHANGED <<now, setBack, machine, generator, waitCount, failed>>

NextInMillisecond(t) ==
    /\ CanCall(t)
    /\ ~NewMillisecond(t)
    /\ Following(t) # 0
    /\ Issue(t, Following(t))
    /\ UNCHANGED <<now, setBack, machine, generator, waitCount, failed>>

(* All numbers are used: the sequence is 0 from now on.                    *)
Overflow(t) ==
    /\ CanCall(t)
    /\ ~NewMillisecond(t)
    /\ Following(t) = 0
    /\ sequence' = [sequence EXCEPT ![t] = 0]
    /\ waitCount' = [waitCount EXCEPT ![t] = 0]
    /\ pc' = [pc EXCEPT ![t] = "waiting"]
    /\ UNCHANGED <<now, setBack, machine, generator, lastTimestamp, issued, failed>>

(* Mutant: the reads of the clock are not counted.                         *)
Read_NotCounted(t) == waitCount[t]

Read(t) == waitCount[t] + 1

WaitOver(t) ==
    /\ pc[t] = "waiting"
    /\ now > lastTimestamp[t]
    /\ Issue(t, 0)
    /\ UNCHANGED <<now, setBack, machine, generator, waitCount, failed>>

WaitOn(t) ==
    /\ pc[t] = "waiting"
    /\ now = lastTimestamp[t]
    /\ Read(t) < MaxWaits
    /\ waitCount' = [waitCount EXCEPT ![t] = Read(t)]
    /\ UNCHANGED <<now, setBack, machine, generator, count, pc, issued, failed>>

(* The clock has gone back, or not on: nextId() returns 0.                 *)
WaitFails(t) ==
    /\ pc[t] = "waiting"
    /\ now < lastTimestamp[t] \/ (now = lastTimestamp[t] /\ Read(t) >= MaxWaits)
    /\ failed' = [failed EXCEPT ![t] = TRUE]
    /\ pc' = [pc EXCEPT ![t] = "idle"]
    /\ UNCHANGED <<now, setBack, machine, generator, count, waitCount, issued>>

Wait(t) == WaitOver(t) \/ WaitOn(t) \/ WaitFails(t)

nextId(t) == NextInNewMillisecond(t) \/ NextInMillisecond(t) \/ Overflow(t) \/ Wait(t)

-----------------------------------------------------------------------------
Next ==
    \/ Tick \/ SetBack \/ initSnowflake
    \/ \E t \in Threads : NewGenerator(t) \/ nextId(t)

Spec == Init /\ [][Next]_vars

(* A thread that waits goes on; the clock may stand still for ever.        *)
FairSpec == Spec /\ \A t \in Threads : WF_vars(Wait(t))

-----------------------------------------------------------------------------
(* Properties                                                              *)

FieldRange == 0..(Range - 1)
Ids == [timestamp : 0..MaxTime, ids : FieldRange \X FieldRange, sequence : 0..(Sequences - 1)]

(* Every field of an id fits into the bits it has.                         *)
TypeOK ==
    /\ now \in 0..MaxTime
    /\ setBack \in BOOLEAN
    /\ generator \in [Threads -> {<<>>} \cup (FieldRange \X FieldRange)]
    /\ sequence \in [Threads -> 0..(Sequences - 1)]
    /\ lastTimestamp \in [Threads -> -1..MaxTime]
    /\ pc \in [Threads -> {"idle", "waiting"}]
    /\ waitCount \in [Threads -> 0..(MaxWaits - 1)]
    /\ issued \in [Threads -> Seq(Ids)]
    /\ failed \in [Threads -> BOOLEAN]

Before(x, y) ==
    \/ x.timestamp < y.timestamp
    \/ x.timestamp = y.timestamp /\ x.sequence < y.sequence

Increasing(ids) == \A i, j \in DOMAIN ids : i < j => Before(ids[i], ids[j])

(* The ids a thread gets increase, and hence are unique, until the clock   *)
(* is set back or a wait for the next millisecond has failed.              *)
IdsIncrease == \A t \in Threads : ~setBack /\ ~failed[t] => Increasing(issued[t])

(* A thread's ids increase as long as the clock does not go back           *)
(* ("序列号溢出，等待下一毫秒").                                           *)
IdsIncreaseWithClock == ~setBack => \A t \in Threads : Increasing(issued[t])

(* nextId() gives up only when it has issued every id of the millisecond,  *)
(* for as long as the clock goes forward and it has not given up before.   *)
Used(t) == {issued[t][i].sequence :
               i \in {j \in DOMAIN issued[t] : issued[t][j].timestamp = lastTimestamp[t]}}
GivesUpExhausted ==
    [][\A t \in Threads : failed'[t] /\ ~failed[t] /\ ~setBack =>
           Used(t) = 0..(Sequences - 1)]_vars

(* nextId() returns even if the clock stands still ("防止时钟回拨时死循环"). *)
WaitEnds == \A t \in Threads : (pc[t] = "waiting") ~> (pc[t] = "idle")

=============================================================================
