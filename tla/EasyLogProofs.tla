---------------------------- MODULE EasyLogProofs ----------------------------
(***************************************************************************)
(* Theorems about EasyLog, for any number of threads, calls and days: what *)
(* the log file promises its readers, what becomes of the object, and when *)
(* the stamp of a record is its own.                                       *)
(***************************************************************************)
EXTENDS EasyLog, SequenceTheorems, TLAPS

Places ==
  {"idle", "new", "reset", "assign", "get", "time", "localtime", "strftime", "open", "put"}

(***************************************************************************)
(* The object, where nothing but the threads of main() logs.               *)
(***************************************************************************)

\* No two threads find no object at the same time.
MakesAlone == \A s, t \in Threads : Making(s) /\ Making(t) => s = t

ObjectTypes ==
  /\ pc \in [Threads -> Places]
  /\ ptr \in [Threads -> Nat]
  /\ instance \in Nat /\ made \in Nat
  /\ phase \in {"statics", "main", "exit"}

\* Only main() and its threads run.
WhoRuns ==
  /\ phase # "main" => Idle
  /\ phase = "statics" => instance = 0 /\ made = 0

\* One thread makes the object, and only while there is none.
OneMaker == MakesAlone /\ \A t \in Threads : Making(t) => instance = 0

\* What was made is the object, or will be.
Constructed(t) == pc[t] \in {"reset", "assign"}
MadeForUse ==
  /\ instance # 0 => instance = 1 /\ made = 1
  /\ \A t \in Threads : Constructed(t) => ptr[t] = 1 /\ made = 1
  /\ instance = 0 /\ (\A t \in Threads : ~Constructed(t)) => made = 0

\* It is there from the end of Inst() on, until the process exits.
Used ==
  /\ \A t \in Threads : pc[t] = "get" => instance # 0
  /\ \A t \in Threads : InLog(t) => instance # 0 /\ ptr[t] = instance
  /\ phase # "exit" => deleted = {}
  /\ phase = "exit" => made <= 1 /\ deleted = 1 .. made

ObjectInv == ObjectTypes /\ WhoRuns /\ OneMaker /\ MadeForUse /\ Used

LEMMA ObjectInvInit == Init => ObjectInv
BY DEF Init, ObjectInv, ObjectTypes, WhoRuns, OneMaker, MakesAlone, MadeForUse, Used, Making,
   Constructed, InLog, Idle, Places

LEMMA StaticsDoneKeepsObject == ObjectInv /\ StaticsDone => ObjectInv'
BY DEF StaticsDone, ObjectInv, ObjectTypes, WhoRuns, OneMaker, MakesAlone, MadeForUse, Used,
   Making, Constructed, InLog, Idle

LEMMA ExitKeepsObject == ObjectInv /\ Exit => ObjectInv'
BY DEF Exit, ObjectInv, ObjectTypes, WhoRuns, OneMaker, MakesAlone, MadeForUse, Used, Making,
   Constructed, InLog, Idle

LEMMA CallKeepsObject ==
  ASSUME StaticsLog = FALSE, NEW t \in Threads, ObjectInv, Call(t), MakesAlone'
  PROVE  ObjectInv'
<1>1. ObjectTypes'
  BY DEF Call, inst, Goto, ObjectInv, ObjectTypes, Places
<1>2. /\ WhoRuns /\ OneMaker /\ MadeForUse /\ Used /\ ObjectTypes
      /\ pc[t] = "idle" /\ phase = "main"
      /\ pc' = [pc EXCEPT ![t] = IF instance = 0 THEN "new" ELSE "get"]
      /\ UNCHANGED <<phase, instance, made, deleted, ptr>>
  BY DEF ObjectInv, Call, inst, Goto, MayLog
<1>3. WhoRuns'
  BY <1>2 DEF WhoRuns
<1>4. OneMaker'
  BY <1>2 DEF OneMaker, ObjectTypes, Making
<1>5. MadeForUse'
  BY <1>2 DEF MadeForUse, ObjectTypes, Constructed
<1>6. Used'
  BY <1>2 DEF Used, ObjectTypes, InLog
<1> QED BY <1>1, <1>3, <1>4, <1>5, <1>6 DEF ObjectInv

LEMMA MakeKeepsObject ==
  ASSUME NEW t \in Threads, ObjectInv, Construct(t) \/ Reset(t) \/ Assign(t) \/ Get(t)
  PROVE  ObjectInv'
<1>1. ObjectTypes'
  BY DEF Construct, Reset, Assign, Get, inst, Goto, ObjectInv, ObjectTypes, Places
<1>2. WhoRuns /\ OneMaker /\ MadeForUse /\ Used /\ ObjectTypes
  BY DEF ObjectInv
<1>3. phase = "main" /\ deleted = {} /\ UNCHANGED phase
  BY <1>2 DEF WhoRuns, Used, Idle, ObjectTypes, Construct, Reset, Assign, Get
<1>4. WhoRuns'
  BY <1>3 DEF WhoRuns
<1>5. CASE Construct(t)
  <2>1. /\ pc[t] = "new" /\ instance = 0 /\ made' = made + 1 /\ made = 0
        /\ pc' = [pc EXCEPT ![t] = "reset"] /\ ptr' = [ptr EXCEPT ![t] = made + 1]
        /\ UNCHANGED <<instance, deleted>>
    BY <1>2, <1>5 DEF Construct, Goto, OneMaker, MakesAlone, MadeForUse, Making, Constructed
  <2>2. OneMaker'
    BY <1>2, <2>1 DEF OneMaker, MakesAlone, ObjectTypes, Making
  <2>3. MadeForUse'
    BY <1>2, <2>1 DEF MadeForUse, OneMaker, MakesAlone, ObjectTypes, Making, Constructed
  <2>4. Used'
    BY <1>2, <1>3, <2>1 DEF Used, ObjectTypes, InLog
  <2> QED BY <1>1, <1>4, <2>2, <2>3, <2>4 DEF ObjectInv
<1>6. CASE Reset(t)
  <2>1. /\ pc[t] = "reset" /\ instance = 0 /\ deleted' = deleted
        /\ pc' = [pc EXCEPT ![t] = "assign"]
        /\ UNCHANGED <<instance, made, ptr>>
    BY <1>2, <1>6 DEF Reset, Goto, OneMaker, Making
  <2>2. OneMaker'
    BY <1>2, <2>1 DEF OneMaker, MakesAlone, ObjectTypes, Making
  <2>3. MadeForUse'
    BY <1>2, <2>1 DEF MadeForUse, ObjectTypes, Constructed
  <2>4. Used'
    BY <1>2, <1>3, <2>1 DEF Used, ObjectTypes, InLog
  <2> QED BY <1>1, <1>4, <2>2, <2>3, <2>4 DEF ObjectInv
<1>7. CASE Assign(t)
  <2>1. /\ pc[t] = "assign" /\ instance = 0 /\ instance' = 1 /\ made = 1
        /\ pc' = [pc EXCEPT ![t] = "get"]
        /\ UNCHANGED <<made, deleted, ptr>>
    BY <1>2, <1>7 DEF Assign, Goto, OneMaker, MadeForUse, Making, Constructed
  <2>2. OneMaker'
    BY <1>2, <2>1 DEF OneMaker, MakesAlone, ObjectTypes, Making
  <2>3. MadeForUse'
    BY <1>2, <2>1 DEF MadeForUse, ObjectTypes, Constructed
  <2>4. Used'
    BY <1>2, <1>3, <2>1 DEF Used, ObjectTypes, InLog
  <2> QED BY <1>1, <1>4, <2>2, <2>3, <2>4 DEF ObjectInv
<1>8. CASE Get(t)
  <2>1. /\ pc[t] = "get" /\ instance # 0
        /\ pc' = [pc EXCEPT ![t] = "time"] /\ ptr' = [ptr EXCEPT ![t] = instance]
        /\ UNCHANGED <<instance, made, deleted>>
    BY <1>2, <1>8 DEF Get, Goto, inst, Used
  <2>2. OneMaker'
    BY <1>2, <2>1 DEF OneMaker, MakesAlone, ObjectTypes, Making
  <2>3. MadeForUse'
    BY <1>2, <2>1 DEF MadeForUse, ObjectTypes, Constructed
  <2>4. Used'
    BY <1>2, <1>3, <2>1 DEF Used, ObjectTypes, InLog
  <2> QED BY <1>1, <1>4, <2>2, <2>3, <2>4 DEF ObjectInv
<1> QED BY <1>5, <1>6, <1>7, <1>8

\* The rest of a call leaves the object alone.
LEMMA LogKeepsObject ==
  ASSUME NEW t \in Threads, ObjectInv, InLog(t),
         UNCHANGED <<phase, inst, ptr>>,
         NEW place \in {"time", "localtime", "strftime", "open", "put", "idle"},
         pc' = [pc EXCEPT ![t] = place] \/ UNCHANGED pc
  PROVE  ObjectInv'
<1>1. ObjectTypes'
  BY DEF ObjectInv, ObjectTypes, inst, Places
<1>2. /\ WhoRuns /\ OneMaker /\ MadeForUse /\ Used /\ ObjectTypes
      /\ UNCHANGED <<phase, instance, made, deleted, ptr>>
  BY DEF ObjectInv, inst
<1>3. \A s \in Threads :
        /\ pc'[s] \in {"new", "reset", "assign", "get"} <=>
             pc[s] \in {"new", "reset", "assign", "get"}
        /\ pc'[s] \in {"new", "reset", "assign", "get"} => pc'[s] = pc[s]
        /\ pc'[s] # "idle" => pc[s] # "idle"
        /\ InLog(s)' => InLog(s)
  BY <1>2 DEF ObjectTypes, InLog
<1>4. WhoRuns'
  BY <1>2, <1>3 DEF WhoRuns, ObjectTypes, Idle
<1>5. OneMaker'
  BY <1>2, <1>3 DEF OneMaker, MakesAlone, Making
<1>6. MadeForUse'
  BY <1>2, <1>3 DEF MadeForUse, Constructed
<1>7. Used'
  BY <1>2, <1>3 DEF Used
<1> QED BY <1>1, <1>4, <1>5, <1>6, <1>7 DEF ObjectInv

(* What becomes of the object of EasyLog, if no two threads find none and  *)
(* no statics log.                                                         *)
LEMMA ObjectInvStep ==
  ASSUME StaticsLog = FALSE
  PROVE  ObjectInv /\ [Next]_vars /\ MakesAlone' => ObjectInv'
<1> SUFFICES ASSUME ObjectInv, [Next]_vars, MakesAlone' PROVE ObjectInv'
  OBVIOUS
<1>1. CASE UNCHANGED vars \/ Tick
  BY <1>1 DEF Tick, vars, inst, ObjectInv, ObjectTypes, WhoRuns, OneMaker, MakesAlone,
     MadeForUse, Used, Making, Constructed, InLog, Idle
<1>2. ASSUME NEW t \in Threads,
             \/ TakeTime(t) \/ Localtime(t) \/ Strftime(t) \/ Open(t) \/ Put(t) \/ Close(t)
      PROVE  ObjectInv'
  <2>1. InLog(t) /\ UNCHANGED <<phase, inst, ptr>>
    BY <1>2 DEF TakeTime, Localtime, Strftime, Open, Put, Close, InLog
  <2>2. \/ UNCHANGED pc
        \/ \E place \in {"time", "localtime", "strftime", "open", "put", "idle"} :
             pc' = [pc EXCEPT ![t] = place]
    BY <1>2 DEF TakeTime, Localtime, Strftime, Open, Put, Close, Goto
  <2> QED BY <2>1, <2>2, LogKeepsObject
<1> QED
  BY <1>1, <1>2, StaticsDoneKeepsObject, ExitKeepsObject, CallKeepsObject, MakeKeepsObject
  DEF Next, ThreadStep

LEMMA ObjectInvMeans == ObjectInv => CollectedSingleton /\ LivesWhileUsed
<1> SUFFICES ASSUME ObjectInv PROVE CollectedSingleton /\ LivesWhileUsed
  OBVIOUS
<1>1. ObjectTypes /\ WhoRuns /\ OneMaker /\ MadeForUse /\ Used
  BY DEF ObjectInv
<1>2. made \in {0, 1}
  BY <1>1 DEF MadeForUse
<1>3. CollectedSingleton
  BY <1>1, <1>2 DEF Used, CollectedSingleton
<1>4. LivesWhileUsed
  BY <1>1 DEF ObjectTypes, WhoRuns, Used, Idle, InLog, LivesWhileUsed
<1> QED BY <1>3, <1>4

(* "A simple singleton, collected automatically" (Log.h:3) is what EasyLog *)
(* is in every program whose statics do not log and no two threads of      *)
(* which find no object at the same time, however many there are.          *)
THEOREM SingletonIfMadeAlone ==
  ASSUME StaticsLog = FALSE
  PROVE  Spec /\ []MakesAlone => [](CollectedSingleton /\ LivesWhileUsed)
<1>1. ObjectInv /\ [Next]_vars /\ MakesAlone' => ObjectInv'
  BY ObjectInvStep
<1> QED
  BY <1>1, ObjectInvInit, ObjectInvMeans, PTL DEF Spec

\* Where the threads are and what they point to.
ThreadTypes ==
  /\ pc \in [Threads -> Places]
  /\ ptr \in [Threads -> Nat]
  /\ instance \in Nat /\ made \in Nat

LEMMA ThreadTypesHold == Spec => []ThreadTypes
<1>1. Init => ThreadTypes
  BY DEF Init, ThreadTypes, Places
<1>2. ThreadTypes /\ [Next]_vars => ThreadTypes'
  <2> SUFFICES ASSUME ThreadTypes, [Next]_vars PROVE ThreadTypes'
    OBVIOUS
  <2>1. CASE UNCHANGED vars \/ StaticsDone \/ Exit \/ Tick
    BY <2>1 DEF vars, inst, StaticsDone, Exit, Tick, ThreadTypes
  <2>2. ASSUME NEW t \in Threads, ThreadStep(t) PROVE ThreadTypes'
    BY <2>2 DEF ThreadStep, Call, Construct, Reset, Assign, Get, TakeTime, Localtime, Strftime,
       Open, Put, Close, Goto, inst, ThreadTypes, Places
  <2> QED
    BY <2>1, <2>2 DEF Next
<1> QED
  BY <1>1, <1>2, PTL DEF Spec

(* It is enough to have called Inst() once in main() before other threads  *)
(* do, and whatever happened until then: from then on all use the one      *)
(* object there is, and it is deleted when nobody does.                    *)
THEOREM SettledForGood == Spec => StaysSettled
<1>1. ThreadTypes /\ [Next]_vars => [Settled => StaysAsItIs \/ DeletedUnused]_vars
  <2> SUFFICES ASSUME ThreadTypes, Settled, Next PROVE StaysAsItIs \/ DeletedUnused
    OBVIOUS
  <2>1. phase = "main" /\ instance # 0 /\ \A t \in Threads : ~Making(t)
    BY DEF Settled
  <2>2. CASE Exit
    BY <2>1, <2>2 DEF Exit, Idle, DeletedUnused
  <2>3. CASE Tick
    BY <2>3 DEF Tick, inst, Settled, StaysAsItIs, Making, InLog
  <2>4. ASSUME NEW t \in Threads, ThreadStep(t) PROVE StaysAsItIs
    <3>1. UNCHANGED <<phase, instance, made, deleted>>
      BY <2>1, <2>4 DEF Making, ThreadStep, Call, Construct, Reset, Assign, Get, TakeTime,
         Localtime, Strftime, Open, Put, Close, inst
    <3>2. ASSUME NEW s \in Threads
          PROVE  ~Making(s)' /\ (InLog(s)' => ptr'[s] = instance)
      <4>1. ~Making(s) /\ (InLog(s) => ptr[s] = instance)
        BY DEF Settled
      <4>2. CASE Call(t) \/ Get(t)
        BY <2>1, <4>1, <4>2 DEF Call, Get, Goto, Making, InLog, ThreadTypes
      <4>3. CASE TakeTime(t) \/ Localtime(t) \/ Strftime(t) \/ Open(t) \/ Put(t) \/ Close(t)
        BY <4>1, <4>3 DEF TakeTime, Localtime, Strftime, Open, Put, Close, Goto, Making, InLog,
           ThreadTypes
      <4> QED
        BY <2>1, <2>4, <4>2, <4>3 DEF ThreadStep, Construct, Reset, Assign, Making
    <3> QED BY <3>1, <3>2 DEF Settled, StaysAsItIs
  <2> QED
    BY <2>1, <2>2, <2>3, <2>4 DEF Next, StaticsDone
<1> QED
  BY <1>1, ThreadTypesHold, PTL DEF Spec, StaysSettled

----------------------------------------------------------------------------
(***************************************************************************)
(* The stamp of a record.                                                  *)
(***************************************************************************)
StampTypes ==
  /\ pc \in [Threads -> Places]
  /\ clock \in Nat
  /\ time \in [Threads -> Nat]
  /\ tm \in [Fields -> Nat]
  /\ strTime \in [Threads -> [Fields -> Nat]]
  /\ mixed \in [Threads -> BOOLEAN]

\* While a thread formats, the struct holds its time, and the fields that it
\* has formatted are those of its time.
Formatting ==
  \A t \in Threads : pc[t] = "strftime" /\ ~mixed[t] =>
    /\ tm = Broken(time[t])
    /\ \A f \in Fields : strTime[t][f] \in {Unread[f], tm[f]}

StampInv == StampTypes /\ Formatting /\ StampIsOwn

\* A time has a day and an hour.
LEMMA BrokenType ==
  ASSUME NEW seconds \in Nat
  PROVE  Broken(seconds) \in [Fields -> Nat]
<1>1. seconds \div Day \in Nat /\ seconds % Day \in Nat
  BY EasyLogAssumption
<1> QED
  BY <1>1 DEF Broken, Fields

LEMMA UnreadType == Unread \in [Fields -> Nat]
BY EasyLogAssumption DEF Unread

LEMMA StampInvInit == Init => StampInv
<1> SUFFICES ASSUME Init PROVE StampInv
  OBVIOUS
<1>1. tm \in [Fields -> Nat]
  BY BrokenType DEF Init
<1>2. strTime \in [Threads -> [Fields -> Nat]]
  BY UnreadType DEF Init
<1>3. clock \in Nat
  BY EasyLogAssumption DEF Init
<1>4. /\ pc \in [Threads -> Places] /\ time \in [Threads -> Nat]
      /\ mixed \in [Threads -> BOOLEAN]
  BY DEF Init, Places
<1>5. Formatting /\ StampIsOwn
  BY DEF Init, Formatting, StampIsOwn
<1> QED
  BY <1>1, <1>2, <1>3, <1>4, <1>5 DEF StampInv, StampTypes

\* Localtime() of another thread is remembered; its own begins a new stamp.
LEMMA LocaltimeKeepsStamp ==
  ASSUME NEW t \in Threads PROVE StampInv /\ Localtime(t) => StampInv'
<1> SUFFICES ASSUME StampInv, Localtime(t) PROVE StampInv'
  OBVIOUS
<1>1. /\ StampTypes /\ Formatting /\ StampIsOwn /\ pc[t] = "localtime"
      /\ tm' = Broken(time[t])
      /\ strTime' = [strTime EXCEPT ![t] = Unread]
      /\ mixed' = [s \in Threads |-> s # t /\ (mixed[s] \/ pc[s] = "strftime")]
      /\ pc' = [pc EXCEPT ![t] = "strftime"]
      /\ UNCHANGED <<clock, time>>
  BY DEF StampInv, Localtime, Goto
<1>2. StampTypes'
  <2>1. tm' \in [Fields -> Nat]
    BY <1>1, BrokenType DEF StampTypes
  <2>2. strTime' \in [Threads -> [Fields -> Nat]]
    BY <1>1, UnreadType DEF StampTypes
  <2>3. mixed' \in [Threads -> BOOLEAN]
    BY <1>1
  <2>4. pc' \in [Threads -> Places] /\ clock' \in Nat /\ time' \in [Threads -> Nat]
    BY <1>1 DEF StampTypes, Places
  <2> QED BY <2>1, <2>2, <2>3, <2>4 DEF StampTypes
<1>3. \A s \in Threads : s # t =>
        /\ pc'[s] = pc[s] /\ strTime'[s] = strTime[s]
        /\ mixed'[s] <=> mixed[s] \/ pc[s] = "strftime"
  BY <1>1 DEF StampTypes
<1>4. pc'[t] = "strftime" /\ strTime'[t] = Unread
  BY <1>1 DEF StampTypes
<1>5. Formatting'
  <2> SUFFICES ASSUME NEW s \in Threads, pc'[s] = "strftime", ~mixed'[s]
               PROVE  /\ tm' = Broken(time'[s])
                      /\ \A f \in Fields : strTime'[s][f] \in {Unread[f], tm'[f]}
    BY DEF Formatting
  <2>1. s = t
    BY <1>3
  <2> QED BY <1>1, <1>4, <2>1
<1>6. StampIsOwn'
  BY <1>1, <1>3, <1>4 DEF StampIsOwn
<1> QED BY <1>2, <1>5, <1>6 DEF StampInv

\* One more field is formatted.
LEMMA StrftimeKeepsStamp ==
  ASSUME NEW t \in Threads PROVE StampInv /\ Strftime(t) => StampInv'
<1> SUFFICES ASSUME StampInv, Strftime(t) PROVE StampInv'
  OBVIOUS
<1>1. PICK f \in Fields :
        /\ strTime' = [strTime EXCEPT ![t][f] = tm[f]]
        /\ pc' = [pc EXCEPT ![t] = IF \E g \in Fields \ {f} : strTime[t][g] = Unread[g]
                                   THEN "strftime" ELSE "open"]
  BY DEF Strftime, Goto
<1>2. /\ StampTypes /\ Formatting /\ StampIsOwn /\ pc[t] = "strftime"
      /\ UNCHANGED <<clock, time, tm, mixed>>
  BY DEF StampInv, Strftime
<1>3. /\ strTime' \in [Threads -> [Fields -> Nat]]
      /\ \A s \in Threads : s # t => strTime'[s] = strTime[s]
      /\ strTime'[t][f] = tm[f]
      /\ \A g \in Fields : g # f => strTime'[t][g] = strTime[t][g]
  BY <1>1, <1>2 DEF StampTypes
<1>4. StampTypes'
  <2>1. pc' \in [Threads -> Places]
    BY <1>1, <1>2 DEF StampTypes, Places
  <2> QED BY <1>2, <1>3, <2>1 DEF StampTypes
<1>5. \A s \in Threads : s # t => pc'[s] = pc[s]
  BY <1>1, <1>2 DEF StampTypes
<1>6. Formatting'
  BY <1>2, <1>3, <1>5 DEF Formatting
<1>7. StampIsOwn'
  <2> SUFFICES ASSUME NEW s \in Threads, pc'[s] \in {"open", "put"}, ~mixed'[s]
               PROVE  strTime'[s] = Broken(time'[s])
    BY DEF StampIsOwn
  <2>1. CASE s # t
    BY <1>2, <1>3, <1>5, <2>1 DEF StampIsOwn
  <2>2. CASE s = t
    <3>1. \A g \in Fields \ {f} : strTime[t][g] # Unread[g]
      BY <1>1, <1>2, <2>2 DEF StampTypes
    <3>2. tm = Broken(time[t]) /\ \A g \in Fields : strTime[t][g] \in {Unread[g], tm[g]}
      BY <1>2, <2>2 DEF Formatting
    <3>3. \A g \in Fields : strTime'[t][g] = tm[g]
      BY <1>3, <3>1, <3>2
    <3>4. strTime'[t] \in [Fields -> Nat] /\ tm \in [Fields -> Nat]
      BY <1>2, <1>3 DEF StampTypes
    <3>5. strTime'[t] = tm
      BY <3>3, <3>4
    <3> QED BY <1>2, <2>2, <3>2, <3>5
  <2> QED BY <2>1, <2>2
<1> QED BY <1>4, <1>6, <1>7 DEF StampInv

(* The struct tm and what is formatted of it, however the threads           *)
(* interleave.                                                              *)
LEMMA StampInvHolds == Spec => []StampInv
<1>1. StampInv /\ [Next]_vars => StampInv'
  <2> SUFFICES ASSUME StampInv, [Next]_vars PROVE StampInv'
    OBVIOUS
  <2>1. ASSUME UNCHANGED stamps, clock' \in Nat, NEW t \in Threads, NEW place \in Places,
               \/ UNCHANGED pc
               \/ /\ pc' = [pc EXCEPT ![t] = place]
                  /\ place \notin {"strftime", "open"}
                  /\ place = "put" => pc[t] = "open"
        PROVE  StampInv'
    <3>1. StampTypes'
      BY <2>1 DEF StampInv, StampTypes, stamps
    <3>2. Formatting'
      BY <2>1 DEF StampInv, StampTypes, Formatting, stamps
    <3>3. StampIsOwn'
      BY <2>1 DEF StampInv, StampTypes, StampIsOwn, stamps
    <3> QED BY <3>1, <3>2, <3>3 DEF StampInv
  <2>2. CASE UNCHANGED vars \/ StaticsDone \/ Exit \/ Tick
    <3>1. UNCHANGED stamps /\ UNCHANGED pc /\ clock' \in Nat
      BY <2>2 DEF vars, stamps, StaticsDone, Exit, Tick, StampInv, StampTypes
    <3> QED BY <2>1, <3>1, EasyLogAssumption DEF Places
  <2>3. ASSUME NEW t \in Threads,
               \/ Call(t) \/ Construct(t) \/ Reset(t) \/ Assign(t) \/ Get(t) \/ Open(t)
               \/ Put(t) \/ Close(t)
        PROVE  StampInv'
    <3>1. UNCHANGED stamps /\ clock' \in Nat
      BY <2>3 DEF stamps, Call, Construct, Reset, Assign, Get, Open, Put, Close, StampInv,
         StampTypes
    <3>2. \/ UNCHANGED pc
          \/ \E place \in Places :
               /\ pc' = [pc EXCEPT ![t] = place]
               /\ place \notin {"strftime", "open"}
               /\ place = "put" => pc[t] = "open"
      BY <2>3 DEF Call, Construct, Reset, Assign, Get, Open, Put, Close, Goto, Places
    <3>3. "idle" \in Places
      BY DEF Places
    <3> QED BY <2>1, <3>1, <3>2, <3>3
  <2>4. ASSUME NEW t \in Threads, TakeTime(t) PROVE StampInv'
    BY <2>4 DEF TakeTime, Goto, StampInv, StampTypes, Formatting, StampIsOwn, Places
  <2> QED
    BY <2>2, <2>3, <2>4, LocaltimeKeepsStamp, StrftimeKeepsStamp DEF Next, ThreadStep
<1> QED
  BY <1>1, StampInvInit, PTL DEF Spec

(* The stamp of a record is of the time that its thread took, unless       *)
(* another thread called localtime() while strftime() was reading.         *)
THEOREM StampIsOfItsThread == Spec => []StampIsOwn
<1>1. StampInv => StampIsOwn
  BY DEF StampInv
<1> QED
  BY <1>1, StampInvHolds, PTL

\* No other thread disturbs the one there is.
Undisturbed == \A t \in Threads : ~mixed[t]

(* A program that logs from one thread and from no statics, as main.cpp    *)
(* does, has one object, which is there while it is used and is collected  *)
(* in the end, and records that are all stamped with their own times.      *)
THEOREM OneThreadIsUndisturbed ==
  ASSUME Threads = {Main}, StaticsLog = FALSE
  PROVE  Spec => [](/\ CollectedSingleton
                    /\ LivesWhileUsed
                    /\ \A t \in Threads :
                         pc[t] \in {"open", "put"} => strTime[t] = Broken(time[t]))
<1>1. Init => Undisturbed
  BY DEF Init, Undisturbed
<1>2. Undisturbed /\ [Next]_vars => Undisturbed'
  <2> SUFFICES ASSUME Undisturbed, [Next]_vars PROVE Undisturbed'
    OBVIOUS
  <2>1. CASE UNCHANGED stamps
    BY <2>1 DEF stamps, Undisturbed
  <2>2. ASSUME NEW t \in Threads, Localtime(t) PROVE Undisturbed'
    BY <2>2 DEF Localtime, Undisturbed
  <2>3. ASSUME NEW t \in Threads, TakeTime(t) \/ Strftime(t) PROVE Undisturbed'
    BY <2>3 DEF TakeTime, Strftime, Undisturbed
  <2>4. ASSUME NEW t \in Threads,
               \/ Call(t) \/ Construct(t) \/ Reset(t) \/ Assign(t) \/ Get(t)
               \/ Open(t) \/ Put(t) \/ Close(t)
        PROVE  Undisturbed'
    BY <2>1, <2>4 DEF Call, Construct, Reset, Assign, Get, Open, Put, Close
  <2>5. CASE UNCHANGED vars \/ StaticsDone \/ Exit \/ Tick
    BY <2>1, <2>5 DEF vars, stamps, StaticsDone, Exit, Tick
  <2> QED
    BY <2>2, <2>3, <2>4, <2>5 DEF Next, ThreadStep
<1>3. Undisturbed /\ StampIsOwn =>
        \A t \in Threads : pc[t] \in {"open", "put"} => strTime[t] = Broken(time[t])
  BY DEF Undisturbed, StampIsOwn
<1>4. MakesAlone
  BY DEF MakesAlone
<1>5. Spec => [](CollectedSingleton /\ LivesWhileUsed)
  BY <1>4, SingletonIfMadeAlone, PTL
<1> QED
  BY <1>1, <1>2, <1>3, <1>5, StampIsOfItsThread, PTL DEF Spec

----------------------------------------------------------------------------
(***************************************************************************)
(* The file.                                                               *)
(***************************************************************************)
PieceType == [kind : {"time", "message", "newline"}, by : Threads, call : Nat]

FileInv ==
  /\ pc \in [Threads -> Places]
  /\ calls \in [Threads -> Nat]
  /\ file \in Seq(PieceType)
  /\ Len(file) % 3 = 0
  /\ buffer \in [Threads -> Seq(PieceType)]
  /\ \A t \in Threads : pc[t] = "put" =>
       /\ Len(buffer[t]) <= 3
       /\ \A k \in 1 .. Len(buffer[t]) : buffer[t][k] = Piece(t, k)

LEMMA PieceIs ==
  ASSUME NEW t \in Threads, NEW k \in 1 .. 3, calls \in [Threads -> Nat]
  PROVE  Piece(t, k) \in PieceType
<1>1. Pieces[k] \in {"time", "message", "newline"}
  BY DEF Pieces
<1> QED
  BY <1>1 DEF Piece, PieceType

LEMMA FileInvHolds == Spec => []FileInv
<1>1. Init => FileInv
  BY DEF Init, FileInv, Places
<1>2. FileInv /\ [Next]_vars => FileInv'
  <2> SUFFICES ASSUME FileInv, [Next]_vars PROVE FileInv'
    OBVIOUS
  <2>1. ASSUME UNCHANGED <<buffer, file, calls>>, NEW t \in Threads, NEW place \in Places,
               \/ UNCHANGED pc
               \/ pc' = [pc EXCEPT ![t] = place] /\ place # "put"
        PROVE  FileInv'
    BY <2>1 DEF FileInv, Piece
  <2>2. CASE UNCHANGED vars \/ StaticsDone \/ Exit \/ Tick
    <3>1. UNCHANGED <<buffer, file, calls, pc>>
      BY <2>2 DEF vars, streams, StaticsDone, Exit, Tick
    <3> QED BY <2>1, <3>1, EasyLogAssumption DEF Places
  <2>3. ASSUME NEW t \in Threads,
               \/ Call(t) \/ Construct(t) \/ Reset(t) \/ Assign(t) \/ Get(t)
               \/ TakeTime(t) \/ Localtime(t) \/ Strftime(t)
        PROVE  FileInv'
    <3>1. UNCHANGED <<buffer, file, calls>>
      BY <2>3 DEF streams, Call, Construct, Reset, Assign, Get, TakeTime, Localtime, Strftime
    <3>2. \E place \in Places : pc' = [pc EXCEPT ![t] = place] /\ place # "put"
      BY <2>3 DEF Call, Construct, Reset, Assign, Get, TakeTime, Localtime, Strftime, Goto,
         Places
    <3> QED BY <2>1, <3>1, <3>2
  <2>4. ASSUME NEW t \in Threads, Open(t) PROVE FileInv'
    BY <2>4 DEF Open, Goto, FileInv, Piece, Places
  <2>5. ASSUME NEW t \in Threads, Put(t) PROVE FileInv'
    <3> DEFINE k == Len(buffer[t]) + 1
               piece == Piece(t, k)
    <3>1. /\ pc[t] = "put" /\ buffer[t] \in Seq(PieceType) /\ Len(buffer[t]) \in Nat
          /\ Len(buffer[t]) < 3 /\ buffer' = [buffer EXCEPT ![t] = Append(buffer[t], piece)]
          /\ UNCHANGED <<pc, file, calls>>
      BY <2>5, LenProperties DEF Put, Pieces, FileInv
    <3>2. piece \in PieceType
      BY <3>1, PieceIs DEF FileInv
    <3> HIDE DEF piece
    <3>3. /\ Append(buffer[t], piece) \in Seq(PieceType)
          /\ Len(Append(buffer[t], piece)) = k
          /\ \A i \in 1 .. Len(buffer[t]) : Append(buffer[t], piece)[i] = buffer[t][i]
          /\ Append(buffer[t], piece)[k] = piece
      BY <3>1, <3>2, AppendProperties
    <3>4. \A s \in Threads : buffer'[s] = IF s = t THEN Append(buffer[t], piece) ELSE buffer[s]
      BY <3>1 DEF FileInv
    <3>5. buffer' \in [Threads -> Seq(PieceType)]
      BY <3>1, <3>3 DEF FileInv
    <3>6. ASSUME NEW s \in Threads, pc'[s] = "put"
          PROVE  /\ Len(buffer'[s]) <= 3
                 /\ \A i \in 1 .. Len(buffer'[s]) : buffer'[s][i] = Piece(s, i)'
      <4>1. CASE s # t
        BY <3>1, <3>4, <3>6, <4>1 DEF FileInv, Piece
      <4>2. CASE s = t
        <5>1. buffer'[s] = Append(buffer[t], piece)
          BY <3>4, <4>2
        <5>2. \A i \in 1 .. k : Append(buffer[t], piece)[i] = Piece(t, i)
          BY <3>1, <3>3 DEF FileInv, piece
        <5> QED BY <3>1, <3>3, <4>2, <5>1, <5>2 DEF Piece
      <4> QED BY <4>1, <4>2
    <3> QED BY <3>1, <3>5, <3>6 DEF FileInv
  <2>6. ASSUME NEW t \in Threads, Close(t) PROVE FileInv'
    <3>1. /\ pc[t] = "put" /\ buffer[t] \in Seq(PieceType) /\ Len(buffer[t]) = 3
          /\ file' = (IF opened[t] THEN file \o buffer[t] ELSE file)
          /\ calls' = [calls EXCEPT ![t] = @ + 1] /\ pc' = [pc EXCEPT ![t] = "idle"]
          /\ UNCHANGED buffer
      BY <2>6 DEF Close, Goto, Pieces, FileInv
    <3>2. /\ file \o buffer[t] \in Seq(PieceType)
          /\ Len(file \o buffer[t]) = Len(file) + 3
          /\ Len(file) \in Nat
      <4>1. file \in Seq(PieceType)
        BY DEF FileInv
      <4>2. /\ file \o buffer[t] \in Seq(PieceType)
            /\ Len(file \o buffer[t]) = Len(file) + Len(buffer[t])
        BY <3>1, <4>1, ConcatProperties
      <4> QED BY <3>1, <4>1, <4>2, LenProperties
    <3>3. file' \in Seq(PieceType) /\ Len(file') % 3 = 0
      <4>1. (Len(file) + 3) % 3 = 0
        BY <3>2 DEF FileInv
      <4> QED BY <3>1, <3>2, <4>1 DEF FileInv
    <3>4. pc' \in [Threads -> Places] /\ calls' \in [Threads -> Nat]
      BY <3>1 DEF FileInv, Places
    <3>5. ASSUME NEW s \in Threads, pc'[s] = "put"
          PROVE  s # t /\ pc[s] = "put" /\ calls'[s] = calls[s]
      BY <3>1, <3>5 DEF FileInv
    <3> QED BY <3>1, <3>3, <3>4, <3>5 DEF FileInv, Piece
  <2> QED
    BY <2>2, <2>3, <2>4, <2>5, <2>6 DEF Next, ThreadStep
<1> QED
  BY <1>1, <1>2, PTL DEF Spec

\* What is written at once adds one record.
LEMMA OneMoreRecord ==
  ASSUME NEW t \in Threads, FileInv, pc[t] = "put", Len(buffer[t]) = 3,
         file' = file \o buffer[t]
  PROVE  Records' = Append(Records, Shared!Entry(t, calls[t] + 1))
<1>0. PICK n : n = Len(file) \div 3
  OBVIOUS
<1>1. /\ Len(file) \in Nat /\ Len(file) = 3 * n /\ n \in Nat
      /\ file \in Seq(PieceType) /\ buffer[t] \in Seq(PieceType)
  BY <1>0, LenProperties DEF FileInv
<1>2. /\ Len(file') = 3 * n + 3
      /\ \A i \in 1 .. 3 * n + 3 :
           file'[i] = IF i <= 3 * n THEN file[i] ELSE buffer[t][i - 3 * n]
  <2>1. /\ Len(file') = Len(file) + Len(buffer[t])
        /\ \A i \in 1 .. Len(file) + Len(buffer[t]) :
             file'[i] = IF i <= Len(file) THEN file[i] ELSE buffer[t][i - Len(file)]
    BY <1>1, ConcatProperties
  <2> QED BY <1>1, <2>1
<1>3. Len(file') \div 3 = n + 1
  <2> QED BY <1>1, <1>2
<1>4. ASSUME NEW k \in 1 .. n PROVE Record(k)' = Record(k)
  <2>1. \A i \in 1 .. 3 : file'[3 * k - 3 + i] = file[3 * k - 3 + i]
    <3>1. \A i \in 1 .. 3 : 3 * k - 3 + i \in 1 .. 3 * n + 3 /\ 3 * k - 3 + i <= 3 * n
      BY <1>1
    <3> QED BY <1>2, <3>1
  <2>2. file'[3 * k - 3 + 2] = file[3 * k - 3 + 2]
    <3>1. 2 \in 1 .. 3
      OBVIOUS
    <3> QED BY <2>1, <3>1, Zenon
  <2> QED BY <2>1, <2>2, Zenon DEF Record
<1>5. Record(n + 1)' = Shared!Entry(t, calls[t] + 1)
  <2>1. \A i \in 1 .. 3 : file'[3 * (n + 1) - 3 + i] = Piece(t, i)
    <3>1. \A i \in 1 .. 3 : /\ 3 * (n + 1) - 3 + i \in 1 .. 3 * n + 3
                            /\ ~(3 * (n + 1) - 3 + i <= 3 * n)
                            /\ (3 * (n + 1) - 3 + i) - 3 * n = i
      BY <1>1
    <3>2. \A i \in 1 .. 3 : buffer[t][i] = Piece(t, i)
      BY DEF FileInv
    <3> QED BY <1>2, <3>1, <3>2
  <2>2. PICK second : second = file'[3 * (n + 1) - 3 + 2]
    OBVIOUS
  <2>3. second.by = t /\ second.call = calls[t] + 1
    <3>1. 2 \in 1 .. 3
      OBVIOUS
    <3>2. second = Piece(t, 2)
      BY <2>1, <2>2, <3>1, Zenon
    <3> QED BY <3>2 DEF Piece
  <2>4. \A i \in 1 .. 3 :
          file'[3 * (n + 1) - 3 + i] =
            [kind |-> Pieces[i], by |-> second.by, call |-> second.call]
    BY <2>1, <2>3, Zenon DEF Piece
  <2>5. Record(n + 1)' =
          [by |-> second.by, call |-> second.call,
           whole |-> \A i \in 1 .. 3 :
                       file'[3 * (n + 1) - 3 + i] =
                         [kind |-> Pieces[i], by |-> second.by, call |-> second.call]]
    BY <2>2, Zenon DEF Record
  <2>6. Record(n + 1)' = [by |-> second.by, call |-> second.call, whole |-> TRUE]
    BY <2>4, <2>5, Zenon
  <2> QED BY <2>3, <2>6 DEF Shared!Entry
<1>6. /\ Records = [k \in 1 .. n |-> Record(k)]
      /\ Records' = [k \in 1 .. n + 1 |-> Record(k)']
  <2>1. Records = [k \in 1 .. n |-> Record(k)]
    BY <1>0 DEF Records
  <2>2. Records' = [k \in 1 .. n + 1 |-> Record(k)']
    BY <1>3 DEF Records
  <2> QED BY <2>1, <2>2
<1> QED
  <2>1. PICK entry : entry = Shared!Entry(t, calls[t] + 1)
    OBVIOUS
  <2>2. Append(Records, entry) = [k \in 1 .. n + 1 |-> IF k = n + 1 THEN entry ELSE Record(k)]
    BY <1>1, <1>6
  <2>3. \A k \in 1 .. n + 1 : Record(k)' = IF k = n + 1 THEN entry ELSE Record(k)
    <3> SUFFICES ASSUME NEW k \in 1 .. n + 1
                 PROVE  Record(k)' = IF k = n + 1 THEN entry ELSE Record(k)
      OBVIOUS
    <3>1. CASE k = n + 1
      BY <1>5, <2>1, <3>1, Zenon
    <3>2. CASE k # n + 1
      <4>1. k \in 1 .. n
        BY <1>1, <3>2
      <4> QED BY <1>4, <3>2, <4>1, Zenon
    <3> QED BY <3>1, <3>2
  <2> QED BY <1>6, <2>1, <2>2, <2>3, Zenon

(* The file is a row of whole records, each of one call, in the order in   *)
(* which the calls ended: however the threads interleave, and wherever the *)
(* file does not open.                                                     *)
THEOREM FileIsJournal == Spec => JournalSpec
<1>1. Init => Shared!Init
  <2> SUFFICES ASSUME Init PROVE Shared!Init
    OBVIOUS
  <2>1. Records = <<>>
    BY DEF Init, Records
  <2> QED BY <2>1 DEF Init, Shared!Init
<1>2. FileInv /\ [Next]_vars => [Shared!Next]_<<Records, calls>>
  <2> SUFFICES ASSUME FileInv, [Next]_vars PROVE [Shared!Next]_<<Records, calls>>
    OBVIOUS
  <2>1. UNCHANGED file => UNCHANGED Records
    BY DEF Records, Record
  <2>2. ASSUME UNCHANGED <<file, calls>> PROVE [Shared!Next]_<<Records, calls>>
    BY <2>1, <2>2
  <2>3. CASE UNCHANGED vars \/ StaticsDone \/ Exit \/ Tick
    BY <2>2, <2>3 DEF vars, streams, StaticsDone, Exit, Tick
  <2>4. ASSUME NEW t \in Threads, Close(t) PROVE [Shared!Next]_<<Records, calls>>
    <3>1. /\ pc[t] = "put" /\ Len(buffer[t]) = 3
          /\ file' = (IF opened[t] THEN file \o buffer[t] ELSE file)
          /\ calls' = [calls EXCEPT ![t] = @ + 1]
      BY <2>4 DEF Close, Pieces
    <3>2. Shared!Count(t)
      BY <3>1 DEF Shared!Count
    <3>3. CASE opened[t]
      BY <3>1, <3>2, <3>3, OneMoreRecord DEF Shared!Next, Shared!Write
    <3>4. CASE ~opened[t]
      BY <2>1, <3>1, <3>2, <3>4 DEF Shared!Next, Shared!Lose
    <3> QED BY <3>3, <3>4
  <2>5. ASSUME NEW t \in Threads,
               \/ Call(t) \/ Construct(t) \/ Reset(t) \/ Assign(t) \/ Get(t)
               \/ TakeTime(t) \/ Localtime(t) \/ Strftime(t) \/ Open(t) \/ Put(t)
        PROVE  [Shared!Next]_<<Records, calls>>
    <3>1. UNCHANGED <<file, calls>>
      BY <2>5 DEF streams, Call, Construct, Reset, Assign, Get, TakeTime, Localtime, Strftime,
         Open, Put
    <3> QED BY <2>2, <3>1
  <2> QED BY <2>3, <2>4, <2>5 DEF Next, ThreadStep
<1> QED
  BY <1>1, <1>2, FileInvHolds, PTL DEF Spec, JournalSpec, Shared!Spec

=============================================================================
