------------------------------- MODULE EasyLog -------------------------------
(***************************************************************************)
(* EasyLog::Inst()->Log(...) called by several threads (Log.h, Log.cpp).   *)
(* Nothing in the class is locked: Inst() looks for the object and makes   *)
(* it in separate steps, Log() takes the time through the one struct tm    *)
(* that localtime() has, and every call opens and closes the file itself.  *)
(***************************************************************************)
EXTENDS Naturals, Sequences, FiniteSets

CONSTANTS
  Threads,    \* the threads that log
  Main,       \* the thread that runs main()
  StaticsLog, \* do statics of other files log in constructors and destructors?
  MaxCalls,   \* bound on the calls of each thread
  MaxClock,   \* bound on the clock
  Day         \* seconds in a day; the clock starts just before one ends

ASSUME EasyLogAssumption ==
  /\ Main \in Threads
  /\ StaticsLog \in BOOLEAN
  /\ {MaxCalls, MaxClock} \subseteq Nat
  /\ Day \in Nat \ {0}

VARIABLES
  phase,     \* of the process: "statics", "main" or "exit"
  instance,  \* what the pointer in _instance points to: 0 or an object
  made,      \* how many objects were made; they are numbered from 1
  deleted,   \* those that were deleted
  pc,        \* where each thread is
  ptr,       \* the object each thread has a pointer to
  clock,
  time,      \* t of each thread
  tm,        \* the struct tm that localtime() returns a pointer to
  strTime,   \* the fields of it that each thread has formatted so far
  mixed,     \* did another thread call localtime() meanwhile?
  buffer,    \* what is in each thread's stream, not yet in the file
  opened,    \* is that stream open?
  file,      \* EasyLog.log
  calls      \* how many calls each thread has completed

vars == <<phase, instance, made, deleted, pc, ptr, clock, time, tm, strTime, mixed,
          buffer, opened, file, calls>>
inst == <<instance, made, deleted>>
stamps == <<time, tm, strTime, mixed>>
streams == <<buffer, opened, file>>

Fields == {"date", "hour"}
Broken(seconds) == [date |-> seconds \div Day, hour |-> seconds % Day]
Unread == [f \in Fields |-> MaxClock + 1]

Goto(t, place) == pc' = [pc EXCEPT ![t] = place]

Init ==
  /\ phase = "statics"
  /\ instance = 0
  /\ made = 0
  /\ deleted = {}
  /\ pc = [t \in Threads |-> "idle"]
  /\ ptr = [t \in Threads |-> 0]
  /\ clock = Day - 1
  /\ time = [t \in Threads |-> 0]
  /\ tm = Broken(0)
  /\ strTime = [t \in Threads |-> Unread]
  /\ mixed = [t \in Threads |-> FALSE]
  /\ buffer = [t \in Threads |-> <<>>]
  /\ opened = [t \in Threads |-> FALSE]
  /\ file = <<>>
  /\ calls = [t \in Threads |-> 0]

----------------------------------------------------------------------------
(* The process.                                                            *)

Idle == \A t \in Threads : pc[t] = "idle"

\* The constructor of _instance runs, perhaps after other statics logged.
StaticsDone ==
  /\ phase = "statics"
  /\ Idle
  /\ phase' = "main"
  /\ instance' = 0
  /\ UNCHANGED <<made, deleted, pc, ptr, clock, stamps, streams, calls>>

\* main() has joined its threads and returns: the destructor of _instance
\* deletes the object, and leaves the pointer as it is.
Exit ==
  /\ phase = "main"
  /\ Idle
  /\ phase' = "exit"
  /\ deleted' = deleted \cup ({instance} \ {0})
  /\ UNCHANGED <<instance, made, pc, ptr, clock, stamps, streams, calls>>

Tick ==
  /\ clock < MaxClock
  /\ clock' = clock + 1
  /\ UNCHANGED <<phase, inst, pc, ptr, stamps, streams, calls>>

----------------------------------------------------------------------------
(* Inst()                                                                  *)

\* main() runs after the constructor of _instance and before its destructor,
\* as do the statics that are constructed after it. Those that are constructed
\* before it are destroyed after it. In statics there is one thread.
MayLog(t) ==
  phase = "main" \/ (StaticsLog /\ phase \in {"statics", "exit"} /\ t = Main)

Making(t) == pc[t] \in {"new", "reset", "assign"}

\* if (0 == _instance.get())
Call(t) ==
  /\ MayLog(t)
  /\ pc[t] = "idle"
  /\ calls[t] < MaxCalls
  /\ Goto(t, IF instance = 0 THEN "new" ELSE "get")
  /\ UNCHANGED <<phase, inst, ptr, clock, stamps, streams, calls>>

Construct(t) ==
  /\ pc[t] = "new"
  /\ made' = made + 1
  /\ ptr' = [ptr EXCEPT ![t] = made + 1]
  /\ Goto(t, "reset")
  /\ UNCHANGED <<phase, instance, deleted, clock, stamps, streams, calls>>

\* auto_ptr::reset deletes what it owned ...
Reset(t) ==
  /\ pc[t] = "reset"
  /\ deleted' = deleted \cup ({instance} \ {0, ptr[t]})
  /\ Goto(t, "assign")
  /\ UNCHANGED <<phase, instance, made, ptr, clock, stamps, streams, calls>>

\* ... and only then takes over the new object.
Assign(t) ==
  /\ pc[t] = "assign"
  /\ instance' = ptr[t]
  /\ Goto(t, "get")
  /\ UNCHANGED <<phase, made, deleted, ptr, clock, stamps, streams, calls>>

(* Mutant: every call makes a new object. *)
GetAnew(t) ==
  /\ pc[t] = "get"
  /\ made' = made + 1
  /\ deleted' = deleted \cup {instance}
  /\ instance' = made + 1
  /\ ptr' = [ptr EXCEPT ![t] = made + 1]
  /\ Goto(t, "time")
  /\ UNCHANGED <<phase, clock, stamps, streams, calls>>

\* return _instance.get()
Get(t) ==
  /\ pc[t] = "get"
  /\ ptr' = [ptr EXCEPT ![t] = instance]
  /\ Goto(t, "time")
  /\ UNCHANGED <<phase, inst, clock, stamps, streams, calls>>

----------------------------------------------------------------------------
(* Log()                                                                   *)

\* The message is formatted into msgLog, which is the thread's own, and the
\* time is taken.
TakeTime(t) ==
  /\ pc[t] = "time"
  /\ time' = [time EXCEPT ![t] = clock]
  /\ Goto(t, "localtime")
  /\ UNCHANGED <<phase, inst, ptr, clock, tm, strTime, mixed, streams, calls>>

(* Mutant: the time is converted once. *)
LocaltimeOnce(t) ==
  /\ pc[t] = "localtime"
  /\ tm' = IF calls[t] = 0 THEN Broken(time[t]) ELSE tm
  /\ strTime' = [strTime EXCEPT ![t] = Unread]
  /\ mixed' = [s \in Threads |-> s # t /\ (mixed[s] \/ pc[s] = "strftime")]
  /\ Goto(t, "strftime")
  /\ UNCHANGED <<phase, inst, ptr, clock, time, streams, calls>>

\* localtime() writes its struct under a lock of the C library ...
Localtime(t) ==
  /\ pc[t] = "localtime"
  /\ tm' = Broken(time[t])
  /\ strTime' = [strTime EXCEPT ![t] = Unread]
  /\ mixed' = [s \in Threads |-> s # t /\ (mixed[s] \/ pc[s] = "strftime")]
  /\ Goto(t, "strftime")
  /\ UNCHANGED <<phase, inst, ptr, clock, time, streams, calls>>

\* ... but strftime() reads it without one, field by field: a call of another
\* thread may come between. The order of the reads is the compiler's.
Strftime(t) ==
  /\ pc[t] = "strftime"
  /\ \E f \in Fields :
       /\ strTime[t][f] = Unread[f]
       /\ strTime' = [strTime EXCEPT ![t][f] = tm[f]]
       /\ Goto(t, IF \E g \in Fields \ {f} : strTime[t][g] = Unread[g]
                  THEN "strftime" ELSE "open")
  /\ UNCHANGED <<phase, inst, ptr, clock, time, tm, mixed, streams, calls>>

\* The file may not open; nobody asks.
Open(t) ==
  /\ pc[t] = "open"
  /\ \E ok \in BOOLEAN : opened' = [opened EXCEPT ![t] = ok]
  /\ buffer' = [buffer EXCEPT ![t] = <<>>]
  /\ Goto(t, "put")
  /\ UNCHANGED <<phase, inst, ptr, clock, stamps, file, calls>>

Pieces == <<"time", "message", "newline">>
Piece(t, k) == [kind |-> Pieces[k], by |-> t, call |-> calls[t] + 1]

(* Mutant: every piece is flushed. *)
PutFlushed(t) ==
  /\ pc[t] = "put"
  /\ Len(buffer[t]) < Len(Pieces)
  /\ buffer' = [buffer EXCEPT ![t] = Append(@, Piece(t, Len(@) + 1))]
  /\ file' = IF opened[t] THEN Append(file, Piece(t, Len(buffer[t]) + 1)) ELSE file
  /\ UNCHANGED <<phase, inst, pc, ptr, clock, stamps, opened, calls>>

\* ofs << strTime << msgLog << '\n'. A record is less than the stream's
\* buffer holds, and nothing flushes it.
Put(t) ==
  /\ pc[t] = "put"
  /\ Len(buffer[t]) < Len(Pieces)
  /\ buffer' = [buffer EXCEPT ![t] = Append(@, Piece(t, Len(@) + 1))]
  /\ UNCHANGED <<phase, inst, pc, ptr, clock, stamps, opened, file, calls>>

\* One write at the end of the file, as the file was opened with app: this is
\* POSIX; on Windows the end is looked for before.
Close(t) ==
  /\ pc[t] = "put"
  /\ Len(buffer[t]) = Len(Pieces)
  /\ file' = IF opened[t] THEN file \o buffer[t] ELSE file
  /\ opened' = [opened EXCEPT ![t] = FALSE]
  /\ calls' = [calls EXCEPT ![t] = @ + 1]
  /\ Goto(t, "idle")
  /\ UNCHANGED <<phase, inst, ptr, clock, stamps, buffer>>

----------------------------------------------------------------------------

ThreadStep(t) ==
  \/ Call(t) \/ Construct(t) \/ Reset(t) \/ Assign(t) \/ Get(t)
  \/ TakeTime(t) \/ Localtime(t) \/ Strftime(t) \/ Open(t) \/ Put(t) \/ Close(t)

Next == StaticsDone \/ Exit \/ Tick \/ \E t \in Threads : ThreadStep(t)

Spec == Init /\ [][Next]_vars

----------------------------------------------------------------------------
(* Properties.                                                             *)

InLog(t) == pc[t] \in {"time", "localtime", "strftime", "open", "put"}

(* "A simple singleton, collected automatically" (Log.h:3), which does not  *)
(* hold of this code: one object is made, and when the process has ended    *)
(* it was deleted. An object that a static makes before _instance is        *)
(* constructed, or after it is destroyed, is never deleted.                 *)
CollectedSingleton ==
  /\ made <= 1
  /\ phase = "exit" /\ Idle => deleted = 1 .. made

(* What such a singleton promises each of its callers, which does not hold  *)
(* either: a thread that is in Log() is in the Log() of an object that      *)
(* exists. Of two threads that find no object one deletes the other's.      *)
LivesWhileUsed == \A t \in Threads : InLog(t) => ptr[t] # 0 /\ ptr[t] \notin deleted

(* What does hold: once main() has an object that all threads use and that  *)
(* none is about to replace, it remains the only one there is, however the  *)
(* threads interleave, until it is deleted at exit with nobody in Log().    *)
Settled ==
  /\ phase = "main" /\ instance # 0 /\ instance \notin deleted
  /\ \A t \in Threads : ~Making(t) /\ (InLog(t) => ptr[t] = instance)
StaysAsItIs == Settled' /\ UNCHANGED <<instance, made, deleted>>
DeletedUnused == phase' = "exit" /\ Idle' /\ deleted' = deleted \cup {instance}
StaysSettled == [][Settled => StaysAsItIs \/ DeletedUnused]_vars

(* The time of a record is the time its thread took, unless another thread *)
(* converted one while it was being formatted.                             *)
StampIsOwn ==
  \A t \in Threads :
    pc[t] \in {"open", "put"} /\ ~mixed[t] => strTime[t] = Broken(time[t])

(* The file is a row of whole records, each of one call: however the       *)
(* threads interleave, a call adds its record at the end or, if the file   *)
(* did not open, nothing.                                                  *)
Record(k) ==
  LET piece(i) == file[3 * k - 3 + i]
  IN  [by |-> piece(2).by, call |-> piece(2).call,
       whole |-> \A i \in 1 .. 3 :
                   piece(i) = [kind |-> Pieces[i], by |-> piece(2).by, call |-> piece(2).call]]
Records == [k \in 1 .. Len(file) \div 3 |-> Record(k)]
Shared == INSTANCE Journal WITH Writers <- Threads, journal <- Records
JournalSpec == Shared!Spec
=============================================================================
