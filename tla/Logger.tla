------------------------------ MODULE Logger ------------------------------
(***************************************************************************)
(* The asynchronous logger of the first-session code                       *)
(* (ofe_session1_code/ofe/src/util/logger.cpp): any thread enqueues        *)
(* records under a mutex; the I/O thread of the LoggerImpl takes the whole *)
(* queue at a time and writes it to dated files that roll over by day and  *)
(* by size.                                                                *)
(*                                                                         *)
(* init() on a logger that is already up constructs the new LoggerImpl     *)
(* before it destroys the old one, so that two I/O threads share the log   *)
(* directory until the old one has drained; g_init_mutex keeps it at two.  *)
(*                                                                         *)
(* Records are numbered as they are logged and count one unit of size      *)
(* each.  write() is one step: it loads g_impl once and enqueues under     *)
(* the mutex.  The condition variable is its predicate: both places that   *)
(* change it notify.  An open stream writes to the file it opened,         *)
(* whatever that is called later.  Console output, formatting and flushing *)
(* leave no trace in the model.                                            *)
(***************************************************************************)
EXTENDS Integers, Sequences, FiniteSets

CONSTANTS
  Impls,          (* LoggerImpl objects; storage is used again             *)
  NoImpl,         (* g_impl is null                                        *)
  QueueLimit,     (* 65536 in the code                                     *)
  MaxBytes,       (* max_file_size_mb, in records                          *)
  MaxFiles,       (* max_files                                             *)
  OpenMayFail,    (* whether opening a log file may fail                   *)
  MaxRecords,     (* bound: records logged                                 *)
  MaxDays,        (* bound: the days the run spans                         *)
  MaxSessions     (* bound: calls of init()                                *)

ASSUME LoggerAssumption ==
  /\ NoImpl \notin Impls
  /\ QueueLimit \in Nat \ {0}
  /\ MaxBytes \in Nat \ {0}
  /\ MaxFiles \in Nat \ {0}
  /\ OpenMayFail \in BOOLEAN
  /\ {MaxRecords, MaxDays, MaxSessions} \subseteq Nat

VARIABLES
  gImpl,          (* g_impl                                                *)
  lifecycle,      (* the init() or shutdown() in progress and its object   *)
  running,        (* per object: running_                                  *)
  queue,          (* per object: queue_                                    *)
  ioPc,           (* per object: its I/O thread, see the actions below     *)
  batch,          (* per object: io_loop's batch                           *)
  currentDate,    (* per object: current_date_, a day                      *)
  stream,         (* per object: the file behind file_, or NoFile          *)
  bytes,          (* per object: bytes_written_                            *)
  names,          (* the log directory: path to file                       *)
  contents,       (* per file, numbered as they are created: its records   *)
  today,          (* the calendar                                          *)
  sessions,       (* how often init() was called                           *)
  logged,         (* how many records were logged                          *)
  accepted,       (* per object: what enqueue() put in the queue, in order *)
  outcome,        (* per object: what write_record() did with each record  *)
  failures,       (* the days an object could not open its file            *)
  shared          (* the objects that have lived along with another one    *)

ioVars == <<queue, ioPc, batch>>
streamVars == <<currentDate, stream, bytes>>
diskVars == <<names, contents>>
historyVars == <<logged, accepted, outcome, failures, shared>>
vars == <<gImpl, lifecycle, running, ioVars, streamVars, diskVars, today, sessions, historyVars>>

Records == 1 .. MaxRecords
NoFile == 0
Idle == [pc |-> "idle"]
DayFile(day) == [day |-> day, part |-> "log"]
RotatedFile(day) == [day |-> day, part |-> "log.1"]
CurrentFile(i) == DayFile(currentDate[i])

Init ==
  /\ gImpl = NoImpl
  /\ lifecycle = Idle
  /\ running = [i \in Impls |-> FALSE]
  /\ queue = [i \in Impls |-> << >>]
  /\ ioPc = [i \in Impls |-> "none"]
  /\ batch = [i \in Impls |-> << >>]
  /\ currentDate = [i \in Impls |-> 0]
  /\ stream = [i \in Impls |-> NoFile]
  /\ bytes = [i \in Impls |-> 0]
  /\ names = << >>
  /\ contents = << >>
  /\ today = 1
  /\ sessions = 0
  /\ logged = 0
  /\ accepted = [i \in Impls |-> << >>]
  /\ outcome = [i \in Impls |-> << >>]
  /\ failures = {}
  /\ shared = {}

---------------------------------------------------------------------------
(* The files.                                                              *)

Only(directory, paths) == [p \in paths |-> directory[p]]
WithName(directory, path, file) ==
  [p \in DOMAIN directory \cup {path} |-> IF p = path THEN file ELSE directory[p]]

(* open_log_file(): append to today's file, which may exist already.       *)
OpenLogFile(i) ==
  /\ currentDate' = [currentDate EXCEPT ![i] = today]
  /\ bytes' = [bytes EXCEPT ![i] = 0]
  /\ \/ /\ DayFile(today) \in DOMAIN names
        /\ stream' = [stream EXCEPT ![i] = names[DayFile(today)]]
        /\ UNCHANGED <<names, contents, failures>>
     \/ /\ DayFile(today) \notin DOMAIN names
        /\ contents' = Append(contents, << >>)
        /\ names' = WithName(names, DayFile(today), Len(contents'))
        /\ stream' = [stream EXCEPT ![i] = Len(contents')]
        /\ UNCHANGED failures
     \/ /\ OpenMayFail
        /\ stream' = [stream EXCEPT ![i] = NoFile]
        /\ failures' = failures \cup {[impl |-> i, day |-> today]}
        /\ UNCHANGED <<names, contents>>

(* Mutant: the newest files are removed, not the oldest.                   *)
PurgedNewest(directory) ==
  LET newer(p) == {q \in DOMAIN directory : q.part = "log" /\ q.day < p.day}
  IN  Only(directory, {p \in DOMAIN directory :
                         p.part = "log" => Cardinality(newer(p)) < MaxFiles})

(* purge_old_files(): of the files with the extension .log, sorted by      *)
(* their dated names, the last MaxFiles stay; a .log.1 is never looked at. *)
Purged(directory) ==
  LET newer(p) == {q \in DOMAIN directory : q.part = "log" /\ q.day > p.day}
  IN  Only(directory, {p \in DOMAIN directory :
                         p.part = "log" => Cardinality(newer(p)) < MaxFiles})

(* The rename in rotate_if_needed() replaces an earlier .log.1 of the day. *)
Renamed(directory, day) ==
  WithName(Only(directory, DOMAIN directory \ {DayFile(day)}),
           RotatedFile(day), directory[DayFile(day)])

---------------------------------------------------------------------------
(* Mutant: a record that finds the queue full replaces the newest.         *)
WriteOverwrites(i) ==
  /\ gImpl = i
  /\ logged < MaxRecords
  /\ logged' = logged + 1
  /\ queue' = [queue EXCEPT ![i] = IF Len(@) < QueueLimit THEN Append(@, logged')
                                   ELSE [@ EXCEPT ![Len(@)] = logged']]
  /\ accepted' = [accepted EXCEPT ![i] =
       IF Len(queue[i]) < QueueLimit THEN Append(@, logged') ELSE @]
  /\ UNCHANGED <<gImpl, lifecycle, running, ioPc, batch, streamVars, diskVars, today, sessions,
                 outcome, failures, shared>>

(* Logger::write() and enqueue(): a full queue drops the record.           *)
Write(i) ==
  /\ gImpl = i
  /\ logged < MaxRecords
  /\ logged' = logged + 1
  /\ IF Len(queue[i]) < QueueLimit
       THEN /\ queue' = [queue EXCEPT ![i] = Append(@, logged')]
            /\ accepted' = [accepted EXCEPT ![i] = Append(@, logged')]
       ELSE UNCHANGED <<queue, accepted>>
  /\ UNCHANGED <<gImpl, lifecycle, running, ioPc, batch, streamVars, diskVars, today, sessions,
                 outcome, failures, shared>>

(* Without a LoggerImpl the record goes to standard error.                 *)
WriteToStderr ==
  /\ gImpl = NoImpl
  /\ lifecycle.pc # "terminated"
  /\ logged < MaxRecords
  /\ logged' = logged + 1
  /\ UNCHANGED <<gImpl, lifecycle, running, ioVars, streamVars, diskVars, today, sessions,
                 accepted, outcome, failures, shared>>

(* Logger::init() constructs a LoggerImpl: a file is opened, the thread    *)
(* starts.                                                                 *)
StartSession(i) ==
  /\ lifecycle = Idle
  /\ i # gImpl
  /\ sessions < MaxSessions
  /\ sessions' = sessions + 1
  /\ lifecycle' = [pc |-> "assign", impl |-> i]
  /\ running' = [running EXCEPT ![i] = TRUE]
  /\ ioPc' = [ioPc EXCEPT ![i] = "wait"]
  /\ OpenLogFile(i)
  /\ shared' = IF gImpl = NoImpl THEN shared \ {i} ELSE shared \cup {i, gImpl}
  /\ UNCHANGED <<gImpl, queue, batch, today, logged, accepted, outcome>>

(* The destruction of what g_impl held begins after the pointer has been   *)
(* set: running_ is cleared, the thread is notified and joined.            *)
Destroyed(old) ==
  /\ lifecycle' = IF old = NoImpl THEN Idle ELSE [pc |-> "join", impl |-> old]
  /\ running' = [i \in Impls |-> running[i] /\ i # old]
  /\ UNCHANGED <<ioVars, streamVars, diskVars, today, sessions, historyVars>>

(* The assignment in init().                                               *)
AssignImpl ==
  /\ lifecycle.pc = "assign"
  /\ gImpl' = lifecycle.impl
  /\ Destroyed(gImpl)

(* Logger::shutdown(); without a LoggerImpl it does nothing.               *)
Shutdown ==
  /\ lifecycle = Idle
  /\ gImpl # NoImpl
  /\ gImpl' = NoImpl
  /\ Destroyed(gImpl)

(* join() returns, the file is closed, init() or shutdown() returns.       *)
Joined ==
  /\ lifecycle.pc = "join"
  /\ ioPc[lifecycle.impl] = "done"
  /\ lifecycle' = Idle
  /\ ioPc' = [ioPc EXCEPT ![lifecycle.impl] = "none"]
  /\ stream' = [stream EXCEPT ![lifecycle.impl] = NoFile]
  /\ queue' = [queue EXCEPT ![lifecycle.impl] = << >>]
  /\ UNCHANGED <<gImpl, running, batch, currentDate, bytes, diskVars, today, sessions, historyVars>>

---------------------------------------------------------------------------
(* io_loop(): "wait" for records, "write" the batch, "done".               *)

GoTo(i, pc) == ioPc' = [ioPc EXCEPT ![i] = pc]
OwnerVars == <<gImpl, lifecycle, running, today, sessions, logged, accepted, shared>>

(* Mutant: the thread waits for a record only.                             *)
IoTakeIgnoringStop(i) ==
  /\ ioPc[i] = "wait"
  /\ queue[i] # << >>
  /\ batch' = [batch EXCEPT ![i] = queue[i]]
  /\ queue' = [queue EXCEPT ![i] = << >>]
  /\ GoTo(i, "write")
  /\ UNCHANGED <<OwnerVars, streamVars, diskVars, outcome, failures>>

(* The wait ends: the whole queue is taken, possibly empty when stopping.  *)
IoTake(i) ==
  /\ ioPc[i] = "wait"
  /\ queue[i] # << >> \/ ~running[i]
  /\ batch' = [batch EXCEPT ![i] = queue[i]]
  /\ queue' = [queue EXCEPT ![i] = << >>]
  /\ GoTo(i, "write")
  /\ UNCHANGED <<OwnerVars, streamVars, diskVars, outcome, failures>>

(* rotate_if_needed(), before every record: on a new day the file of the   *)
(* day is opened and old ones are purged ...                               *)
Turn(i) == ioPc[i] = "write" /\ batch[i] # << >>
DayOver(i) == today # currentDate[i]
FileFull(i) == bytes[i] >= MaxBytes

IoDayRollover(i) ==
  /\ Turn(i) /\ DayOver(i)
  /\ OpenLogFile(i)
  /\ GoTo(i, "purge")
  /\ UNCHANGED <<OwnerVars, queue, batch, outcome>>

IoPurge(i) ==
  /\ ioPc[i] = "purge"
  /\ names' = Purged(names)
  /\ GoTo(i, "record")
  /\ UNCHANGED <<OwnerVars, queue, batch, streamVars, contents, outcome, failures>>

(* ... else a full file is closed and renamed, and today's opened.         *)
IoRename(i) ==
  /\ Turn(i) /\ ~DayOver(i) /\ FileFull(i)
  /\ CurrentFile(i) \in DOMAIN names
  /\ names' = Renamed(names, currentDate[i])
  /\ stream' = [stream EXCEPT ![i] = NoFile]
  /\ GoTo(i, "reopen")
  /\ UNCHANGED <<OwnerVars, queue, batch, currentDate, bytes, contents, outcome, failures>>

(* Without the file std::filesystem::rename throws, and an exception that  *)
(* leaves the thread's function ends the process.                          *)
IoRenameThrows(i) ==
  /\ Turn(i) /\ ~DayOver(i) /\ FileFull(i)
  /\ CurrentFile(i) \notin DOMAIN names
  /\ gImpl' = NoImpl
  /\ lifecycle' = [pc |-> "terminated"]
  /\ ioPc' = [j \in Impls |-> "none"]
  /\ stream' = [j \in Impls |-> NoFile]
  /\ UNCHANGED <<running, queue, batch, currentDate, bytes, diskVars, today, sessions, historyVars>>

IoReopen(i) ==
  /\ ioPc[i] = "reopen"
  /\ OpenLogFile(i)
  /\ GoTo(i, "record")
  /\ UNCHANGED <<OwnerVars, queue, batch, outcome>>

(* write_record(), when no rotation is due or after it: a record for which *)
(* no file is open is put nowhere.                                         *)
IoWrite(i) ==
  /\ ioPc[i] = "record" \/ (Turn(i) /\ ~DayOver(i) /\ ~FileFull(i))
  /\ IF stream[i] = NoFile
       THEN UNCHANGED <<contents, bytes>>
       ELSE /\ contents' = [contents EXCEPT ![stream[i]] = Append(@, Head(batch[i]))]
            /\ bytes' = [bytes EXCEPT ![i] = @ + 1]
  /\ outcome' = [outcome EXCEPT ![i] =
       Append(@, [record |-> Head(batch[i]), day |-> currentDate[i], file |-> stream[i]])]
  /\ batch' = [batch EXCEPT ![i] = Tail(@)]
  /\ GoTo(i, "write")
  /\ UNCHANGED <<OwnerVars, queue, currentDate, stream, names, failures>>

(* Mutant: the loop ends whenever it was stopped, whatever has come in.    *)
IoCheckIgnoringQueue(i) ==
  /\ ioPc[i] = "write" /\ batch[i] = << >>
  /\ GoTo(i, IF ~running[i] THEN "done" ELSE "wait")
  /\ UNCHANGED <<OwnerVars, queue, batch, streamVars, diskVars, outcome, failures>>

IoCheck(i) ==
  /\ ioPc[i] = "write" /\ batch[i] = << >>
  /\ GoTo(i, IF ~running[i] /\ queue[i] = << >> THEN "done" ELSE "wait")
  /\ UNCHANGED <<OwnerVars, queue, batch, streamVars, diskVars, outcome, failures>>

IoLoop(i) ==
  \/ IoTake(i) \/ IoDayRollover(i) \/ IoPurge(i)
  \/ IoRename(i) \/ IoRenameThrows(i) \/ IoReopen(i)
  \/ IoWrite(i) \/ IoCheck(i)

(* Midnight.                                                               *)
NextDay ==
  /\ today < MaxDays
  /\ today' = today + 1
  /\ UNCHANGED <<gImpl, lifecycle, running, ioVars, streamVars, diskVars, sessions, historyVars>>

Next ==
  \/ \E i \in Impls : Write(i) \/ StartSession(i) \/ IoLoop(i)
  \/ WriteToStderr \/ AssignImpl \/ Shutdown \/ Joined
  \/ NextDay

Spec == Init /\ [][Next]_vars

(* Every I/O thread is scheduled, and so is the thread inside init() or    *)
(* shutdown(), whose join returns when it can.                             *)
Fairness ==
  /\ \A i \in Impls : WF_vars(IoLoop(i))
  /\ WF_vars(AssignImpl) /\ WF_vars(Joined)

FairSpec == Spec /\ Fairness

---------------------------------------------------------------------------
(* logger.h:97, "Flush all pending writes": what a LoggerImpl's queue took *)
(* has been through write_record(), is in the batch, or waits, in order;   *)
(* shutdown, restarts and a second init() lose none of it.  What went      *)
(* through it is in the file that was open, under whatever name, or in     *)
(* none, but that only after the object failed to open the file of a day.  *)
RecordsConserved ==
  \A i \in Impls :
    /\ [k \in DOMAIN outcome[i] |-> outcome[i][k].record] \o batch[i] \o queue[i] = accepted[i]
    /\ \A k \in DOMAIN outcome[i] :
         LET e == outcome[i][k]
         IN  IF e.file = NoFile THEN [impl |-> i, day |-> e.day] \in failures
             ELSE \E n \in DOMAIN contents[e.file] : contents[e.file][n] = e.record

(* A LoggerImpl that has the directory to itself writes to the file that   *)
(* bears its date: the file is never renamed or purged from under the open *)
(* stream, so that the rename of a rollover finds it.  Two that overlap do *)
(* rename each other's files.                                              *)
CurrentFileKept ==
  \A i \in Impls \ shared :
    stream[i] # NoFile =>
      /\ CurrentFile(i) \in DOMAIN names
      /\ names[CurrentFile(i)] = stream[i]
      /\ Len(contents[stream[i]]) >= bytes[i]

(* Every record the queue took goes through write_record() in the end,     *)
(* into the open file or, after a failed open, nowhere, unless a rename    *)
(* has ended the process.                                                  *)
Terminated == lifecycle.pc = "terminated"

EveryRecordSettled ==
  \A r \in Records :
    (\E i \in Impls : \E k \in DOMAIN accepted[i] : accepted[i][k] = r) ~>
      (Terminated \/ \E i \in Impls : \E k \in DOMAIN outcome[i] : outcome[i][k].record = r)

(* shutdown() returns, and so does an init() that replaces a LoggerImpl.   *)
ShutdownCompletes == (lifecycle.pc = "join") ~> (lifecycle = Idle \/ Terminated)

(* logger.h:66 again: the records of the last max_files days are on file.  *)
RecentDaysKept ==
  LET onFile == {e \in UNION {{outcome[i][k] : k \in DOMAIN outcome[i]} : i \in Impls} :
                   e.file # NoFile}
  IN  \A e \in onFile :
        Cardinality({x.day : x \in {y \in onFile : y.day > e.day}}) < MaxFiles =>
          \E p \in DOMAIN names : \E n \in DOMAIN contents[names[p]] :
            contents[names[p]][n] = e.record
===========================================================================
