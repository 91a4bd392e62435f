---------------------------- MODULE LoggerProofs ----------------------------
(***************************************************************************)
(* What a LoggerImpl's queue took is never lost, repeated or reordered,    *)
(* for every queue limit, file size and number of days and sessions,       *)
(* whichever files can be opened, also when init() replaces a logger that  *)
(* is up.  What makes it inductive: there is a batch only while a thread   *)
(* writes, and when it has left its loop nothing is queued and nothing can *)
(* be.                                                                     *)
(***************************************************************************)
EXTENDS Logger, SequenceTheorems, FiniteSetTheorems, WellFoundedInduction, TLAPS

(* Who owns a LoggerImpl: a thread that exists belongs to g_impl or to the *)
(* init() or shutdown() in progress.                                       *)
Lifecycles ==
  {Idle, [pc |-> "terminated"]} \cup [pc : {"assign", "join"}, impl : Impls]
LoopPcs == {"none", "wait", "write", "purge", "record", "reopen", "done"}
Alive(i) == ioPc[i] # "none"

LifecycleTypes ==
  /\ gImpl \in Impls \cup {NoImpl}
  /\ lifecycle \in Lifecycles
  /\ running \in [Impls -> BOOLEAN]
  /\ ioPc \in [Impls -> LoopPcs]

LifecycleInvariant ==
  /\ LifecycleTypes
  /\ gImpl # NoImpl => running[gImpl]
  /\ lifecycle.pc = "assign" => running[lifecycle.impl] /\ lifecycle.impl # gImpl
  /\ Terminated => gImpl = NoImpl /\ \A i \in Impls : ~Alive(i)
  /\ \A i \in Impls : Alive(i) =>
       i = gImpl \/ (lifecycle.pc \in {"assign", "join"} /\ lifecycle.impl = i)
  /\ \A i \in Impls : ioPc[i] = "done" => ~running[i]

LEMMA PcsOfLifecycles ==
  ASSUME NEW l \in Lifecycles
  PROVE  \/ l = Idle /\ l.pc = "idle"
         \/ l.pc = "terminated"
         \/ l.pc \in {"assign", "join"} /\ l.impl \in Impls
BY DEF Lifecycles, Idle

(* A turn of a loop that does not end the process.                         *)
LEMMA LoopSteps ==
  ASSUME LifecycleInvariant, NEW i \in Impls, IoLoop(i), ~IoRenameThrows(i)
  PROVE  /\ UNCHANGED OwnerVars
         /\ Alive(i) /\ Alive(i)'
         /\ ioPc' \in [Impls -> LoopPcs]
         /\ \A j \in Impls \ {i} : ioPc'[j] = ioPc[j]
         /\ ioPc'[i] = "done" => ~running[i] /\ queue[i] = << >>
<1> USE DEF LifecycleInvariant, LifecycleTypes, LoopPcs, Alive, GoTo, Turn
<1>1. CASE IoTake(i)
  BY <1>1 DEF IoTake
<1>2. CASE IoDayRollover(i)
  BY <1>2 DEF IoDayRollover
<1>3. CASE IoPurge(i)
  BY <1>3 DEF IoPurge
<1>4. CASE IoRename(i)
  BY <1>4 DEF IoRename
<1>5. CASE IoReopen(i)
  BY <1>5 DEF IoReopen
<1>6. CASE IoWrite(i)
  BY <1>6 DEF IoWrite
<1>7. CASE IoCheck(i)
  BY <1>7 DEF IoCheck
<1> QED
  BY <1>1, <1>2, <1>3, <1>4, <1>5, <1>6, <1>7 DEF IoLoop

LEMMA LifecycleBegins == Init => LifecycleInvariant
BY LoggerAssumption
   DEF Init, LifecycleInvariant, LifecycleTypes, Lifecycles, Idle, LoopPcs, Alive, Terminated

LEMMA LifecycleSteps == LifecycleInvariant /\ [Next]_vars => LifecycleInvariant'
<1> SUFFICES ASSUME LifecycleInvariant, [Next]_vars PROVE LifecycleInvariant'
  OBVIOUS
<1> USE DEF LifecycleInvariant, LifecycleTypes, Alive, Terminated
<1>0. /\ Idle \in Lifecycles /\ Idle.pc = "idle"
      /\ [pc |-> "terminated"] \in Lifecycles
      /\ \A i \in Impls : /\ [pc |-> "join", impl |-> i] \in Lifecycles
                          /\ [pc |-> "assign", impl |-> i] \in Lifecycles
  BY DEF Lifecycles, Idle
<1>1. CASE UNCHANGED <<gImpl, lifecycle, running, ioPc>>
  BY <1>1
<1>2. ASSUME NEW i \in Impls, StartSession(i) PROVE LifecycleInvariant'
  <2>1. /\ lifecycle = Idle /\ i # gImpl /\ lifecycle' = [pc |-> "assign", impl |-> i]
        /\ running' = [running EXCEPT ![i] = TRUE] /\ ioPc' = [ioPc EXCEPT ![i] = "wait"]
        /\ gImpl' = gImpl
    BY <1>2 DEF StartSession
  <2>2. LifecycleTypes'
    BY <1>0, <2>1 DEF LoopPcs
  <2> QED
    BY <1>0, <2>1, <2>2
<1>3. CASE AssignImpl
  <2>1. /\ lifecycle.pc = "assign" /\ gImpl' = lifecycle.impl /\ ioPc' = ioPc
        /\ lifecycle' = IF gImpl = NoImpl THEN Idle ELSE [pc |-> "join", impl |-> gImpl]
        /\ running' = [i \in Impls |-> running[i] /\ i # gImpl]
    BY <1>3 DEF AssignImpl, Destroyed, ioVars
  <2>2. lifecycle.impl \in Impls
    BY <2>1, PcsOfLifecycles DEF Idle
  <2>3. LifecycleTypes'
    BY <1>0, <2>1, <2>2
  <2> QED
    BY <1>0, <2>1, <2>2, <2>3, LoggerAssumption
<1>4. CASE Shutdown
  <2>1. /\ lifecycle = Idle /\ gImpl # NoImpl /\ gImpl' = NoImpl /\ ioPc' = ioPc
        /\ lifecycle' = [pc |-> "join", impl |-> gImpl]
        /\ running' = [i \in Impls |-> running[i] /\ i # gImpl]
    BY <1>4 DEF Shutdown, Destroyed, ioVars
  <2>2. LifecycleTypes'
    BY <1>0, <2>1
  <2> QED
    BY <1>0, <2>1, <2>2
<1>5. CASE Joined
  <2>1. /\ lifecycle.pc = "join" /\ lifecycle' = Idle
        /\ ioPc' = [ioPc EXCEPT ![lifecycle.impl] = "none"]
        /\ UNCHANGED <<gImpl, running>>
    BY <1>5 DEF Joined
  <2>2. lifecycle.impl \in Impls
    BY <2>1, PcsOfLifecycles DEF Idle
  <2>3. LifecycleTypes'
    BY <1>0, <2>1, <2>2 DEF LoopPcs
  <2> QED
    BY <1>0, <2>1, <2>2, <2>3
<1>6. ASSUME NEW i \in Impls, IoRenameThrows(i) PROVE LifecycleInvariant'
  <2>1. /\ gImpl' = NoImpl /\ lifecycle' = [pc |-> "terminated"]
        /\ ioPc' = [j \in Impls |-> "none"] /\ running' = running
    BY <1>6 DEF IoRenameThrows
  <2> QED
    BY <1>0, <2>1 DEF LoopPcs
<1>7. ASSUME NEW i \in Impls, IoLoop(i), ~IoRenameThrows(i) PROVE LifecycleInvariant'
  <2>1. /\ UNCHANGED <<gImpl, lifecycle, running>> /\ Alive(i)
        /\ ioPc' \in [Impls -> LoopPcs]
        /\ \A j \in Impls \ {i} : ioPc'[j] = ioPc[j]
        /\ ioPc'[i] = "done" => ~running[i]
    BY <1>7, LoopSteps DEF OwnerVars
  <2> QED
    BY <2>1
<1>8. CASE (\E i \in Impls : Write(i)) \/ WriteToStderr \/ NextDay \/ UNCHANGED vars
  BY <1>1, <1>8 DEF Write, WriteToStderr, NextDay, vars, ioVars
<1> QED
  BY <1>2, <1>3, <1>4, <1>5, <1>6, <1>7, <1>8 DEF Next

---------------------------------------------------------------------------
(* The records, from the queue to write_record().                          *)
Outcomes == [record : Nat, day : Nat, file : Nat]
Settled(i) == [k \in DOMAIN outcome[i] |-> outcome[i][k].record]

RecordTypes ==
  /\ logged \in Nat
  /\ queue \in [Impls -> Seq(Nat)] /\ batch \in [Impls -> Seq(Nat)]
  /\ accepted \in [Impls -> Seq(Nat)]
  /\ outcome \in [Impls -> Seq(Outcomes)]

Paths == [day : Nat, part : {"log", "log.1"}]

DiskTypes ==
  /\ today \in Nat
  /\ currentDate \in [Impls -> Nat] /\ bytes \in [Impls -> Nat]
  /\ contents \in Seq(Seq(Nat))
  /\ stream \in [Impls -> Nat] /\ \A i \in Impls : stream[i] <= Len(contents)
  /\ \A p \in DOMAIN names :
       /\ p \in Paths
       /\ names[p] \in 1 .. Len(contents)
       /\ p.part = "log" => p.day <= today

(* Files are only ever created and appended to.                            *)
Grown(old, new) ==
  /\ Len(old) <= Len(new)
  /\ \A f \in 1 .. Len(old) :
       /\ Len(old[f]) <= Len(new[f])
       /\ \A n \in DOMAIN old[f] : n \in DOMAIN new[f] /\ new[f][n] = old[f][n]

BatchOnlyWhileWriting ==
  \A i \in Impls :
    /\ ioPc[i] \in {"purge", "record", "reopen"} => batch[i] # << >>
    /\ ~Terminated /\ ioPc[i] \in {"none", "wait", "done"} => batch[i] = << >>

InOrder == \A i \in Impls : Settled(i) \o batch[i] \o queue[i] = accepted[i]

RecordInvariant ==
  /\ RecordTypes /\ DiskTypes /\ BatchOnlyWhileWriting /\ InOrder
  /\ \A i \in Impls : ioPc[i] = "done" => queue[i] = << >>

LEMMA RecordsAssociate ==
  ASSUME NEW s \in Seq(Nat), NEW q \in Seq(Nat), NEW r \in Seq(Nat)
  PROVE  (s \o q) \o r = s \o (q \o r)
BY SMTT(30)

LEMMA RecordJoins ==
  ASSUME NEW s \in Seq(Nat), NEW q \in Seq(Nat), NEW k \in Nat
  PROVE  s \o Append(q, k) = Append(s \o q, k)
<1>1. <<k>> \in Seq(Nat) /\ s \o q \in Seq(Nat)
  BY ConcatProperties
<1>2. Append(q, k) = q \o <<k>> /\ Append(s \o q, k) = (s \o q) \o <<k>>
  BY <1>1, AppendIsConcat
<1>3. s \o (q \o <<k>>) = (s \o q) \o <<k>>
  BY <1>1, RecordsAssociate, Zenon
<1> QED
  BY <1>2, <1>3

LEMMA RecordMoves ==
  ASSUME NEW h \in Seq(Nat), NEW b \in Seq(Nat), b # << >>
  PROVE  /\ Append(h, Head(b)) \in Seq(Nat) /\ Tail(b) \in Seq(Nat)
         /\ Append(h, Head(b)) \o Tail(b) = h \o b
<1>1. /\ Head(b) \in Nat /\ Tail(b) \in Seq(Nat) /\ <<Head(b)>> \in Seq(Nat)
      /\ <<Head(b)>> \o Tail(b) = b
  BY HeadTailProperties
<1>2. Append(h, Head(b)) = h \o <<Head(b)>> /\ Append(h, Head(b)) \in Seq(Nat)
  BY <1>1, AppendIsConcat, AppendProperties
<1>3. (h \o <<Head(b)>>) \o Tail(b) = h \o (<<Head(b)>> \o Tail(b))
  BY <1>1, RecordsAssociate, Zenon
<1> QED
  BY <1>1, <1>2, <1>3

LEMMA RecordsOfOutcomes ==
  ASSUME NEW o \in Seq(Outcomes)
  PROVE  /\ [k \in DOMAIN o |-> o[k].record] \in Seq(Nat)
         /\ Len([k \in DOMAIN o |-> o[k].record]) = Len(o)
<1>1. \A x \in Outcomes : x.record \in Nat
  BY DEF Outcomes
<1>2. /\ Len(o) \in Nat /\ DOMAIN o = 1 .. Len(o)
      /\ \A k \in 1 .. Len(o) : o[k].record \in Nat
  BY <1>1
<1> QED
  BY <1>2

LEMMA RecordSettles ==
  ASSUME NEW o \in Seq(Outcomes), NEW e \in Outcomes
  PROVE  [k \in DOMAIN Append(o, e) |-> Append(o, e)[k].record]
           = Append([k \in DOMAIN o |-> o[k].record], e.record)
<1> DEFINE s == [k \in DOMAIN o |-> o[k].record]
           a == Append(o, e)
           t == [k \in DOMAIN a |-> a[k].record]
<1>1. Len(o) \in Nat /\ DOMAIN o = 1 .. Len(o) /\ s \in Seq(Nat) /\ Len(s) = Len(o)
  BY RecordsOfOutcomes
<1>2. /\ a \in Seq(Outcomes) /\ Len(a) = Len(o) + 1
      /\ a[Len(o) + 1] = e
      /\ \A k \in 1 .. Len(o) : a[k] = o[k]
  BY <1>1, AppendProperties
<1>3. t \in Seq(Nat) /\ Len(t) = Len(o) + 1 /\ DOMAIN a = 1 .. Len(o) + 1
  <2> HIDE DEF a
  <2>1. /\ [k \in DOMAIN a |-> a[k].record] \in Seq(Nat)
        /\ Len([k \in DOMAIN a |-> a[k].record]) = Len(a)
    BY <1>2, RecordsOfOutcomes, Zenon
  <2>2. DOMAIN a = 1 .. Len(a)
    BY <1>2
  <2> QED
    BY <1>1, <1>2, <2>1, <2>2
<1>4. e.record \in Nat
  BY DEF Outcomes
<1>5. /\ Append(s, e.record) \in Seq(Nat) /\ Len(Append(s, e.record)) = Len(o) + 1
      /\ Append(s, e.record)[Len(o) + 1] = e.record
      /\ \A k \in 1 .. Len(o) : Append(s, e.record)[k] = s[k]
  <2> HIDE DEF s
  <2> QED
    BY <1>1, <1>4, AppendProperties
<1>6. \A k \in 1 .. Len(o) + 1 : t[k] = Append(s, e.record)[k]
  <2> SUFFICES ASSUME NEW k \in 1 .. Len(o) + 1 PROVE t[k] = Append(s, e.record)[k]
    OBVIOUS
  <2>1. t[k] = a[k].record
    BY <1>3
  <2>2. CASE k = Len(o) + 1
    BY <1>2, <1>5, <2>1, <2>2
  <2>3. CASE k \in 1 .. Len(o)
    <3>1. s[k] = o[k].record
      BY <1>1, <2>3
    <3> QED
      BY <1>2, <1>5, <2>1, <2>3, <3>1
  <2> QED
    BY <1>1, <2>2, <2>3
<1>7. t = Append(s, e.record)
  <2> HIDE DEF s, t
  <2> QED
    BY <1>3, <1>5, <1>6, SeqEqual
<1> QED
  BY <1>7

LEMMA RecordsBegin == Init => RecordInvariant
<1> SUFFICES ASSUME Init PROVE RecordInvariant
  OBVIOUS
<1>1. << >> \in Seq(Nat) /\ << >> \in Seq(Outcomes) /\ << >> \o << >> \o << >> = << >>
  BY EmptySeq, ConcatEmptySeq
<1>2. \A i \in Impls : Settled(i) = << >>
  <2> SUFFICES ASSUME NEW i \in Impls PROVE Settled(i) = << >>
    OBVIOUS
  <2>1. outcome[i] = << >>
    BY DEF Init
  <2> QED
    BY <2>1 DEF Settled
<1> QED
  BY <1>1, <1>2, EmptySeq
     DEF Init, RecordInvariant, RecordTypes, DiskTypes, NoFile, BatchOnlyWhileWriting, InOrder

LEMMA NothingLost ==
  ASSUME NEW c \in Seq(Seq(Nat))
  PROVE  Grown(c, c)
BY DEF Grown

LEMMA WrittenToFile ==
  ASSUME contents \in Seq(Seq(Nat)), NEW f \in 1 .. Len(contents), NEW r \in Nat,
         contents' = [contents EXCEPT ![f] = Append(@, r)]
  PROVE  /\ contents' \in Seq(Seq(Nat)) /\ Len(contents') = Len(contents)
         /\ Grown(contents, contents')
         /\ Len(contents'[f]) = Len(contents[f]) + 1
         /\ \E n \in DOMAIN contents'[f] : contents'[f][n] = r
<1> DEFINE longer == Append(contents[f], r)
<1>1. \A g \in 1 .. Len(contents) : /\ contents[g] \in Seq(Nat) /\ Len(contents[g]) \in Nat
                                    /\ DOMAIN contents[g] = 1 .. Len(contents[g])
  OBVIOUS
<1>2. /\ longer \in Seq(Nat) /\ Len(longer) = Len(contents[f]) + 1
      /\ DOMAIN longer = 1 .. Len(contents[f]) + 1
      /\ longer[Len(contents[f]) + 1] = r
      /\ \A n \in 1 .. Len(contents[f]) : longer[n] = contents[f][n]
  BY <1>1, AppendProperties
<1>3. /\ contents' \in Seq(Seq(Nat)) /\ Len(contents') = Len(contents)
      /\ contents'[f] = longer
      /\ \A g \in 1 .. Len(contents) : g # f => contents'[g] = contents[g]
  BY <1>2
<1> HIDE DEF longer
<1>4. ASSUME NEW g \in 1 .. Len(contents)
      PROVE  /\ Len(contents[g]) <= Len(contents'[g])
             /\ \A n \in DOMAIN contents[g] :
                  n \in DOMAIN contents'[g] /\ contents'[g][n] = contents[g][n]
  <2>1. CASE g = f
    <3>1. contents'[g] = longer /\ contents[g] = contents[f]
      BY <1>3, <2>1
    <3>2. /\ Len(contents[f]) <= Len(longer)
          /\ \A n \in DOMAIN contents[f] : n \in DOMAIN longer /\ longer[n] = contents[f][n]
      <4>1. DOMAIN contents[f] = 1 .. Len(contents[f]) /\ Len(contents[f]) \in Nat
        BY <1>1
      <4>2. /\ Len(contents[f]) <= Len(contents[f]) + 1
            /\ \A n \in 1 .. Len(contents[f]) : n \in 1 .. Len(contents[f]) + 1
        BY <4>1
      <4> QED
        BY <1>2, <4>1, <4>2, Zenon
    <3> QED
      BY <3>1, <3>2
  <2>2. CASE g # f
    BY <1>1, <1>3, <2>2
  <2> QED
    BY <2>1, <2>2
<1>5. Grown(contents, contents')
  <2>1. Len(contents) \in Nat /\ Len(contents) <= Len(contents')
    BY <1>3
  <2> QED
    BY <1>4, <2>1 DEF Grown
<1>6. Len(contents[f]) + 1 \in DOMAIN contents'[f]
  BY <1>1, <1>2, <1>3
<1> QED
  BY <1>2, <1>3, <1>5, <1>6

LEMMA NewFile ==
  ASSUME NEW c \in Seq(Seq(Nat))
  PROVE  /\ Append(c, << >>) \in Seq(Seq(Nat)) /\ Len(Append(c, << >>)) = Len(c) + 1
         /\ Grown(c, Append(c, << >>))
<1>1. << >> \in Seq(Nat)
  BY EmptySeq
<1>2. /\ Append(c, << >>) \in Seq(Seq(Nat)) /\ Len(Append(c, << >>)) = Len(c) + 1
      /\ \A g \in 1 .. Len(c) : Append(c, << >>)[g] = c[g]
  BY <1>1, AppendProperties
<1>3. \A g \in 1 .. Len(c) : c[g] \in Seq(Nat)
  OBVIOUS
<1> QED
  BY <1>2, <1>3 DEF Grown

(* Opening today's file: it is under its name, and the stream behind it,   *)
(* or the object has failed to open it.                                    *)
LEMMA OpenedIsNamed ==
  ASSUME DiskTypes, NEW i \in Impls, OpenLogFile(i), today' = today
  PROVE  /\ DiskTypes' /\ Grown(contents, contents')
         /\ currentDate' = [currentDate EXCEPT ![i] = today]
         /\ bytes' = [bytes EXCEPT ![i] = 0]
         /\ \A j \in Impls \ {i} : stream'[j] = stream[j]
         /\ failures \subseteq failures'
         /\ stream'[i] = NoFile => [impl |-> i, day |-> today] \in failures'
         /\ stream'[i] # NoFile => /\ DayFile(today) \in DOMAIN names'
                                  /\ names'[DayFile(today)] = stream'[i]
         /\ DOMAIN names \subseteq DOMAIN names'
         /\ DOMAIN names' \subseteq DOMAIN names \cup {DayFile(today)}
         /\ \A p \in DOMAIN names : names'[p] = names[p]
<1> USE DEF DiskTypes
<1>1. /\ currentDate' = [currentDate EXCEPT ![i] = today]
      /\ bytes' = [bytes EXCEPT ![i] = 0]
  BY DEF OpenLogFile
<1>2. /\ DayFile(today) \in Paths /\ DayFile(today).day = today
  BY DEF DayFile, Paths
<1>3. CASE /\ DayFile(today) \in DOMAIN names
           /\ stream' = [stream EXCEPT ![i] = names[DayFile(today)]]
           /\ UNCHANGED <<names, contents, failures>>
  BY <1>1, <1>2, <1>3, NothingLost DEF NoFile
<1>4. CASE /\ DayFile(today) \notin DOMAIN names
           /\ contents' = Append(contents, << >>)
           /\ names' = WithName(names, DayFile(today), Len(contents'))
           /\ stream' = [stream EXCEPT ![i] = Len(contents')]
           /\ UNCHANGED failures
  <2>1. /\ contents' \in Seq(Seq(Nat)) /\ Len(contents') = Len(contents) + 1
        /\ Grown(contents, contents')
    BY <1>4, NewFile
  <2>2. /\ DOMAIN names' = DOMAIN names \cup {DayFile(today)}
        /\ names'[DayFile(today)] = Len(contents')
        /\ \A p \in DOMAIN names : names'[p] = names[p]
    BY <1>4 DEF WithName
  <2>3. Len(contents) \in Nat
    OBVIOUS
  <2> QED
    BY <1>1, <1>2, <1>4, <2>1, <2>2, <2>3 DEF NoFile
<1>5. CASE /\ stream' = [stream EXCEPT ![i] = NoFile]
           /\ failures' = failures \cup {[impl |-> i, day |-> today]}
           /\ UNCHANGED <<names, contents>>
  BY <1>1, <1>5, NothingLost DEF NoFile
<1> QED
  BY <1>3, <1>4, <1>5 DEF OpenLogFile

LEMMA DiskSteps ==
  LifecycleInvariant /\ RecordInvariant /\ [Next]_vars
    => DiskTypes' /\ Grown(contents, contents')
<1> SUFFICES ASSUME LifecycleInvariant, RecordInvariant, [Next]_vars
             PROVE  DiskTypes' /\ Grown(contents, contents')
  OBVIOUS
<1> USE DEF RecordInvariant
<1>1. CASE UNCHANGED <<streamVars, diskVars, today>>
  BY <1>1, NothingLost DEF DiskTypes, streamVars, diskVars
<1>2. ASSUME NEW i \in Impls, OpenLogFile(i), today' = today
      PROVE  DiskTypes' /\ Grown(contents, contents')
  BY <1>2, OpenedIsNamed
<1>3. CASE Joined
  <2>1. /\ stream' = [stream EXCEPT ![lifecycle.impl] = NoFile]
        /\ UNCHANGED <<currentDate, bytes, names, contents, today>>
    BY <1>3 DEF Joined, diskVars
  <2>0. lifecycle.impl \in Impls
    BY <1>3, PcsOfLifecycles DEF Joined, LifecycleInvariant, LifecycleTypes, Idle
  <2>2. stream' \in [Impls -> Nat] /\ \A i \in Impls : stream'[i] <= Len(contents)
    BY <2>0, <2>1 DEF DiskTypes, NoFile
  <2>3. Grown(contents, contents)
    BY NothingLost DEF DiskTypes
  <2> QED
    BY <2>1, <2>2, <2>3 DEF DiskTypes
<1>4. ASSUME NEW i \in Impls, IoPurge(i) PROVE DiskTypes' /\ Grown(contents, contents')
  <2>1. names' = Purged(names) /\ UNCHANGED <<streamVars, contents, today>>
    BY <1>4 DEF IoPurge, OwnerVars
  <2>2. \A p \in DOMAIN names' : p \in DOMAIN names /\ names'[p] = names[p]
    BY <2>1 DEF Purged, Only
  <2> QED
    BY <2>1, <2>2, NothingLost DEF DiskTypes, streamVars
<1>5. ASSUME NEW i \in Impls, IoRename(i) PROVE DiskTypes' /\ Grown(contents, contents')
  <2>1. /\ names' = Renamed(names, currentDate[i]) /\ DayFile(currentDate[i]) \in DOMAIN names
        /\ stream' = [stream EXCEPT ![i] = NoFile]
        /\ UNCHANGED <<currentDate, bytes, contents, today>>
    BY <1>5 DEF IoRename, CurrentFile, OwnerVars
  <2>2. RotatedFile(currentDate[i]) \in Paths /\ RotatedFile(currentDate[i]).part # "log"
    BY DEF RotatedFile, Paths, DiskTypes
  <2>3. \A p \in DOMAIN names' :
          \/ p = RotatedFile(currentDate[i]) /\ names'[p] = names[DayFile(currentDate[i])]
          \/ p \in DOMAIN names /\ names'[p] = names[p]
    BY <2>1 DEF Renamed, WithName, Only
  <2> QED
    BY <2>1, <2>2, <2>3, NothingLost DEF DiskTypes, NoFile
<1>6. ASSUME NEW i \in Impls, IoRenameThrows(i) PROVE DiskTypes' /\ Grown(contents, contents')
  BY <1>6, NothingLost DEF IoRenameThrows, DiskTypes, NoFile, diskVars
<1>7. ASSUME NEW i \in Impls, IoWrite(i) PROVE DiskTypes' /\ Grown(contents, contents')
  <2>1. CASE stream[i] = NoFile
    <3>1. UNCHANGED <<streamVars, diskVars, today>>
      BY <1>7, <2>1 DEF IoWrite, OwnerVars, streamVars, diskVars
    <3> QED
      BY <1>1, <3>1
  <2>2. CASE stream[i] # NoFile
    <3>1. /\ contents' = [contents EXCEPT ![stream[i]] = Append(@, Head(batch[i]))]
          /\ bytes' = [bytes EXCEPT ![i] = @ + 1]
          /\ UNCHANGED <<currentDate, stream, names, today>>
      BY <1>7, <2>2 DEF IoWrite, OwnerVars
    <3>2. batch[i] # << >>
      BY <1>7 DEF IoWrite, Turn, BatchOnlyWhileWriting
    <3>3. stream[i] \in 1 .. Len(contents) /\ Head(batch[i]) \in Nat
      BY <2>2, <3>2, HeadTailProperties DEF DiskTypes, NoFile, RecordTypes
    <3>4. /\ contents' \in Seq(Seq(Nat)) /\ Len(contents') = Len(contents)
          /\ Grown(contents, contents')
      BY <3>1, <3>3, WrittenToFile DEF DiskTypes
    <3> QED
      BY <3>1, <3>4 DEF DiskTypes
  <2> QED
    BY <2>1, <2>2
<1>8. CASE NextDay
  <2>1. today' = today + 1 /\ UNCHANGED <<streamVars, diskVars>>
    BY <1>8 DEF NextDay
  <2> QED
    BY <2>1, NothingLost DEF DiskTypes, Paths, streamVars, diskVars
<1>9. ASSUME NEW i \in Impls, StartSession(i) \/ IoDayRollover(i) \/ IoReopen(i)
      PROVE  OpenLogFile(i) /\ today' = today
  BY <1>9 DEF StartSession, IoDayRollover, IoReopen, OwnerVars
<1>10. ASSUME NEW i \in Impls, Write(i) \/ IoTake(i) \/ IoCheck(i)
       PROVE  UNCHANGED <<streamVars, diskVars, today>>
  BY <1>10 DEF Write, IoTake, IoCheck, OwnerVars
<1>11. ASSUME WriteToStderr \/ AssignImpl \/ Shutdown \/ UNCHANGED vars
       PROVE  UNCHANGED <<streamVars, diskVars, today>>
  BY <1>11 DEF WriteToStderr, AssignImpl, Shutdown, Destroyed, vars
<1> QED
  BY <1>1, <1>2, <1>3, <1>4, <1>5, <1>6, <1>7, <1>8, <1>9, <1>10, <1>11 DEF Next, IoLoop

LEMMA RecordSteps ==
  LifecycleInvariant /\ RecordInvariant /\ [Next]_vars => RecordInvariant'
<1> SUFFICES ASSUME LifecycleInvariant, RecordInvariant, [Next]_vars PROVE RecordInvariant'
  OBVIOUS
<1> USE DEF RecordInvariant, RecordTypes, BatchOnlyWhileWriting, Terminated
<1>d. DiskTypes'
  BY DiskSteps
<1>t. \A i \in Impls : /\ Settled(i) \in Seq(Nat)
                       /\ (UNCHANGED outcome => Settled(i)' = Settled(i))
  <2> SUFFICES ASSUME NEW i \in Impls PROVE Settled(i) \in Seq(Nat)
    BY DEF Settled
  <2> DEFINE o == outcome[i]
  <2>1. o \in Seq(Outcomes)
    OBVIOUS
  <2>2. [k \in DOMAIN o |-> o[k].record] \in Seq(Nat)
    BY <2>1, RecordsOfOutcomes
  <2> QED
    BY <2>2 DEF Settled
<1>o. ASSUME UNCHANGED <<queue, batch, accepted, outcome>> PROVE InOrder'
  <2> SUFFICES ASSUME NEW j \in Impls
               PROVE  (Settled(j) \o batch[j] \o queue[j] = accepted[j])'
    BY DEF InOrder
  <2>1. Settled(j)' = Settled(j)
    BY <1>t, <1>o
  <2> QED
    BY <1>o, <2>1 DEF InOrder
<1>1. ASSUME NEW i \in Impls, Write(i) PROVE RecordInvariant'
  <2>1. CASE Len(queue[i]) < QueueLimit
    <3>1. /\ queue' = [queue EXCEPT ![i] = Append(@, logged')]
          /\ accepted' = [accepted EXCEPT ![i] = Append(@, logged')]
          /\ logged' = logged + 1 /\ gImpl = i
          /\ UNCHANGED <<lifecycle, running, ioPc, batch, outcome>>
      BY <1>1, <2>1 DEF Write
    <3>2. Settled(i) \o batch[i] \in Seq(Nat) /\ queue[i] \in Seq(Nat) /\ logged' \in Nat
      BY <1>t, <3>1, ConcatProperties
    <3>3. /\ (Settled(i) \o batch[i]) \o Append(queue[i], logged')
                = Append((Settled(i) \o batch[i]) \o queue[i], logged')
      BY <3>2, RecordJoins
    <3>4. queue' \in [Impls -> Seq(Nat)] /\ accepted' \in [Impls -> Seq(Nat)]
      BY <3>1, <3>2, AppendProperties
    <3>5. ioPc[i] # "done"
      BY <3>1, LoggerAssumption DEF LifecycleInvariant, LifecycleTypes
    <3>6. InOrder'
      <4> SUFFICES ASSUME NEW j \in Impls
                   PROVE  (Settled(j) \o batch[j] \o queue[j] = accepted[j])'
        BY DEF InOrder
      <4> QED
        BY <1>t, <3>1, <3>3 DEF InOrder
    <3> QED
      BY <1>d, <3>1, <3>2, <3>4, <3>5, <3>6
  <2>2. CASE ~(Len(queue[i]) < QueueLimit)
    <3>1. /\ logged' = logged + 1
          /\ UNCHANGED <<lifecycle, running, ioPc, queue, batch, accepted, outcome>>
      BY <1>1, <2>2 DEF Write
    <3> QED
      BY <1>d, <1>o, <3>1
  <2> QED
    BY <2>1, <2>2
<1>2. ASSUME NEW i \in Impls, StartSession(i) PROVE RecordInvariant'
  <2>1. /\ ioPc' = [ioPc EXCEPT ![i] = "wait"] /\ lifecycle' = [pc |-> "assign", impl |-> i]
        /\ lifecycle = Idle /\ i # gImpl
        /\ UNCHANGED <<queue, batch, logged, accepted, outcome>>
    BY <1>2 DEF StartSession
  <2>2. batch[i] = << >>
    BY <2>1 DEF LifecycleInvariant, LifecycleTypes, Alive, Idle
  <2> QED
    BY <1>d, <1>o, <2>1, <2>2 DEF LifecycleInvariant, LifecycleTypes, Idle
<1>3. CASE Joined
  <2>1. /\ lifecycle.pc = "join" /\ ioPc[lifecycle.impl] = "done" /\ lifecycle' = Idle
        /\ ioPc' = [ioPc EXCEPT ![lifecycle.impl] = "none"]
        /\ queue' = [queue EXCEPT ![lifecycle.impl] = << >>]
        /\ UNCHANGED <<batch, logged, accepted, outcome>>
    BY <1>3 DEF Joined, historyVars
  <2>2. lifecycle.impl \in Impls
    BY <2>1, PcsOfLifecycles DEF LifecycleInvariant, LifecycleTypes, Idle
  <2>3. queue' = queue
    BY <2>1, <2>2
  <2> QED
    BY <1>d, <1>o, <2>1, <2>2, <2>3 DEF LifecycleInvariant, LifecycleTypes, Idle
<1>4. ASSUME NEW i \in Impls, IoTake(i) PROVE RecordInvariant'
  <2>1. /\ ioPc[i] = "wait" /\ ioPc' = [ioPc EXCEPT ![i] = "write"]
        /\ batch' = [batch EXCEPT ![i] = queue[i]] /\ queue' = [queue EXCEPT ![i] = << >>]
        /\ UNCHANGED <<lifecycle, logged, accepted, outcome>>
    BY <1>4 DEF IoTake, GoTo, OwnerVars
  <2>2. batch[i] = << >>
    BY <2>1 DEF LifecycleInvariant, Alive
  <2>3. Settled(i) \o << >> \o queue[i] = Settled(i) \o queue[i] \o << >>
    BY <1>t, ConcatProperties, ConcatEmptySeq
  <2>4. queue' \in [Impls -> Seq(Nat)] /\ batch' \in [Impls -> Seq(Nat)]
    BY <2>1, EmptySeq
  <2>5. InOrder'
    <3> SUFFICES ASSUME NEW j \in Impls
                 PROVE  (Settled(j) \o batch[j] \o queue[j] = accepted[j])'
      BY DEF InOrder
    <3> QED
      BY <1>t, <2>1, <2>2, <2>3 DEF InOrder
  <2> QED
    BY <1>d, <2>1, <2>4, <2>5 DEF LifecycleInvariant, LifecycleTypes
<1>5. ASSUME NEW i \in Impls, IoWrite(i) PROVE RecordInvariant'
  <2> DEFINE e == [record |-> Head(batch[i]), day |-> currentDate[i], file |-> stream[i]]
  <2>1. /\ ioPc[i] \in {"record", "write"} /\ ioPc' = [ioPc EXCEPT ![i] = "write"]
        /\ batch[i] # << >>
        /\ outcome' = [outcome EXCEPT ![i] = Append(@, e)]
        /\ batch' = [batch EXCEPT ![i] = Tail(@)]
        /\ UNCHANGED <<lifecycle, queue, logged, accepted>>
    BY <1>5 DEF IoWrite, Turn, GoTo, OwnerVars
  <2>2. /\ Append(Settled(i), Head(batch[i])) \in Seq(Nat) /\ Tail(batch[i]) \in Seq(Nat)
        /\ Append(Settled(i), Head(batch[i])) \o Tail(batch[i]) = Settled(i) \o batch[i]
    BY <1>t, <2>1, RecordMoves
  <2>3. e \in Outcomes /\ e.record = Head(batch[i])
    BY <2>1, HeadTailProperties DEF Outcomes, DiskTypes
  <2>4. Settled(i)' = Append(Settled(i), Head(batch[i])) /\ outcome' \in [Impls -> Seq(Outcomes)]
    <3>1. outcome[i] \in Seq(Outcomes) /\ outcome'[i] = Append(outcome[i], e)
      BY <2>1
    <3>2. Append(outcome[i], e) \in Seq(Outcomes)
      BY <2>3, <3>1, AppendProperties
    <3>3. [k \in DOMAIN Append(outcome[i], e) |-> Append(outcome[i], e)[k].record]
            = Append([k \in DOMAIN outcome[i] |-> outcome[i][k].record], e.record)
      BY <2>3, <3>1, RecordSettles
    <3> HIDE DEF e
    <3> QED
      BY <2>1, <2>3, <3>1, <3>2, <3>3 DEF Settled
  <2>5. InOrder'
    <3> SUFFICES ASSUME NEW j \in Impls
                 PROVE  (Settled(j) \o batch[j] \o queue[j] = accepted[j])'
      BY DEF InOrder
    <3>1. CASE j = i
      BY <2>1, <2>2, <2>4, <3>1 DEF InOrder
    <3>2. CASE j # i
      <4>1. Settled(j)' = Settled(j)
        BY <2>1, <3>2 DEF Settled
      <4> QED
        BY <2>1, <3>2, <4>1 DEF InOrder
    <3> QED
      BY <3>1, <3>2
  <2>6. /\ Alive(i) /\ ioPc \in [Impls -> LoopPcs]
        /\ (lifecycle.pc = "terminated" => ~Alive(i))
    BY <2>1 DEF LifecycleInvariant, LifecycleTypes, Alive
  <2>7. batch' \in [Impls -> Seq(Nat)]
    BY <2>1, <2>2
  <2> HIDE DEF e
  <2> QED
    BY <1>d, <2>1, <2>4, <2>5, <2>6, <2>7 DEF Alive
<1>6. ASSUME NEW i \in Impls,
             IoDayRollover(i) \/ IoPurge(i) \/ IoRename(i) \/ IoReopen(i) \/ IoCheck(i)
      PROVE  RecordInvariant'
  <2>1. /\ UNCHANGED <<lifecycle, queue, batch, logged, accepted, outcome>>
        /\ \E pc \in LoopPcs :
             /\ ioPc' = [ioPc EXCEPT ![i] = pc]
             /\ pc \in {"purge", "record", "reopen"} => batch[i] # << >>
             /\ pc \in {"none", "wait", "done"} => batch[i] = << >>
             /\ pc = "done" => queue[i] = << >>
    BY <1>6 DEF IoDayRollover, IoPurge, IoRename, IoReopen, IoCheck, Turn, GoTo, OwnerVars, LoopPcs
  <2> QED
    BY <1>d, <1>o, <2>1 DEF LifecycleInvariant, LifecycleTypes
<1>7. ASSUME NEW i \in Impls, IoRenameThrows(i) PROVE RecordInvariant'
  <2>1. /\ UNCHANGED <<queue, batch, logged, accepted, outcome>>
        /\ lifecycle' = [pc |-> "terminated"] /\ ioPc' = [j \in Impls |-> "none"]
    BY <1>7 DEF IoRenameThrows, historyVars
  <2> QED
    BY <1>d, <1>o, <2>1
<1>8. ASSUME WriteToStderr \/ AssignImpl \/ Shutdown \/ NextDay \/ UNCHANGED vars
      PROVE  RecordInvariant'
  <2>1. /\ UNCHANGED <<ioPc, queue, batch, accepted, outcome>> /\ logged' \in Nat
        /\ (lifecycle.pc = "terminated" => lifecycle' = lifecycle)
    BY <1>8 DEF WriteToStderr, AssignImpl, Shutdown, NextDay, Destroyed, vars, ioVars, historyVars, Idle
  <2> QED
    BY <1>d, <1>o, <2>1
<1> QED
  BY <1>1, <1>2, <1>3, <1>4, <1>5, <1>6, <1>7, <1>8 DEF Next, IoLoop

---------------------------------------------------------------------------
(* The files.  A stream that is not open belongs to nobody, to a rollover  *)
(* in progress, or to an object that has failed to open its file.          *)
StreamsKnown ==
  \A i \in Impls :
    /\ ioPc[i] = "none" => stream[i] = NoFile
    /\ ioPc[i] \notin {"none", "reopen"} /\ stream[i] = NoFile =>
         [impl |-> i, day |-> currentDate[i]] \in failures

(* Where write_record() has put a record.                                  *)
Placed(i, e) ==
  IF e.file = NoFile THEN [impl |-> i, day |-> e.day] \in failures
  ELSE /\ e.file \in 1 .. Len(contents)
       /\ \E n \in DOMAIN contents[e.file] : contents[e.file][n] = e.record

OutcomesPlaced == \A i \in Impls : \A k \in DOMAIN outcome[i] : Placed(i, outcome[i][k])

FileInvariant == StreamsKnown /\ OutcomesPlaced

LEMMA StaysPlaced ==
  ASSUME NEW i, NEW e, Placed(i, e), contents \in Seq(Seq(Nat)), contents' \in Seq(Seq(Nat)),
         Grown(contents, contents'), failures \subseteq failures'
  PROVE  Placed(i, e)'
<1>1. CASE e.file = NoFile
  BY <1>1 DEF Placed
<1>2. CASE e.file # NoFile
  <2>1. /\ e.file \in 1 .. Len(contents)
        /\ \E n \in DOMAIN contents[e.file] : contents[e.file][n] = e.record
    BY <1>2 DEF Placed
  <2>2. \A n \in DOMAIN contents[e.file] :
          n \in DOMAIN contents'[e.file] /\ contents'[e.file][n] = contents[e.file][n]
    BY <2>1 DEF Grown
  <2>3. e.file \in 1 .. Len(contents')
    BY <2>1 DEF Grown
  <2> QED
    BY <1>2, <2>1, <2>2, <2>3 DEF Placed
<1> QED
  BY <1>1, <1>2

LEMMA FileSteps ==
  LifecycleInvariant /\ RecordInvariant /\ FileInvariant /\ [Next]_vars => FileInvariant'
<1> SUFFICES ASSUME LifecycleInvariant, RecordInvariant, FileInvariant, [Next]_vars
             PROVE  FileInvariant'
  OBVIOUS
<1> USE DEF RecordInvariant
<1>d. /\ DiskTypes' /\ Grown(contents, contents')
      /\ contents \in Seq(Seq(Nat)) /\ contents' \in Seq(Seq(Nat))
  BY DiskSteps DEF DiskTypes
<1>p. \A i \in Impls : ioPc[i] \in LoopPcs
  BY DEF LifecycleInvariant, LifecycleTypes
<1>o. ASSUME outcome' = outcome, failures \subseteq failures' PROVE OutcomesPlaced'
  <2> SUFFICES ASSUME NEW i \in Impls, NEW k \in DOMAIN outcome[i]
               PROVE  Placed(i, outcome[i][k])'
    BY <1>o DEF OutcomesPlaced
  <2> DEFINE e == outcome[i][k]
  <2>1. Placed(i, e) /\ e' = e
    BY <1>o DEF FileInvariant, OutcomesPlaced
  <2>2. \A x : Placed(i, x) => Placed(i, x)'
    BY <1>d, <1>o, StaysPlaced
  <2> QED
    BY <2>1, <2>2 DEF Placed
<1>1. ASSUME NEW i \in Impls, OpenLogFile(i), today' = today, outcome' = outcome,
             ioPc'[i] # "none", \A j \in Impls \ {i} : ioPc'[j] = ioPc[j]
      PROVE  FileInvariant'
  <2>1. /\ currentDate' = [currentDate EXCEPT ![i] = today]
        /\ \A j \in Impls \ {i} : stream'[j] = stream[j]
        /\ failures \subseteq failures'
        /\ stream'[i] = NoFile => [impl |-> i, day |-> today] \in failures'
    BY <1>1, OpenedIsNamed
  <2>2. currentDate'[i] = today /\ \A j \in Impls \ {i} : currentDate'[j] = currentDate[j]
    BY <2>1 DEF DiskTypes
  <2>3. StreamsKnown'
    BY <1>1, <2>1, <2>2 DEF StreamsKnown, FileInvariant, NoFile
  <2> QED
    BY <1>o, <1>1, <2>1, <2>3 DEF FileInvariant
<1>2. ASSUME NEW i \in Impls, IoWrite(i) PROVE FileInvariant'
  <2>1. PICK e : e = [record |-> Head(batch[i]), day |-> currentDate[i], file |-> stream[i]]
    OBVIOUS
  <2>2. /\ ioPc[i] \in {"record", "write"} /\ ioPc' = [ioPc EXCEPT ![i] = "write"]
        /\ batch[i] # << >>
        /\ outcome' = [outcome EXCEPT ![i] = Append(@, e)]
        /\ UNCHANGED <<currentDate, stream, failures>>
    BY <1>2, <2>1 DEF IoWrite, Turn, GoTo, BatchOnlyWhileWriting
  <2>3. StreamsKnown'
    BY <1>p, <2>2 DEF StreamsKnown, FileInvariant
  <2>4. /\ e.file = stream[i] /\ e.day = currentDate[i] /\ e.record = Head(batch[i])
        /\ Head(batch[i]) \in Nat /\ e \in Outcomes
    BY <2>1, <2>2, HeadTailProperties DEF RecordTypes, DiskTypes, Outcomes
  <2>5. Placed(i, e)'
    <3>1. CASE stream[i] = NoFile
      <4>1. [impl |-> i, day |-> currentDate[i]] \in failures
        BY <2>2, <3>1 DEF StreamsKnown, FileInvariant
      <4> QED
        BY <2>2, <2>4, <3>1, <4>1 DEF Placed
    <3>2. CASE stream[i] # NoFile
      <4>1. contents' = [contents EXCEPT ![stream[i]] = Append(@, Head(batch[i]))]
        BY <1>2, <3>2 DEF IoWrite
      <4>2. stream[i] \in 1 .. Len(contents)
        BY <3>2 DEF DiskTypes, NoFile
      <4>3. /\ Len(contents') = Len(contents)
            /\ \E n \in DOMAIN contents'[stream[i]] : contents'[stream[i]][n] = Head(batch[i])
        BY <1>d, <2>4, <4>1, <4>2, WrittenToFile
      <4> QED
        BY <2>4, <3>2, <4>2, <4>3 DEF Placed
    <3> QED
      BY <3>1, <3>2
  <2>6. OutcomesPlaced'
    <3> SUFFICES ASSUME NEW j \in Impls, NEW k \in DOMAIN outcome'[j]
                 PROVE  Placed(j, outcome[j][k])'
      BY DEF OutcomesPlaced
    <3>0. PICK x : x = outcome'[j][k]
      OBVIOUS
    <3>1. /\ outcome[i] \in Seq(Outcomes) /\ outcome'[i] = Append(outcome[i], e)
          /\ \A y \in Impls \ {i} : outcome'[y] = outcome[y]
      BY <2>2 DEF RecordTypes
    <3>2. Placed(j, x) => Placed(j, x)'
      BY <1>d, <2>2, StaysPlaced
    <3>3. CASE j # i
      <4>1. Placed(j, x)
        BY <3>0, <3>1, <3>3 DEF FileInvariant, OutcomesPlaced
      <4> QED
        BY <3>0, <3>2, <4>1 DEF Placed
    <3>4. CASE j = i
      <4>1. /\ Len(outcome[i]) \in Nat /\ DOMAIN outcome[i] = 1 .. Len(outcome[i])
            /\ DOMAIN Append(outcome[i], e) = 1 .. Len(outcome[i]) + 1
            /\ Append(outcome[i], e)[Len(outcome[i]) + 1] = e
            /\ \A n \in 1 .. Len(outcome[i]) : Append(outcome[i], e)[n] = outcome[i][n]
        BY <2>4, <3>1, AppendProperties
      <4>2. CASE k = Len(outcome[i]) + 1
        <5>1. x = e
          BY <3>0, <3>1, <3>4, <4>1, <4>2
        <5> QED
          BY <2>5, <3>0, <3>4, <5>1 DEF Placed
      <4>3. CASE k # Len(outcome[i]) + 1
        <5>1. k \in DOMAIN outcome[i] /\ x = outcome[i][k]
          BY <3>0, <3>1, <3>4, <4>1, <4>3
        <5>2. Placed(j, x)
          BY <3>4, <5>1 DEF FileInvariant, OutcomesPlaced
        <5> QED
          BY <3>0, <3>2, <5>2 DEF Placed
      <4> QED
        BY <4>2, <4>3
    <3> QED
      BY <3>3, <3>4
  <2> QED
    BY <2>3, <2>6 DEF FileInvariant
<1>3. CASE Joined
  <2>1. lifecycle.impl \in Impls
    BY <1>3, PcsOfLifecycles DEF Joined, LifecycleInvariant, LifecycleTypes, Idle
  <2>2. /\ ioPc' = [ioPc EXCEPT ![lifecycle.impl] = "none"]
        /\ stream' = [stream EXCEPT ![lifecycle.impl] = NoFile]
        /\ UNCHANGED <<currentDate, outcome, failures>>
    BY <1>3 DEF Joined, historyVars
  <2>3. StreamsKnown'
    BY <1>p, <2>1, <2>2 DEF StreamsKnown, FileInvariant, DiskTypes, LifecycleInvariant, LifecycleTypes
  <2> QED
    BY <1>o, <2>2, <2>3 DEF FileInvariant
<1>4. ASSUME NEW i \in Impls, IoRename(i) PROVE FileInvariant'
  <2>1. /\ ioPc' = [ioPc EXCEPT ![i] = "reopen"] /\ ioPc[i] = "write"
        /\ stream' = [stream EXCEPT ![i] = NoFile]
        /\ UNCHANGED <<currentDate, outcome, failures>>
    BY <1>4 DEF IoRename, Turn, GoTo
  <2>2. StreamsKnown'
    BY <1>p, <2>1 DEF StreamsKnown, FileInvariant, DiskTypes, LifecycleInvariant, LifecycleTypes
  <2> QED
    BY <1>o, <2>1, <2>2 DEF FileInvariant
<1>5. ASSUME NEW i \in Impls, IoRenameThrows(i) PROVE FileInvariant'
  <2>1. /\ ioPc' = [j \in Impls |-> "none"] /\ stream' = [j \in Impls |-> NoFile]
        /\ UNCHANGED <<outcome, failures>>
    BY <1>5 DEF IoRenameThrows, historyVars
  <2>2. StreamsKnown'
    BY <2>1 DEF StreamsKnown
  <2> QED
    BY <1>o, <2>1, <2>2 DEF FileInvariant
<1>6. ASSUME NEW i \in Impls, IoTake(i) \/ IoPurge(i) \/ IoCheck(i) PROVE FileInvariant'
  <2>1. /\ ioPc[i] \notin {"none", "reopen"}
        /\ UNCHANGED <<currentDate, stream, outcome, failures>>
        /\ \E pc \in {"write", "record", "done", "wait"} : ioPc' = [ioPc EXCEPT ![i] = pc]
    BY <1>6 DEF IoTake, IoPurge, IoCheck, GoTo, streamVars
  <2>2. StreamsKnown'
    BY <1>p, <2>1 DEF StreamsKnown, FileInvariant, LifecycleInvariant, LifecycleTypes
  <2> QED
    BY <1>o, <2>1, <2>2 DEF FileInvariant
<1>7. ASSUME NEW i \in Impls, StartSession(i) \/ IoDayRollover(i) \/ IoReopen(i)
      PROVE  FileInvariant'
  <2>1. /\ OpenLogFile(i) /\ today' = today /\ outcome' = outcome
        /\ \E pc \in {"wait", "purge", "record"} : ioPc' = [ioPc EXCEPT ![i] = pc]
    BY <1>7 DEF StartSession, IoDayRollover, IoReopen, OwnerVars, GoTo
  <2>2. ioPc'[i] # "none" /\ \A j \in Impls \ {i} : ioPc'[j] = ioPc[j]
    BY <2>1 DEF LifecycleInvariant, LifecycleTypes
  <2> QED
    BY <1>1, <2>1, <2>2
<1>8. ASSUME UNCHANGED <<ioPc, currentDate, stream, outcome, failures>> PROVE FileInvariant'
  <2>1. StreamsKnown'
    BY <1>8 DEF StreamsKnown, FileInvariant
  <2> QED
    BY <1>o, <1>8, <2>1 DEF FileInvariant
<1>9. ASSUME NEW i \in Impls, Write(i)
      PROVE  UNCHANGED <<ioPc, currentDate, stream, outcome, failures>>
  BY <1>9 DEF Write, streamVars
<1>10. ASSUME WriteToStderr \/ AssignImpl \/ Shutdown \/ NextDay \/ UNCHANGED vars
       PROVE  UNCHANGED <<ioPc, currentDate, stream, outcome, failures>>
  BY <1>10 DEF WriteToStderr, AssignImpl, Shutdown, NextDay, Destroyed, vars, ioVars, streamVars,
               historyVars
<1> QED
  BY <1>2, <1>3, <1>4, <1>5, <1>6, <1>7, <1>8, <1>9, <1>10 DEF Next, IoLoop

LEMMA FilesBegin == Init => FileInvariant
BY DEF Init, FileInvariant, StreamsKnown, OutcomesPlaced

(* Every record a LoggerImpl's queue took has been through write_record(), *)
(* is in the batch or waits, in order, across shutdowns, restarts and a    *)
(* second init(); and what has been through it is in a file, unless the    *)
(* object had failed to open that day's.                                   *)
THEOREM NoRecordLost == Spec => []RecordsConserved
<1>1. RecordInvariant /\ FileInvariant => RecordsConserved
  <2> SUFFICES ASSUME RecordInvariant, FileInvariant PROVE RecordsConserved
    OBVIOUS
  <2>1. \A i \in Impls : Settled(i) \o batch[i] \o queue[i] = accepted[i]
    BY DEF RecordInvariant, InOrder
  <2>2. \A i \in Impls : \A k \in DOMAIN outcome[i] : Placed(i, outcome[i][k])
    BY DEF FileInvariant, OutcomesPlaced
  <2> QED
    BY <2>1, <2>2 DEF RecordsConserved, Settled, Placed
<1>2. Init => LifecycleInvariant /\ RecordInvariant /\ FileInvariant
  BY LifecycleBegins, RecordsBegin, FilesBegin
<1>3. LifecycleInvariant /\ RecordInvariant /\ FileInvariant /\ [Next]_vars
        => LifecycleInvariant' /\ RecordInvariant' /\ FileInvariant'
  BY LifecycleSteps, RecordSteps, FileSteps
<1> QED
  BY <1>1, <1>2, <1>3, PTL DEF Spec

---------------------------------------------------------------------------
(* An object that has never met another one has the directory to itself:   *)
(* no dated file is newer than its own, so a purge spares it, and its      *)
(* stream is behind its name.                                              *)
Alone(i) ==
  /\ \A p \in DOMAIN names : p.part = "log" => p.day <= currentDate[i]
  /\ stream[i] # NoFile => /\ CurrentFile(i) \in DOMAIN names
                          /\ names[CurrentFile(i)] = stream[i]
                          /\ Len(contents[stream[i]]) >= bytes[i]

AloneInvariant ==
  /\ \A i, j \in Impls : i # j /\ Alive(i) /\ Alive(j) => i \in shared /\ j \in shared
  /\ \A i \in Impls \ shared : Alive(i) => Alone(i)

LEMMA OpenedAlone ==
  ASSUME RecordInvariant, NEW i \in Impls, OpenLogFile(i), today' = today
  PROVE  Alone(i)'
<1>1. /\ DiskTypes' /\ currentDate'[i] = today /\ bytes'[i] = 0
      /\ stream'[i] # NoFile => /\ DayFile(today) \in DOMAIN names'
                               /\ names'[DayFile(today)] = stream'[i]
  BY OpenedIsNamed DEF RecordInvariant, DiskTypes
<1>2. CurrentFile(i)' = DayFile(today)
  BY <1>1 DEF CurrentFile, DayFile
<1>3. \A p \in DOMAIN names' : p.part = "log" => p.day <= currentDate'[i]
  BY <1>1 DEF DiskTypes
<1>4. stream'[i] # NoFile => Len(contents'[stream'[i]]) >= 0
  <2> SUFFICES ASSUME stream'[i] # NoFile PROVE Len(contents'[stream'[i]]) >= 0
    OBVIOUS
  <2>1. contents' \in Seq(Seq(Nat)) /\ stream'[i] \in 1 .. Len(contents')
    BY <1>1 DEF DiskTypes, NoFile
  <2>2. contents'[stream'[i]] \in Seq(Nat)
    BY <2>1
  <2> QED
    BY <2>2, LenProperties
<1> QED
  BY <1>1, <1>2, <1>3, <1>4 DEF Alone

(* What a turn of the loop leaves of it.                                   *)
LEMMA LoopAlone ==
  ASSUME LifecycleInvariant, RecordInvariant, FileInvariant,
         NEW i \in Impls, Alone(i), IoLoop(i), ~IoRenameThrows(i)
  PROVE  Alone(i)'
<1> USE DEF RecordInvariant
<1>1. ASSUME IoTake(i) \/ IoCheck(i) PROVE Alone(i)'
  BY <1>1 DEF IoTake, IoCheck, Alone, CurrentFile, DayFile, streamVars, diskVars
<1>2. ASSUME IoDayRollover(i) \/ IoReopen(i) PROVE Alone(i)'
  <2>1. OpenLogFile(i) /\ today' = today
    BY <1>2 DEF IoDayRollover, IoReopen, OwnerVars
  <2> QED
    BY <2>1, OpenedAlone
<1>3. CASE IoPurge(i)
  <2>1. names' = Purged(names) /\ UNCHANGED <<streamVars, contents>>
    BY <1>3 DEF IoPurge
  <2>2. \A p \in DOMAIN names' : p \in DOMAIN names /\ names'[p] = names[p]
    BY <2>1 DEF Purged, Only
  <2>3. CurrentFile(i).day = currentDate[i] /\ CurrentFile(i)' = CurrentFile(i)
    BY <2>1 DEF CurrentFile, DayFile, streamVars
  <2>4. {q \in DOMAIN names : q.part = "log" /\ q.day > CurrentFile(i).day} = {}
    BY <2>3 DEF Alone, DiskTypes, Paths
  <2>5. Cardinality({q \in DOMAIN names : q.part = "log" /\ q.day > CurrentFile(i).day}) < MaxFiles
    <3>1. Cardinality({}) = 0 /\ 0 < MaxFiles
      BY FS_EmptySet, LoggerAssumption
    <3> QED
      BY <2>4, <3>1
  <2>6. CurrentFile(i) \in DOMAIN names => CurrentFile(i) \in DOMAIN names'
    BY <2>1, <2>5 DEF Purged, Only
  <2> QED
    BY <2>1, <2>2, <2>3, <2>6 DEF Alone, streamVars
<1>4. CASE IoRename(i)
  <2>1. /\ names' = Renamed(names, currentDate[i]) /\ stream'[i] = NoFile
        /\ UNCHANGED currentDate
    BY <1>4 DEF IoRename, DiskTypes
  <2>2. \A p \in DOMAIN names' : p.part = "log" => p \in DOMAIN names
    BY <2>1 DEF Renamed, WithName, Only, RotatedFile
  <2> QED
    BY <2>1, <2>2 DEF Alone
<1>5. CASE IoWrite(i)
  <2>1. UNCHANGED <<currentDate, stream, names>> /\ batch[i] # << >>
    BY <1>5 DEF IoWrite, Turn, BatchOnlyWhileWriting
  <2>2. CurrentFile(i)' = CurrentFile(i)
    BY <2>1 DEF CurrentFile, DayFile
  <2>3. CASE stream[i] = NoFile
    BY <2>1, <2>2, <2>3 DEF Alone
  <2>4. CASE stream[i] # NoFile
    <3>1. /\ contents' = [contents EXCEPT ![stream[i]] = Append(@, Head(batch[i]))]
          /\ bytes' = [bytes EXCEPT ![i] = @ + 1]
      BY <1>5, <2>4 DEF IoWrite
    <3>2. /\ stream[i] \in 1 .. Len(contents) /\ Head(batch[i]) \in Nat
          /\ contents \in Seq(Seq(Nat)) /\ bytes'[i] = bytes[i] + 1 /\ bytes[i] \in Nat
      BY <2>1, <2>4, <3>1, HeadTailProperties DEF DiskTypes, NoFile, RecordTypes
    <3>3. Len(contents'[stream[i]]) = Len(contents[stream[i]]) + 1
      BY <3>1, <3>2, WrittenToFile
    <3>4. Len(contents[stream[i]]) \in Nat
      BY <3>2
    <3> QED
      BY <2>1, <2>2, <3>2, <3>3, <3>4 DEF Alone
  <2> QED
    BY <2>3, <2>4
<1> QED
  BY <1>1, <1>2, <1>3, <1>4, <1>5 DEF IoLoop

LEMMA AloneSteps ==
  LifecycleInvariant /\ RecordInvariant /\ FileInvariant /\ AloneInvariant /\ [Next]_vars
    => AloneInvariant'
<1> SUFFICES ASSUME LifecycleInvariant, RecordInvariant, FileInvariant, AloneInvariant, [Next]_vars
             PROVE  AloneInvariant'
  OBVIOUS
<1> USE DEF AloneInvariant
<1>1. ASSUME NEW i \in Impls, IoLoop(i), ~IoRenameThrows(i) PROVE AloneInvariant'
  <2>1. /\ shared' = shared /\ Alive(i) /\ \A j \in Impls \ {i} : ioPc'[j] = ioPc[j]
    BY <1>1, LoopSteps DEF OwnerVars
  <2>2. i \notin shared => Alone(i)'
    BY <1>1, <2>1, LoopAlone
  <2>3. \A j \in Impls : Alive(j)' => Alive(j)
    BY <2>1 DEF Alive
  <2> QED
    BY <2>1, <2>2, <2>3
<1>2. ASSUME NEW i \in Impls, StartSession(i) PROVE AloneInvariant'
  <2>1. /\ lifecycle = Idle /\ OpenLogFile(i) /\ today' = today
        /\ ioPc' = [ioPc EXCEPT ![i] = "wait"]
        /\ shared' = IF gImpl = NoImpl THEN shared \ {i} ELSE shared \cup {i, gImpl}
    BY <1>2 DEF StartSession
  <2>2. \A j \in Impls : Alive(j) => j = gImpl
    BY <2>1 DEF LifecycleInvariant, Idle
  <2>3. \A j \in Impls : Alive(j)' => j = i \/ j = gImpl
    BY <2>1, <2>2 DEF Alive, LifecycleInvariant, LifecycleTypes
  <2>4. Alone(i)'
    BY <2>1, OpenedAlone
  <2> QED
    BY <2>1, <2>3, <2>4, LoggerAssumption
<1>3. CASE Joined
  <2>1. lifecycle.impl \in Impls
    BY <1>3, PcsOfLifecycles DEF Joined, LifecycleInvariant, LifecycleTypes, Idle
  <2>2. /\ ioPc' = [ioPc EXCEPT ![lifecycle.impl] = "none"]
        /\ stream' = [stream EXCEPT ![lifecycle.impl] = NoFile]
        /\ UNCHANGED <<currentDate, bytes, names, contents, shared>>
    BY <1>3 DEF Joined, historyVars, diskVars
  <2>3. \A j \in Impls : Alive(j)' => Alive(j) /\ stream'[j] = stream[j]
    BY <2>1, <2>2 DEF Alive, LifecycleInvariant, LifecycleTypes, RecordInvariant, DiskTypes
  <2>4. ASSUME NEW j \in Impls \ shared', Alive(j)' PROVE Alone(j)'
    <3>1. Alone(j) /\ stream'[j] = stream[j]
      BY <2>2, <2>3, <2>4
    <3> QED
      BY <2>2, <3>1 DEF Alone, CurrentFile, DayFile
  <2> QED
    BY <2>2, <2>3, <2>4
<1>4. ASSUME NEW i \in Impls, IoRenameThrows(i) PROVE AloneInvariant'
  BY <1>4 DEF IoRenameThrows, Alive
<1>5. ASSUME UNCHANGED <<ioPc, streamVars, diskVars, shared>> PROVE AloneInvariant'
  BY <1>5 DEF Alive, Alone, CurrentFile, DayFile, streamVars, diskVars
<1>6. ASSUME NEW i \in Impls, Write(i) PROVE UNCHANGED <<ioPc, streamVars, diskVars, shared>>
  BY <1>6 DEF Write
<1>7. ASSUME WriteToStderr \/ AssignImpl \/ Shutdown \/ NextDay \/ UNCHANGED vars
      PROVE  UNCHANGED <<ioPc, streamVars, diskVars, shared>>
  BY <1>7 DEF WriteToStderr, AssignImpl, Shutdown, NextDay, Destroyed, vars, ioVars, historyVars
<1> QED
  BY <1>1, <1>2, <1>3, <1>4, <1>5, <1>6, <1>7 DEF Next

(* The stream of a LoggerImpl that never overlaps another one does not     *)
(* outlive the file it writes to: neither a rename nor the purge that      *)
(* follows midnight removes the current file, for any max_files, any size  *)
(* and whichever files can be opened.                                      *)
THEOREM CurrentFileIsKept == Spec => []CurrentFileKept
<1>1. FileInvariant /\ AloneInvariant => CurrentFileKept
  BY DEF FileInvariant, StreamsKnown, AloneInvariant, Alone, Alive, CurrentFileKept
<1>2. Init => LifecycleInvariant /\ RecordInvariant /\ FileInvariant /\ AloneInvariant
  <2>1. Init => AloneInvariant
    BY DEF Init, AloneInvariant, Alive
  <2> QED
    BY <2>1, LifecycleBegins, RecordsBegin, FilesBegin
<1>3. LifecycleInvariant /\ RecordInvariant /\ FileInvariant /\ AloneInvariant /\ [Next]_vars
        => LifecycleInvariant' /\ RecordInvariant' /\ FileInvariant' /\ AloneInvariant'
  BY LifecycleSteps, RecordSteps, FileSteps, AloneSteps
<1> QED
  BY <1>1, <1>2, <1>3, PTL DEF Spec

---------------------------------------------------------------------------
(* How many dated files there are.  Only a change of the day inside a      *)
(* session purges; a session that starts opens a file and removes none.    *)
LogsOf(directory) == {p \in DOMAIN directory : p.part = "log"}

Newer(directory, p) == {q \in LogsOf(directory) : q.day > p.day}

Dated(directory) ==
  /\ IsFiniteSet(LogsOf(directory))
  /\ \A p \in LogsOf(directory) : p.day \in Nat /\ p = DayFile(p.day)

LEMMA OldestDay ==
  ASSUME NEW T \in SUBSET Nat, T # {}
  PROVE  \E n \in T : \A m \in T : n <= m
<1>1. PICK n \in T : \A m \in T : ~(<<m, n>> \in OpToRel(<, Nat))
  BY NatLessThanWellFounded, WFMin
<1>2. ASSUME NEW m \in T PROVE n <= m
  <2>1. ~(m < n)
    BY <1>1 DEF OpToRel
  <2> QED
    BY <2>1
<1> QED
  BY <1>2

(* The oldest dated file a purge leaves has all others it leaves among the *)
(* newer ones, and those are fewer than max_files.                         *)
LEMMA PurgeLeavesMaxFiles ==
  ASSUME NEW dir, Dated(dir)
  PROVE  /\ Dated(Purged(dir))
         /\ Cardinality(LogsOf(Purged(dir))) <= MaxFiles
<1> DEFINE K == LogsOf(Purged(dir))
<1>1. K \subseteq LogsOf(dir) /\ \A p \in K : Cardinality(Newer(dir, p)) < MaxFiles
  <2>1. \A p \in DOMAIN dir :
          {q \in DOMAIN dir : q.part = "log" /\ q.day > p.day} = Newer(dir, p)
    BY DEF Newer, LogsOf
  <2> QED
    BY <2>1 DEF Purged, Only, LogsOf
<1>2. IsFiniteSet(LogsOf(dir)) /\ IsFiniteSet(K)
  BY <1>1, FS_Subset DEF Dated
<1>3. Dated(Purged(dir))
  BY <1>1, <1>2 DEF Dated
<1>4. CASE K = {}
  BY <1>3, <1>4, FS_EmptySet, LoggerAssumption
<1>5. CASE K # {}
  <2> DEFINE days == {p.day : p \in K}
  <2>1. days \in SUBSET Nat /\ days # {}
    BY <1>3, <1>5 DEF Dated
  <2>2. PICK n \in days : \A m \in days : n <= m
    BY <2>1, OldestDay
  <2>3. PICK p \in K : p.day = n
    OBVIOUS
  <2>4. \A q \in K \ {p} : q \in Newer(dir, p)
    <3> SUFFICES ASSUME NEW q \in K, q # p PROVE q \in Newer(dir, p)
      OBVIOUS
    <3>1. q = DayFile(q.day) /\ p = DayFile(p.day) /\ q.day \in Nat /\ p.day \in Nat
      BY <1>3 DEF Dated
    <3>2. p.day <= q.day
      BY <2>2, <2>3
    <3>3. q.day > p.day
      BY <3>1, <3>2
    <3> QED
      BY <1>1, <3>3 DEF Newer
  <2>5. IsFiniteSet(Newer(dir, p)) /\ Cardinality(Newer(dir, p)) \in Nat
    <3>1. Newer(dir, p) \subseteq LogsOf(dir)
      BY DEF Newer
    <3> QED
      BY <1>2, <3>1, FS_Subset, FS_CardinalityType
  <2>6. K \ {p} \subseteq Newer(dir, p)
    BY <2>4
  <2>7. Cardinality(K \ {p}) <= Cardinality(Newer(dir, p))
    BY <2>5, <2>6, FS_Subset
  <2>8. Cardinality(K \ {p}) = Cardinality(K) - 1 /\ Cardinality(K) \in Nat
    BY <1>2, <2>3, FS_RemoveElement, FS_CardinalityType
  <2>9. Cardinality(Newer(dir, p)) < MaxFiles
    BY <1>1, <2>3
  <2> QED
    BY <1>3, <2>5, <2>7, <2>8, <2>9, LoggerAssumption
<1> QED
  BY <1>4, <1>5

(* The objects in a day rollover that have yet to purge, and those in a    *)
(* size rollover that have yet to open today's file again.                 *)
Purging == {i \in Impls : ioPc[i] = "purge"}
Reopening == {i \in Impls : ioPc[i] = "reopen"}

(* One file more for every session but the first.                          *)
AllowedFiles(n) == IF n = 0 THEN 0 ELSE MaxFiles + n - 1

(* While the process lives: max_files, one for every session but the       *)
(* first, and one for every rollover that is about to purge.               *)
LogFilesBounded ==
  ~Terminated =>
    Cardinality(LogsOf(names)) <= AllowedFiles(sessions) + Cardinality(Purging)

DirectoryInvariant ==
  /\ sessions \in Nat
  /\ \A i \in Impls : Alive(i) => sessions >= 1
  /\ \A i, j \in Impls : i # j /\ Alive(i) /\ Alive(j) => sessions >= 2
  /\ IsFiniteSet(Purging) /\ IsFiniteSet(Reopening)
  /\ Dated(names)
  /\ ~Terminated => Cardinality(LogsOf(names)) + Cardinality(Reopening)
                      <= AllowedFiles(sessions) + Cardinality(Purging)

(* A purge leaves at most max_files dated files.                           *)
RolloverPurges ==
  \A i \in Impls : IoPurge(i) => Cardinality(LogsOf(names)') <= MaxFiles

(* A loop that moves to another place.                                     *)
LEMMA SetsFollowPc ==
  ASSUME LifecycleInvariant, DirectoryInvariant,
         NEW i \in Impls, NEW pc \in LoopPcs, ioPc' = [ioPc EXCEPT ![i] = pc]
  PROVE  /\ Purging' = IF pc = "purge" THEN Purging \cup {i} ELSE Purging \ {i}
         /\ Reopening' = IF pc = "reopen" THEN Reopening \cup {i} ELSE Reopening \ {i}
         /\ IsFiniteSet(Purging') /\ IsFiniteSet(Reopening')
         /\ Cardinality(Purging) \in Nat /\ Cardinality(Reopening) \in Nat
         /\ Cardinality(Purging') \in Nat /\ Cardinality(Reopening') \in Nat
<1>1. ioPc \in [Impls -> LoopPcs]
  BY DEF LifecycleInvariant, LifecycleTypes
<1>2. /\ Purging' = IF pc = "purge" THEN Purging \cup {i} ELSE Purging \ {i}
      /\ Reopening' = IF pc = "reopen" THEN Reopening \cup {i} ELSE Reopening \ {i}
  BY <1>1 DEF Purging, Reopening
<1>3. IsFiniteSet(Purging) /\ IsFiniteSet(Reopening)
  BY DEF DirectoryInvariant
<1>4. /\ IsFiniteSet(Purging \cup {i}) /\ IsFiniteSet(Purging \ {i})
      /\ IsFiniteSet(Reopening \cup {i}) /\ IsFiniteSet(Reopening \ {i})
  BY <1>3, FS_AddElement, FS_RemoveElement
<1>5. IsFiniteSet(Purging') /\ IsFiniteSet(Reopening')
  BY <1>2, <1>4
<1> QED
  BY <1>2, <1>3, <1>5, FS_CardinalityType

(* Opening adds at most today's file.                                      *)
LEMMA OpeningAddsOne ==
  ASSUME RecordInvariant, Dated(names), NEW i \in Impls, OpenLogFile(i), today' = today
  PROVE  /\ Dated(names') /\ Cardinality(LogsOf(names')) \in Nat /\ Cardinality(LogsOf(names)) \in Nat
         /\ Cardinality(LogsOf(names')) <= Cardinality(LogsOf(names)) + 1
<1>1. LogsOf(names') \subseteq LogsOf(names) \cup {DayFile(today)}
  BY OpenedIsNamed DEF LogsOf, RecordInvariant
<1>2. IsFiniteSet(LogsOf(names))
  BY DEF Dated
<1>3. /\ IsFiniteSet(LogsOf(names) \cup {DayFile(today)})
      /\ Cardinality(LogsOf(names) \cup {DayFile(today)}) \in
           {Cardinality(LogsOf(names)), Cardinality(LogsOf(names)) + 1}
  BY <1>2, FS_AddElement
<1>4. /\ IsFiniteSet(LogsOf(names'))
      /\ Cardinality(LogsOf(names')) <= Cardinality(LogsOf(names) \cup {DayFile(today)})
  BY <1>1, <1>3, FS_Subset
<1>5. DayFile(today).day = today /\ today \in Nat
  BY DEF DayFile, RecordInvariant, DiskTypes
<1>6. \A p \in LogsOf(names') : p.day \in Nat /\ p = DayFile(p.day)
  BY <1>1, <1>5 DEF Dated
<1>7. Cardinality(LogsOf(names)) \in Nat /\ Cardinality(LogsOf(names')) \in Nat
  BY <1>2, <1>4, FS_CardinalityType
<1> QED
  BY <1>3, <1>4, <1>6, <1>7 DEF Dated

(* The rename of a size rollover removes one dated name.                   *)
LEMMA RenamingRemovesOne ==
  ASSUME Dated(names), NEW d, DayFile(d) \in DOMAIN names, names' = Renamed(names, d)
  PROVE  /\ Dated(names') /\ Cardinality(LogsOf(names)) \in Nat
         /\ Cardinality(LogsOf(names')) = Cardinality(LogsOf(names)) - 1
<1>1. DOMAIN names' = (DOMAIN names \ {DayFile(d)}) \cup {RotatedFile(d)}
  BY DEF Renamed, WithName, Only
<1>2. RotatedFile(d).part # "log" /\ DayFile(d).part = "log"
  BY DEF RotatedFile, DayFile
<1>3. LogsOf(names') = LogsOf(names) \ {DayFile(d)} /\ DayFile(d) \in LogsOf(names)
  BY <1>1, <1>2 DEF LogsOf
<1>4. /\ IsFiniteSet(LogsOf(names'))
      /\ Cardinality(LogsOf(names')) = Cardinality(LogsOf(names)) - 1
      /\ Cardinality(LogsOf(names)) \in Nat
  BY <1>3, FS_RemoveElement, FS_CardinalityType DEF Dated
<1> QED
  BY <1>3, <1>4 DEF Dated

(* What a turn of the loop does to the number of files.                    *)
LEMMA LoopBounds ==
  ASSUME LifecycleInvariant, RecordInvariant, DirectoryInvariant,
         NEW i \in Impls, IoLoop(i), ~IoRenameThrows(i)
  PROVE  /\ Dated(names') /\ IsFiniteSet(Purging') /\ IsFiniteSet(Reopening')
         /\ Cardinality(LogsOf(names')) + Cardinality(Reopening')
              <= AllowedFiles(sessions) + Cardinality(Purging')
         /\ IoPurge(i) => Cardinality(LogsOf(names')) <= MaxFiles
<1> USE DEF DirectoryInvariant, Turn, GoTo, LoopPcs
<1>1. /\ ioPc[i] \in LoopPcs \ {"none"} /\ ~Terminated /\ ioPc \in [Impls -> LoopPcs]
      /\ sessions \in Nat \ {0} /\ AllowedFiles(sessions) = MaxFiles + sessions - 1
      /\ Cardinality(LogsOf(names)) \in Nat /\ MaxFiles \in Nat \ {0}
      /\ IsFiniteSet(Purging) /\ IsFiniteSet(Reopening)
  BY LoopSteps, FS_CardinalityType, LoggerAssumption
     DEF LifecycleInvariant, LifecycleTypes, Alive, AllowedFiles, Dated
<1>2. ASSUME IoTake(i) \/ IoWrite(i) \/ IoCheck(i)
      PROVE  ~IoPurge(i) /\ names' = names /\ Purging' = Purging
             /\ Cardinality(Reopening') <= Cardinality(Reopening)
             /\ Cardinality(Reopening') \in Nat /\ IsFiniteSet(Reopening')
  <2>1. /\ ioPc[i] \in {"wait", "record", "write"} /\ names' = names
        /\ \E pc \in {"write", "done", "wait"} : ioPc' = [ioPc EXCEPT ![i] = pc]
    BY <1>2 DEF IoTake, IoWrite, IoCheck, diskVars
  <2>2. Purging' = Purging /\ Reopening' = Reopening
    BY <1>1, <2>1 DEF Purging, Reopening
  <2> QED
    BY <1>1, <2>1, <2>2, FS_CardinalityType DEF IoPurge
<1>3. CASE IoDayRollover(i)
  <2>1. /\ OpenLogFile(i) /\ today' = today /\ ioPc[i] = "write"
        /\ ioPc' = [ioPc EXCEPT ![i] = "purge"]
    BY <1>3 DEF IoDayRollover, OwnerVars
  <2>2. /\ Purging' = Purging \cup {i} /\ Reopening' = Reopening \ {i}
        /\ IsFiniteSet(Purging') /\ IsFiniteSet(Reopening')
        /\ Cardinality(Purging) \in Nat /\ Cardinality(Reopening) \in Nat
    BY <2>1, SetsFollowPc
  <2>3. i \notin Purging /\ i \notin Reopening
    BY <2>1 DEF Purging, Reopening
  <2>4. Cardinality(Purging') = Cardinality(Purging) + 1 /\ Reopening' = Reopening
    BY <2>2, <2>3, FS_AddElement
  <2>5. Dated(names') /\ Cardinality(LogsOf(names')) \in Nat
        /\ Cardinality(LogsOf(names')) <= Cardinality(LogsOf(names)) + 1
    BY <2>1, OpeningAddsOne
  <2> QED
    BY <1>1, <2>1, <2>2, <2>4, <2>5 DEF IoPurge
<1>4. CASE IoPurge(i)
  <2>1. names' = Purged(names) /\ ioPc[i] = "purge" /\ ioPc' = [ioPc EXCEPT ![i] = "record"]
    BY <1>4 DEF IoPurge
  <2>2. /\ Dated(names') /\ Cardinality(LogsOf(names')) <= MaxFiles
    BY <2>1, PurgeLeavesMaxFiles
  <2>3. /\ Purging' = Purging \ {i} /\ Reopening' = Reopening \ {i}
        /\ IsFiniteSet(Purging') /\ IsFiniteSet(Reopening')
        /\ Cardinality(Purging') \in Nat /\ Cardinality(Reopening') \in Nat
    BY <2>1, SetsFollowPc
  <2>4. Cardinality(LogsOf(names')) \in Nat
    BY <2>2, FS_CardinalityType DEF Dated
  <2>5. CASE Reopening' = {}
    BY <1>1, <2>2, <2>3, <2>4, <2>5, FS_EmptySet
  <2>6. CASE Reopening' # {}
    <3>1. PICK j \in Reopening' : TRUE
      BY <2>6
    <3>2. j \in Impls /\ j # i /\ Alive(j) /\ Alive(i)
      BY <2>1, <2>3, <3>1 DEF Reopening, Alive
    <3>3. sessions >= 2
      BY <3>2
    <3>4. Reopening' \subseteq {j}
      <4> SUFFICES ASSUME NEW k \in Reopening' PROVE k = j
        OBVIOUS
      <4>1. k \in Impls /\ k # i /\ Alive(k)
        BY <2>1, <2>3 DEF Reopening, Alive
      <4> QED
        BY <3>2, <4>1 DEF LifecycleInvariant
    <3>5. IsFiniteSet({j}) /\ Cardinality({j}) = 1
      BY FS_Singleton
    <3>6. Cardinality(Reopening') <= 1
      BY <3>4, <3>5, FS_Subset
    <3> QED
      BY <1>1, <2>2, <2>3, <2>4, <3>3, <3>6
  <2> QED
    BY <2>5, <2>6
<1>5. CASE IoRename(i)
  <2>1. /\ names' = Renamed(names, currentDate[i]) /\ DayFile(currentDate[i]) \in DOMAIN names
        /\ ioPc[i] = "write" /\ ioPc' = [ioPc EXCEPT ![i] = "reopen"]
    BY <1>5 DEF IoRename, CurrentFile
  <2>2. /\ Purging' = Purging \ {i} /\ Reopening' = Reopening \cup {i}
        /\ IsFiniteSet(Purging') /\ IsFiniteSet(Reopening')
        /\ Cardinality(Purging) \in Nat /\ Cardinality(Reopening) \in Nat
    BY <2>1, SetsFollowPc
  <2>3. i \notin Purging /\ i \notin Reopening
    BY <2>1 DEF Purging, Reopening
  <2>4. Purging' = Purging /\ Cardinality(Reopening') = Cardinality(Reopening) + 1
    BY <2>2, <2>3, FS_AddElement
  <2>5. Dated(names') /\ Cardinality(LogsOf(names')) = Cardinality(LogsOf(names)) - 1
    BY <2>1, RenamingRemovesOne
  <2>6. Cardinality(LogsOf(names)) + Cardinality(Reopening)
          <= AllowedFiles(sessions) + Cardinality(Purging)
    BY <1>1
  <2>7. Cardinality(LogsOf(names')) + Cardinality(Reopening')
          <= AllowedFiles(sessions) + Cardinality(Purging')
    <3> DEFINE l == Cardinality(LogsOf(names))
               q == Cardinality(Reopening)
               a == AllowedFiles(sessions)
               p == Cardinality(Purging)
    <3>1. l \in Nat /\ q \in Nat /\ a \in Nat /\ p \in Nat /\ l + q <= a + p
      BY <1>1, <2>2, <2>6
    <3>2. /\ Cardinality(LogsOf(names')) = l - 1 /\ Cardinality(Reopening') = q + 1
          /\ Cardinality(Purging') = p
      BY <2>4, <2>5, Zenon
    <3> HIDE DEF l, q, a, p
    <3>3. (l - 1) + (q + 1) <= a + p
      BY <3>1
    <3> QED
      BY <3>2, <3>3, Zenon DEF a
  <2>8. ~IoPurge(i)
    BY <2>1 DEF IoPurge
  <2> QED
    BY <2>2, <2>5, <2>7, <2>8
<1>6. CASE IoReopen(i)
  <2>1. /\ OpenLogFile(i) /\ today' = today /\ ioPc[i] = "reopen"
        /\ ioPc' = [ioPc EXCEPT ![i] = "record"]
    BY <1>6 DEF IoReopen, OwnerVars
  <2>2. /\ Purging' = Purging \ {i} /\ Reopening' = Reopening \ {i}
        /\ IsFiniteSet(Purging') /\ IsFiniteSet(Reopening')
        /\ Cardinality(Purging) \in Nat /\ Cardinality(Reopening) \in Nat
    BY <2>1, SetsFollowPc
  <2>3. i \notin Purging /\ i \in Reopening
    BY <2>1 DEF Purging, Reopening
  <2>4. Purging' = Purging /\ Cardinality(Reopening') = Cardinality(Reopening) - 1
    BY <2>2, <2>3, <1>1, FS_RemoveElement
  <2>5. Dated(names') /\ Cardinality(LogsOf(names')) \in Nat
        /\ Cardinality(LogsOf(names')) <= Cardinality(LogsOf(names)) + 1
    BY <2>1, OpeningAddsOne
  <2> QED
    BY <1>1, <2>1, <2>2, <2>4, <2>5 DEF IoPurge
<1>7. ASSUME IoTake(i) \/ IoWrite(i) \/ IoCheck(i)
      PROVE  /\ Dated(names') /\ IsFiniteSet(Purging') /\ IsFiniteSet(Reopening')
             /\ Cardinality(LogsOf(names')) + Cardinality(Reopening')
                  <= AllowedFiles(sessions) + Cardinality(Purging')
             /\ ~IoPurge(i)
  <2>1. Cardinality(Reopening) \in Nat /\ Cardinality(Purging) \in Nat
    BY <1>1, FS_CardinalityType
  <2> QED
    BY <1>1, <1>2, <1>7, <2>1
<1> QED
  BY <1>3, <1>4, <1>5, <1>6, <1>7 DEF IoLoop

LEMMA DirectorySteps ==
  LifecycleInvariant /\ RecordInvariant /\ DirectoryInvariant /\ [Next]_vars
    => DirectoryInvariant' /\ RolloverPurges
<1> SUFFICES ASSUME LifecycleInvariant, RecordInvariant, DirectoryInvariant, [Next]_vars
             PROVE  DirectoryInvariant' /\ RolloverPurges
  OBVIOUS
<1> USE DEF DirectoryInvariant
<1>0. /\ Cardinality(LogsOf(names)) \in Nat /\ Cardinality(Purging) \in Nat
      /\ Cardinality(Reopening) \in Nat /\ sessions \in Nat /\ MaxFiles \in Nat \ {0}
  BY FS_CardinalityType, LoggerAssumption DEF Dated
<1>p. RolloverPurges
  <2> SUFFICES ASSUME NEW i \in Impls, IoPurge(i) PROVE Cardinality(LogsOf(names)') <= MaxFiles
    BY DEF RolloverPurges
  <2>1. IoLoop(i) /\ ~IoRenameThrows(i)
    BY DEF IoLoop, IoPurge, IoRenameThrows, Turn
  <2> QED
    BY <2>1, LoopBounds DEF LogsOf
<1>1. ASSUME NEW i \in Impls, IoLoop(i), ~IoRenameThrows(i) PROVE DirectoryInvariant'
  <2>1. /\ UNCHANGED <<sessions, lifecycle>> /\ Alive(i)
        /\ \A j \in Impls : Alive(j)' => Alive(j)
    BY <1>1, LoopSteps DEF OwnerVars, Alive
  <2>2. /\ Dated(names') /\ IsFiniteSet(Purging') /\ IsFiniteSet(Reopening')
        /\ Cardinality(LogsOf(names')) + Cardinality(Reopening')
             <= AllowedFiles(sessions) + Cardinality(Purging')
    BY <1>1, LoopBounds
  <2> QED
    BY <2>1, <2>2 DEF Dated, LogsOf
<1>2. ASSUME NEW i \in Impls, StartSession(i) PROVE DirectoryInvariant'
  <2>1. /\ lifecycle = Idle /\ OpenLogFile(i) /\ today' = today /\ i # gImpl
        /\ sessions' = sessions + 1 /\ ioPc' = [ioPc EXCEPT ![i] = "wait"]
    BY <1>2 DEF StartSession
  <2>2. \A j \in Impls : Alive(j) => j = gImpl
    BY <2>1 DEF LifecycleInvariant, Idle
  <2>3. /\ IsFiniteSet(Purging') /\ IsFiniteSet(Reopening')
        /\ Purging' = Purging /\ Reopening' = Reopening
    <3>1. ioPc[i] = "none" /\ "wait" \in LoopPcs
      BY <2>1, <2>2 DEF Alive, LoopPcs
    <3>2. i \notin Purging /\ i \notin Reopening
      BY <3>1 DEF Purging, Reopening
    <3>3. LifecycleInvariant /\ DirectoryInvariant /\ i \in Impls
      OBVIOUS
    <3>4. /\ Purging' = Purging \ {i} /\ Reopening' = Reopening \ {i}
          /\ IsFiniteSet(Purging') /\ IsFiniteSet(Reopening')
      BY ONLY <2>1, <3>1, <3>3, SetsFollowPc
    <3> QED
      BY ONLY <3>2, <3>4
  <2>4. /\ Dated(names') /\ Cardinality(LogsOf(names')) \in Nat
        /\ Cardinality(LogsOf(names')) <= Cardinality(LogsOf(names)) + 1
    BY <2>1, OpeningAddsOne
  <2>5. ~Terminated
    BY <2>1 DEF Terminated, Idle
  <2>6. Cardinality(LogsOf(names')) + Cardinality(Reopening)
          <= AllowedFiles(sessions + 1) + Cardinality(Purging)
    BY <1>0, <2>4, <2>5 DEF AllowedFiles
  <2>7. \A j, k \in Impls : j # k /\ Alive(j)' /\ Alive(k)' => sessions >= 1
    BY <2>1, <2>2 DEF Alive, LifecycleInvariant, LifecycleTypes
  <2> QED
    BY <1>0, <2>1, <2>3, <2>4, <2>6, <2>7 DEF Dated, LogsOf
<1>3. CASE Joined
  <2>1. lifecycle.impl \in Impls
    BY <1>3, PcsOfLifecycles DEF Joined, LifecycleInvariant, LifecycleTypes, Idle
  <2>2. /\ ioPc' = [ioPc EXCEPT ![lifecycle.impl] = "none"] /\ ioPc[lifecycle.impl] = "done"
        /\ lifecycle.pc = "join" /\ UNCHANGED <<names, sessions>>
    BY <1>3 DEF Joined, diskVars
  <2>3. Purging' = Purging /\ Reopening' = Reopening /\ \A j \in Impls : Alive(j)' => Alive(j)
    BY <2>1, <2>2 DEF Purging, Reopening, Alive, LifecycleInvariant, LifecycleTypes
  <2>4. /\ Dated(names') /\ names' = names /\ sessions' = sessions
        /\ Cardinality(LogsOf(names)) + Cardinality(Reopening)
             <= AllowedFiles(sessions) + Cardinality(Purging)
    BY <2>2 DEF Terminated, Dated, LogsOf
  <2> QED
    BY <1>p, <2>3, <2>4 DEF Dated, LogsOf
<1>4. ASSUME NEW i \in Impls, IoRenameThrows(i) PROVE DirectoryInvariant'
  <2>1. /\ lifecycle' = [pc |-> "terminated"] /\ ioPc' = [j \in Impls |-> "none"]
        /\ UNCHANGED <<names, sessions>>
    BY <1>4 DEF IoRenameThrows, diskVars
  <2>2. Purging' = {} /\ Reopening' = {} /\ Terminated' /\ \A j \in Impls : ~Alive(j)'
    BY <2>1 DEF Purging, Reopening, Terminated, Alive
  <2> QED
    BY <2>1, <2>2, FS_EmptySet DEF Dated, LogsOf
<1>5. ASSUME UNCHANGED <<ioPc, names, sessions>>, Terminated => Terminated' PROVE DirectoryInvariant'
  BY <1>5 DEF Dated, LogsOf, Purging, Reopening, Alive
<1>6. ASSUME \/ \E i \in Impls : Write(i)
             \/ WriteToStderr \/ AssignImpl \/ Shutdown \/ NextDay \/ UNCHANGED vars
      PROVE  UNCHANGED <<ioPc, names, sessions>> /\ (Terminated => Terminated')
  BY <1>6 DEF Write, WriteToStderr, AssignImpl, Shutdown, NextDay, Destroyed, vars, ioVars, diskVars,
              Terminated, Idle
<1> QED
  BY <1>p, <1>1, <1>2, <1>3, <1>4, <1>5, <1>6 DEF Next

LEMMA DirectoryBegins == Init => DirectoryInvariant
<1> SUFFICES ASSUME Init PROVE DirectoryInvariant
  OBVIOUS
<1>1. /\ sessions = 0 /\ LogsOf(names) = {} /\ Purging = {} /\ Reopening = {}
      /\ \A i \in Impls : ~Alive(i)
  BY DEF Init, LogsOf, Purging, Reopening, Alive
<1>2. IsFiniteSet({}) /\ Cardinality({}) = 0
  BY FS_EmptySet
<1> QED
  BY <1>1, <1>2 DEF DirectoryInvariant, Dated, AllowedFiles

(* The directory never holds more than max_files dated files, one more for *)
(* every session after the first and one for a rollover about to purge:    *)
(* what logger.h:66 promises, "Keep last N daily log files", holds of an   *)
(* engine started once, and every restart or second init() may add one.    *)
THEOREM LogFilesAreBounded == Spec => []LogFilesBounded
<1>1. Init => LifecycleInvariant /\ RecordInvariant /\ DirectoryInvariant
  BY LifecycleBegins, RecordsBegin, DirectoryBegins
<1>2. LifecycleInvariant /\ RecordInvariant /\ DirectoryInvariant /\ [Next]_vars
        => LifecycleInvariant' /\ RecordInvariant' /\ DirectoryInvariant'
  BY LifecycleSteps, RecordSteps, DirectorySteps
<1>3. DirectoryInvariant => LogFilesBounded
  <2> SUFFICES ASSUME DirectoryInvariant, ~Terminated
               PROVE  Cardinality(LogsOf(names)) <= AllowedFiles(sessions) + Cardinality(Purging)
    BY DEF LogFilesBounded
  <2>1. /\ Cardinality(LogsOf(names)) \in Nat /\ Cardinality(Purging) \in Nat
        /\ Cardinality(Reopening) \in Nat /\ AllowedFiles(sessions) \in Nat
    BY FS_CardinalityType, LoggerAssumption DEF DirectoryInvariant, Dated, AllowedFiles
  <2> QED
    BY <2>1 DEF DirectoryInvariant
<1> QED
  BY <1>1, <1>2, <1>3, PTL DEF Spec

(* The purge of a day rollover ends with at most max_files dated files,    *)
(* however many sessions left theirs behind and whoever else is writing.   *)
THEOREM RolloversPurge == Spec => [][RolloverPurges]_vars
<1>1. Init => LifecycleInvariant /\ RecordInvariant /\ DirectoryInvariant
  BY LifecycleBegins, RecordsBegin, DirectoryBegins
<1>2. LifecycleInvariant /\ RecordInvariant /\ DirectoryInvariant /\ [Next]_vars
        => /\ LifecycleInvariant' /\ RecordInvariant' /\ DirectoryInvariant'
           /\ [RolloverPurges]_vars
  BY LifecycleSteps, RecordSteps, DirectorySteps
<1> QED
  BY <1>1, <1>2, PTL DEF Spec
=============================================================================
