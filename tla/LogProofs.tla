------------------------------ MODULE LogProofs ------------------------------
(***************************************************************************)
(* For any numbers of callers, lines and days, any m_split_lines and any   *)
(* size of the queue: the open file is of the day its caller read, the     *)
(* ring buffer is a bounded FIFO queue, each line is in one place, and the *)
(* lines of one caller keep their order.                                   *)
(***************************************************************************)
EXTENDS Log, TLAPS
-----------------------------------------------------------------------------
(* The file and the day. *)

(* The types of the state CurrentFile speaks of, and of what it comes from.*)
TimeType ==
    /\ m_today \in Nat /\ day \in Nat /\ sys_tm \in Nat /\ m_count \in Nat
    /\ t \in [Writers -> Nat] /\ my_tm \in [Writers -> Nat]

(* No day that a thread carries with it is ahead of the clock.             *)
NoDayAhead ==
    /\ sys_tm <= day
    /\ \A w \in Writers : t[w] <= day /\ my_tm[w] <= day

(* In a burst of calls that have all read one day, that day is in          *)
(* localtime()'s buffer from the first filling of it, and m_today's once a *)
(* call has chosen the file.                                               *)
OneDay ==
    /\ pc \in [Writers -> Pcs]
    /\ \A w \in Writers : pc[w] # "idle" => t[w] \in burst
    /\ \A w \in Writers : \A d : burst = {d} =>
         /\ pc[w] = "copy" => sys_tm = d
         /\ pc[w] \in {"choose", "full", "push", "put"} => my_tm[w] = d
         /\ pc[w] \in {"full", "push", "put"} => m_today = d

(* The inductive invariant: the file is of the day of my_tm, which is a    *)
(* copy of a copy of the clock.                                            *)
IInv == TimeType /\ NoDayAhead /\ OneDay /\ m_fp.day = m_today /\ m_today <= day

(* The first file is of the first day. *)
LEMMA InvInit == Init => IInv
  BY DEF Init, IInv, TimeType, NoDayAhead, OneDay, Pcs

(* A step that leaves clock, times and file alone, while calls at most get *)
(* on from the chosen file, or return.                                     *)
LEMMA InvUnchanged ==
    ASSUME IInv, UNCHANGED <<filevars, day, timevars>>,
           pc' \in [Writers -> Pcs],
           \A w \in Writers :
              \/ pc'[w] \in {pc[w], "idle"}
              \/ pc[w] = "full" /\ pc'[w] \in {"push", "put"}
    PROVE  IInv'
  BY DEF IInv, TimeType, NoDayAhead, OneDay, filevars, timevars

(* Midnight leaves every day that was read behind the clock. *)
LEMMA InvMidnight == IInv /\ Midnight => IInv'
  BY DEF IInv, TimeType, NoDayAhead, OneDay, Midnight, filevars, timevars

(* A call that begins a burst is alone with its day; one that joins a      *)
(* burst of one day either reads that day or makes it a burst of two.      *)
LEMMA InvReadTime ==
    ASSUME IInv, NEW w \in Writers, ReadTime(w)
    PROVE  IInv'
<1>1. /\ pc' = [pc EXCEPT ![w] = "localtime"] /\ pc' \in [Writers -> Pcs]
      /\ t' = [t EXCEPT ![w] = day] /\ t \in [Writers -> Nat]
      /\ burst' = {day} \cup IF \A v \in Writers : pc[v] = "idle" THEN {} ELSE burst
      /\ UNCHANGED <<m_today, m_count, m_fp, day, sys_tm, my_tm>>
  BY DEF ReadTime, Goto, IInv, TimeType, OneDay, Pcs, filevars
<1>2. ASSUME NEW v \in Writers, pc'[v] # "idle" PROVE t'[v] \in burst'
  <2>1. CASE v = w
    BY <1>1, <2>1
  <2>2. CASE v # w
    BY <1>1, <1>2, <2>2 DEF IInv, OneDay
  <2> QED
    BY <2>1, <2>2
<1>3. ASSUME NEW v \in Writers, NEW d, burst' = {d}
      PROVE  /\ pc'[v] = "copy" => sys_tm' = d
             /\ pc'[v] \in {"choose", "full", "push", "put"} => my_tm'[v] = d
             /\ pc'[v] \in {"full", "push", "put"} => m_today' = d
  <2>1. CASE v = w
    BY <1>1, <2>1 DEF IInv, OneDay
  <2>2. CASE v # w /\ pc[v] # "idle"
    <3>1. t[v] \in burst /\ burst \subseteq burst'
      BY <1>1, <2>2 DEF IInv, OneDay
    <3>2. burst = {d}
      BY <1>3, <3>1
    <3> QED
      BY <1>1, <2>2, <3>2 DEF IInv, OneDay
  <2>3. CASE v # w /\ pc[v] = "idle"
    BY <1>1, <2>3 DEF IInv, OneDay
  <2> QED
    BY <2>1, <2>2, <2>3
<1>4. OneDay'
  BY <1>1, <1>2, <1>3 DEF OneDay
<1> QED
  BY <1>1, <1>4 DEF IInv, TimeType, NoDayAhead

(* The day goes from the call to localtime()'s buffer and on to my_tm.     *)
LEMMA InvTimes ==
    ASSUME IInv, NEW w \in Writers, Localtime(w) \/ CopyTime(w)
    PROVE  IInv'
<1>1. TimeType' /\ NoDayAhead'
  BY DEF IInv, TimeType, NoDayAhead, Localtime, CopyTime, filevars
<1>2. OneDay'
  BY DEF IInv, TimeType, OneDay, Localtime, CopyTime, Goto, Pcs, filevars
<1> QED
  BY <1>1, <1>2 DEF IInv, Localtime, CopyTime, filevars

(* A new file is of the day the caller goes by, and m_today becomes that   *)
(* day; the file of a split is of m_today.                                 *)
LEMMA InvChooseFile ==
    ASSUME IInv, NEW w \in Writers, ChooseFile(w)
    PROVE  IInv'
<1>1. /\ UNCHANGED <<day, sys_tm, t, my_tm, burst>>
      /\ pc[w] = "choose" /\ pc' = [pc EXCEPT ![w] = "full"]
  BY DEF ChooseFile, Goto, timevars
<1>2. my_tm[w] \in Nat /\ my_tm[w] <= day
  BY DEF IInv, TimeType, NoDayAhead
<1>3. m_today' = my_tm[w] /\ m_fp'.day = my_tm[w] /\ m_count' \in Nat
  <2>1. CASE m_today # my_tm[w] /\ NewDay(my_tm[w])
    BY <2>1 DEF NewDay
  <2>2. CASE /\ m_today = my_tm[w]
             /\ m_count' = m_count + 1
             /\ m_count' % m_split_lines = 0
             /\ Split(my_tm[w])
    BY <2>2 DEF Split, IInv, TimeType
  <2>3. CASE m_today = my_tm[w] /\ m_count' = m_count + 1
             /\ UNCHANGED <<m_today, m_fp>>
    BY <2>3 DEF IInv, TimeType
  <2> QED
    BY <2>1, <2>2, <2>3 DEF ChooseFile
<1>4. OneDay'
  BY <1>1, <1>3 DEF IInv, OneDay, Pcs
<1> QED
  BY <1>1, <1>2, <1>3, <1>4 DEF IInv, TimeType, NoDayAhead

(* Every step of the log keeps the invariant. *)
LEMMA InvStep == IInv /\ [Next]_vars => IInv'
<1> SUFFICES ASSUME IInv, [Next]_vars PROVE IInv'
  OBVIOUS
<1>1. CASE Midnight
  BY <1>1, InvMidnight
<1>2. ASSUME NEW w \in Writers, WriterStep(w) PROVE IInv'
  <2>1. CASE ReadTime(w)
    BY <2>1, InvReadTime
  <2>2. CASE Localtime(w) \/ CopyTime(w)
    BY <2>2, InvTimes
  <2>3. CASE ChooseFile(w)
    BY <2>3, InvChooseFile
  <2>4. CASE AskFull(w) \/ PushLine(w) \/ PutLine(w)
    <3>1. UNCHANGED <<filevars, day, timevars>>
      BY <2>4 DEF AskFull, PushLine, PutLine
    <3>2. \/ pc[w] = "full" /\ pc' = [pc EXCEPT ![w] = "push"]
          \/ pc[w] = "full" /\ pc' = [pc EXCEPT ![w] = "put"]
          \/ pc' = [pc EXCEPT ![w] = "idle"]
      BY <2>4 DEF AskFull, PushLine, PutLine, Goto
    <3>3. /\ pc' \in [Writers -> Pcs]
          /\ \A v \in Writers :
               \/ pc'[v] \in {pc[v], "idle"}
               \/ pc[v] = "full" /\ pc'[v] \in {"push", "put"}
      BY <3>2 DEF IInv, OneDay, Pcs
    <3> QED
      BY <3>1, <3>3, InvUnchanged
  <2> QED
    BY <1>2, <2>1, <2>2, <2>3, <2>4 DEF WriterStep
<1>3. CASE LogThreadStep \/ LogThreadWakes
  <2>1. UNCHANGED <<filevars, day, timevars, pc>>
    BY <1>3 DEF LogThreadStep, LogThreadPops, LogThreadPuts, LogThreadWakes
  <2> QED
    BY <2>1, InvUnchanged DEF IInv, OneDay
<1>4. CASE UNCHANGED vars
  BY <1>4, InvUnchanged DEF vars, IInv, OneDay
<1> QED
  BY <1>1, <1>2, <1>3, <1>4 DEF Next

(* Whoever is held up over midnight, the open file is one of m_today, and  *)
(* m_today is no day ahead of the clock; and from the choice of the file   *)
(* to the handing on of its line it is of the day the call read, if no     *)
(* call of the burst read another day (log.cpp:86-89, 118-140, 182-188).   *)
THEOREM CurrentFileHolds == Spec => []CurrentFile
<1>1. IInv => CurrentFile
  BY DEF IInv, OneDay, CurrentFile
<1> QED
  BY <1>1, InvInit, InvStep, PTL DEF Spec
-----------------------------------------------------------------------------
(* The slot i places after index f, which is never more than once round    *)
(* the ring.                                                               *)
Slot(f, i) == IF f + i < m_max_size THEN f + i ELSE f + i - m_max_size

LEMMA SlotIsModulo ==
    \A f \in -1..(m_max_size - 1), i \in 1..m_max_size :
        (f + i) % m_max_size = Slot(f, i) /\ Slot(f, i) \in Queue!Slots
  BY LogAssumption DEF Slot, Queue!Slots

(* m_back is m_size places after m_front, and every place between them     *)
(* holds a line: what is popped was pushed.                                *)
Ring ==
    /\ m_size > 0 => Slot(m_front, m_size) = m_back
    /\ m_size = 0 => m_front = m_back
    /\ \A i \in 1..m_size : m_array[Slot(m_front, i)] \in Lines

RingInv == Queue!TypeOK /\ Ring

LEMMA RingInit == Queue!Init => RingInv /\ Queue!Contents = <<>>
  BY LogAssumption
  DEF Queue!Init, RingInv, Ring, Queue!TypeOK, Queue!Contents, Queue!Slots

(* The queue as a sequence, without %. *)
LEMMA ContentsBySlot ==
    Queue!TypeOK => Queue!Contents = [i \in 1..m_size |-> m_array[Slot(m_front, i)]]
  BY SlotIsModulo, LogAssumption DEF Queue!TypeOK, Queue!Contents

LEMMA ContentsBySlotNext ==
    Queue!TypeOK' => Queue!Contents' = [i \in 1..m_size' |-> m_array'[Slot(m_front', i)]]
  BY SlotIsModulo, LogAssumption DEF Queue!TypeOK, Queue!Contents

(* push() keeps the ring and appends; m_cond and cpc stay in their types.  *)
LEMMA PushAppends ==
    ASSUME RingInv, NEW x \in Lines, Queue!Push(x)
    PROVE  /\ RingInv'
           /\ Len(Queue!Contents) < m_max_size
           /\ Queue!Contents' = Append(Queue!Contents, x)
<1> m_max_size \in Nat \ {0}
  BY LogAssumption
<1>1. /\ m_size \in 0..(m_max_size - 1) /\ m_front \in -1..(m_max_size - 1) /\ m_back \in -1..(m_max_size - 1)
      /\ m_array \in [Queue!Slots -> Lines \cup {NULL}]
      /\ m_size' = m_size + 1 /\ m_front' = m_front /\ item' = item
      /\ m_back' = (m_back + 1) % m_max_size
      /\ m_array' = [m_array EXCEPT ![m_back'] = x]
  BY DEF RingInv, Queue!TypeOK, Queue!Push, Queue!Full
<1>2. m_back' = Slot(m_front, m_size + 1) /\ m_back' \in Queue!Slots
  <2>1. m_back' = Slot(m_back, 1) /\ m_back' \in Queue!Slots
    <3>1. m_back \in -1..(m_max_size - 1) /\ 1 \in 1..m_max_size
      BY <1>1
    <3>2. (m_back + 1) % m_max_size = Slot(m_back, 1) /\ Slot(m_back, 1) \in Queue!Slots
      BY <3>1, SlotIsModulo
    <3> QED
      BY <1>1, <3>2
  <2> QED
    BY <1>1, <2>1 DEF RingInv, Ring, Slot
<1>3. m_array' \in [Queue!Slots -> Lines \cup {NULL}] /\ m_array'[m_back'] = x
  BY <1>1, <1>2
<1>4. ASSUME NEW i \in 1..m_size
      PROVE  m_array'[Slot(m_front, i)] = m_array[Slot(m_front, i)]
  <2>1. Slot(m_front, i) # m_back'
    BY <1>1, <1>2 DEF Slot
  <2> QED
    BY <1>1, <2>1, SlotIsModulo
<1>5. Queue!TypeOK'
  <2>1. m_cond' \in SUBSET {log_thread} /\ cpc' \in [{log_thread} -> {"idle", "wait", "woken"}]
    BY DEF RingInv, Queue!TypeOK, Queue!Push, Queue!Broadcast
  <2> QED
    BY <1>1, <1>2, <1>3, <2>1 DEF RingInv, Queue!TypeOK, Queue!Slots
<1>6. Ring'
  BY <1>1, <1>2, <1>3, <1>4 DEF RingInv, Ring, Slot
<1>7. Queue!Contents' = Append(Queue!Contents, x)
  BY <1>1, <1>2, <1>3, <1>4, <1>5, ContentsBySlot, ContentsBySlotNext DEF RingInv
<1>8. Len(Queue!Contents) < m_max_size
  BY <1>1 DEF Queue!Contents
<1> QED
  BY <1>5, <1>6, <1>7, <1>8 DEF RingInv

(* pop() keeps the ring, hands out the head and leaves the tail.           *)
LEMMA PopTakesHead ==
    ASSUME RingInv, Queue!Pop(log_thread)
    PROVE  /\ RingInv'
           /\ Queue!Contents # <<>>
           /\ item' = [item EXCEPT ![log_thread] = Head(Queue!Contents)]
           /\ item'[log_thread] \in Lines
           /\ Queue!Contents' = Tail(Queue!Contents)
<1> m_max_size \in Nat \ {0}
  BY LogAssumption
<1>1. /\ m_size \in 1..m_max_size /\ m_front \in -1..(m_max_size - 1) /\ m_back \in -1..(m_max_size - 1)
      /\ m_array \in [Queue!Slots -> Lines \cup {NULL}]
      /\ item \in [{log_thread} -> Lines \cup {NULL}]
      /\ m_size' = m_size - 1 /\ m_back' = m_back /\ m_array' = m_array
      /\ m_front' = (m_front + 1) % m_max_size
      /\ item' = [item EXCEPT ![log_thread] = m_array[m_front']]
  BY DEF RingInv, Queue!TypeOK, Queue!Pop
<1>2. m_front' = Slot(m_front, 1) /\ m_front' \in Queue!Slots
  BY <1>1, SlotIsModulo
<1>3. \A i \in 1..m_size' : Slot(m_front', i) = Slot(m_front, i + 1)
  BY <1>1, <1>2 DEF Slot
<1>4. Queue!TypeOK'
  <2>1. m_cond' \in SUBSET {log_thread} /\ cpc' \in [{log_thread} -> {"idle", "wait", "woken"}]
    BY DEF RingInv, Queue!TypeOK, Queue!Pop
  <2>2. item' \in [{log_thread} -> Lines \cup {NULL}]
    BY <1>1, <1>2
  <2> QED
    BY <1>1, <1>2, <2>1, <2>2 DEF Queue!TypeOK, Queue!Slots
<1>5. Ring'
  <2>1. \A i \in 1..m_size' : m_array'[Slot(m_front', i)] \in Lines
    BY <1>1, <1>3 DEF RingInv, Ring
  <2>2. m_size' > 0 => Slot(m_front', m_size') = m_back'
    BY <1>1, <1>3 DEF RingInv, Ring
  <2>3. m_size' = 0 => m_front' = m_back'
    BY <1>1, <1>2 DEF RingInv, Ring
  <2> QED
    BY <2>1, <2>2, <2>3 DEF Ring
<1>6. Queue!Contents = [i \in 1..m_size |-> m_array[Slot(m_front, i)]]
  BY ContentsBySlot DEF RingInv
<1>7. Queue!Contents' = Tail(Queue!Contents)
  BY <1>1, <1>3, <1>4, <1>6, ContentsBySlotNext
<1>8. Queue!Contents # <<>> /\ Head(Queue!Contents) = m_array[m_front']
  BY <1>1, <1>2, <1>6
<1>9. m_array[m_front'] \in Lines
  BY <1>1, <1>2 DEF RingInv, Ring
<1> QED
  BY <1>1, <1>4, <1>5, <1>7, <1>8, <1>9 DEF RingInv

(* The other steps of the queue leave the ring alone.                      *)
LEMMA RingUntouched ==
    ASSUME RingInv, UNCHANGED <<m_array, m_size, m_front, m_back, item>>,
           m_cond' \in SUBSET {log_thread},
           cpc' \in [{log_thread} -> {"idle", "wait", "woken"}]
    PROVE  RingInv' /\ UNCHANGED <<Queue!Contents, item>>
  BY DEF RingInv, Ring, Queue!TypeOK, Queue!Contents, Queue!Slots, Slot
-----------------------------------------------------------------------------
(* What a step of the log may do to the queue. *)
QueueStep ==
    \/ \E x \in Lines : Queue!Push(x)
    \/ Queue!Pop(log_thread)
    \/ /\ UNCHANGED <<m_array, m_size, m_front, m_back, item>>
       /\ m_cond' \in SUBSET {log_thread}
       /\ cpc' \in [{log_thread} -> {"idle", "wait", "woken"}]

(* A step of the queue that is not a push or a pop. *)
LEMMA QueueRest ==
    Queue!TypeOK /\ (Queue!PushFull \/ Queue!PopWait(log_thread)
                       \/ Queue!SpuriousWakeup(log_thread) \/ UNCHANGED qvars)
      => QueueStep
  BY DEF Queue!TypeOK, Queue!PushFull, Queue!PopWait, Queue!SpuriousWakeup,
         Queue!Broadcast, Queue!ring, QueueStep, qvars

(* Each step of the queue keeps the ring, and is one of the FIFO or none.  *)
LEMMA QueueStepIsFifo ==
    ASSUME RingInv, QueueStep
    PROVE  RingInv' /\ [Queue!Fifo!Next]_<<Queue!Contents, item>>
<1>1. ASSUME NEW x \in Lines, Queue!Push(x)
      PROVE  RingInv' /\ [Queue!Fifo!Next]_<<Queue!Contents, item>>
  <2>1. item' = item
    BY <1>1 DEF Queue!Push
  <2> QED
    BY <1>1, <2>1, PushAppends DEF Queue!Fifo!Next, Queue!Fifo!Push
<1>2. CASE Queue!Pop(log_thread)
  BY <1>2, PopTakesHead DEF Queue!Fifo!Next, Queue!Fifo!Pop
<1>3. CASE /\ UNCHANGED <<m_array, m_size, m_front, m_back, item>>
           /\ m_cond' \in SUBSET {log_thread}
           /\ cpc' \in [{log_thread} -> {"idle", "wait", "woken"}]
  BY <1>3, RingUntouched
<1> QED
  BY <1>1, <1>2, <1>3 DEF QueueStep
-----------------------------------------------------------------------------
(* The types of the whole log. *)

Entry == [line : Lines, file : File, by : {"caller", "log_thread"}]

(* Only a call that has begun makes a line. *)
Begun == \A w \in Writers : pc[w] # "idle" => calls[w] \in 1..MaxLines

(* TypeOK made inductive: what is popped is a line, and what is written is *)
(* in the file of some day.                                                *)
LogInv == TypeOK /\ Ring /\ files \in Seq(Entry) /\ Begun

(* What is in the files is there as an entry.                              *)
LEMMA EntryAt ==
    ASSUME NEW s \in Seq(Entry), NEW i \in DOMAIN s
    PROVE  /\ i \in 1..Len(s) /\ s[i] \in Entry
           /\ s[i].line \in Lines /\ s[i].file \in File
<1>1. i \in 1..Len(s) /\ s[i] \in Entry
  OBVIOUS
<1> QED
  BY <1>1 DEF Entry

(* What one entry more does to the files.                                  *)
LEMMA EntryMore ==
    ASSUME NEW s \in Seq(Entry), NEW e \in Entry
    PROVE  /\ Append(s, e) \in Seq(Entry)
           /\ Len(s) \in Nat /\ DOMAIN s = 1..Len(s)
           /\ DOMAIN Append(s, e) = 1..(Len(s) + 1)
           /\ \A i \in 1..Len(s) : Append(s, e)[i] = s[i]
           /\ Append(s, e)[Len(s) + 1] = e
  OBVIOUS

LEMMA LogInvInit == Init => LogInv
<1> SUFFICES ASSUME Init PROVE LogInv
  OBVIOUS
<1>1. Queue!TypeOK /\ Ring
  BY RingInit DEF Init, RingInv
<1>2. 1 \in 1..Days
  BY LogAssumption
<1>3. m_fp \in File
  BY <1>2 DEF Init, File, FileName, Nothing
<1>4. files \in Seq(Entry) /\ files = <<>>
  BY DEF Init
<1>5. Begun
  BY DEF Init, Begun
<1>6. calls \in [Writers -> 0..MaxLines]
  BY LogAssumption DEF Init
<1>7. \A i \in DOMAIN files : files[i].line \in Lines /\ files[i].file \in File
  BY <1>4, EntryAt
<1> QED
  BY <1>1, <1>2, <1>3, <1>4, <1>5, <1>6, <1>7 DEF Init, LogInv, TypeOK, Pcs

(* A call in progress has a line. *)
LEMMA LineIsLine ==
    ASSUME LogInv, NEW w \in Writers, pc[w] # "idle"
    PROVE  Line(w) \in Lines
  BY DEF LogInv, Begun, Line, Lines

(* Every step of the log is one of the queue's, or leaves it alone.        *)
LEMMA StepOfQueue == LogInv /\ [Next]_vars => QueueStep
<1> SUFFICES ASSUME LogInv, [Next]_vars PROVE QueueStep
  OBVIOUS
<1>1. Queue!TypeOK
  BY DEF LogInv, TypeOK
<1>2. CASE UNCHANGED qvars
  BY <1>1, <1>2, QueueRest
<1>3. ASSUME NEW w \in Writers, PushLine(w) PROVE QueueStep
  <2>1. Line(w) \in Lines
    BY <1>3, LineIsLine DEF PushLine
  <2> QED
    BY <1>1, <1>3, <2>1, QueueRest DEF PushLine, QueueStep
<1>4. CASE LogThreadPops
  BY <1>1, <1>4, QueueRest DEF LogThreadPops, QueueStep
<1>5. CASE LogThreadWakes
  BY <1>1, <1>5, QueueRest DEF LogThreadWakes
<1>6. CASE Midnight \/ LogThreadPuts \/ UNCHANGED vars
  BY <1>2, <1>6 DEF Midnight, LogThreadPuts, vars
<1>7. ASSUME NEW w \in Writers,
             ReadTime(w) \/ Localtime(w) \/ CopyTime(w) \/ ChooseFile(w)
               \/ AskFull(w) \/ PutLine(w)
      PROVE  QueueStep
  BY <1>2, <1>7 DEF ReadTime, Localtime, CopyTime, ChooseFile, AskFull, PutLine
<1> QED
  BY <1>3, <1>4, <1>5, <1>6, <1>7 DEF Next, WriterStep, LogThreadStep

(* fputs() adds one entry. *)
LEMMA PutAdds ==
    ASSUME LogInv, NEW line \in Lines, NEW by \in {"caller", "log_thread"},
           Put(line, by)
    PROVE  /\ files' \in Seq(Entry)
           /\ files' = Append(files, [line |-> line, file |-> m_fp, by |-> by])
<1>1. [line |-> line, file |-> m_fp, by |-> by] \in Entry
  BY DEF LogInv, TypeOK, Entry
<1>2. files \in Seq(Entry)
  BY DEF LogInv
<1>3. Append(files, [line |-> line, file |-> m_fp, by |-> by]) \in Seq(Entry)
  BY <1>1, <1>2, EntryMore
<1> QED
  BY <1>3 DEF Put

(* The state of the calls and the file keep their types.                   *)
LEMMA TypesStep ==
    ASSUME LogInv, [Next]_vars
    PROVE  /\ m_is_async' \in BOOLEAN
           /\ m_today' \in 1..Days /\ day' \in 1..Days /\ sys_tm' \in 1..Days
           /\ m_count' \in Nat /\ m_fp' \in File
           /\ pc' \in [Writers -> Pcs]
           /\ t' \in [Writers -> 1..Days] /\ my_tm' \in [Writers -> 1..Days]
           /\ burst' \in SUBSET (1..Days)
           /\ calls' \in [Writers -> 0..MaxLines]
           /\ Begun'
<1> DEFINE Goal == /\ m_is_async' \in BOOLEAN
                   /\ m_today' \in 1..Days /\ day' \in 1..Days
                   /\ sys_tm' \in 1..Days
                   /\ m_count' \in Nat /\ m_fp' \in File
                   /\ pc' \in [Writers -> Pcs]
                   /\ t' \in [Writers -> 1..Days]
                   /\ my_tm' \in [Writers -> 1..Days]
                   /\ burst' \in SUBSET (1..Days)
                   /\ calls' \in [Writers -> 0..MaxLines]
                   /\ Begun'
<1> SUFFICES Goal
  OBVIOUS
<1>1. /\ m_is_async \in BOOLEAN
      /\ m_today \in 1..Days /\ day \in 1..Days /\ sys_tm \in 1..Days
      /\ m_count \in Nat /\ m_fp \in File
      /\ pc \in [Writers -> Pcs]
      /\ t \in [Writers -> 1..Days] /\ my_tm \in [Writers -> 1..Days]
      /\ burst \in SUBSET (1..Days)
      /\ calls \in [Writers -> 0..MaxLines]
      /\ Begun
  BY DEF LogInv, TypeOK
<1>2. CASE Midnight
  BY <1>1, <1>2, LogAssumption DEF Midnight, filevars, timevars, Begun
<1>3. ASSUME NEW w \in Writers, ReadTime(w) PROVE Goal
  BY <1>1, <1>3, LogAssumption DEF ReadTime, Goto, Pcs, filevars, Begun
<1>4. ASSUME NEW w \in Writers, Localtime(w) \/ CopyTime(w) PROVE Goal
  BY <1>1, <1>4 DEF Localtime, CopyTime, Goto, Pcs, filevars, Begun
<1>5. ASSUME NEW w \in Writers, ChooseFile(w) PROVE Goal
  <2>1. /\ UNCHANGED <<m_is_async, day, timevars, calls>>
        /\ pc' \in [Writers -> Pcs] /\ Begun'
    BY <1>1, <1>5 DEF ChooseFile, Goto, Pcs, Begun
  <2>2. my_tm[w] \in 1..Days
    BY <1>1
  <2>3. \A k \in Nat : k % m_split_lines \in 0..(m_split_lines - 1)
    BY LogAssumption
  <2>4. m_today' \in 1..Days /\ m_count' \in Nat /\ m_fp' \in File
    BY <1>1, <1>5, <2>2, <2>3
    DEF ChooseFile, NewDay, Split, File, FileName, Nothing
  <2> QED
    BY <1>1, <2>1, <2>4 DEF timevars
<1>6. ASSUME NEW w \in Writers, AskFull(w) PROVE Goal
  BY <1>1, <1>6 DEF AskFull, Goto, Pcs, filevars, timevars, Begun
<1>7. ASSUME NEW w \in Writers, PushLine(w) \/ PutLine(w) PROVE Goal
  BY <1>1, <1>7 DEF PushLine, PutLine, Goto, Pcs, filevars, timevars, Begun
<1>8. CASE LogThreadStep \/ LogThreadWakes \/ UNCHANGED vars
  BY <1>1, <1>8
  DEF LogThreadStep, LogThreadPops, LogThreadPuts, LogThreadWakes, filevars,
      timevars, Begun, vars
<1> QED
  BY <1>2, <1>3, <1>4, <1>5, <1>6, <1>7, <1>8 DEF Next, WriterStep

(* The lines that are in hand, written or dropped are lines.               *)
LEMMA LinesStep ==
    ASSUME LogInv, [Next]_vars
    PROVE  /\ files' \in Seq(Entry)
           /\ dropped' \in SUBSET Lines
           /\ putting' \in BOOLEAN /\ (putting' => item'[log_thread] \in Lines)
<1> DEFINE Goal == /\ files' \in Seq(Entry)
                   /\ dropped' \in SUBSET Lines
                   /\ putting' \in BOOLEAN
                   /\ (putting' => item'[log_thread] \in Lines)
<1> SUFFICES Goal
  OBVIOUS
<1>1. /\ files \in Seq(Entry) /\ dropped \in SUBSET Lines /\ putting \in BOOLEAN
      /\ putting => item[log_thread] \in Lines
  BY DEF LogInv, TypeOK, Queue!TypeOK
<1>2. CASE UNCHANGED <<files, dropped, putting, item>>
  BY <1>1, <1>2
<1>3. CASE Midnight \/ LogThreadWakes \/ UNCHANGED vars
  BY <1>2, <1>3 DEF Midnight, LogThreadWakes, Queue!SpuriousWakeup, qvars, vars
<1>4. ASSUME NEW w \in Writers,
             ReadTime(w) \/ Localtime(w) \/ CopyTime(w) \/ ChooseFile(w)
               \/ AskFull(w)
      PROVE  Goal
  BY <1>2, <1>4 DEF ReadTime, Localtime, CopyTime, ChooseFile, AskFull, qvars
<1>5. ASSUME NEW w \in Writers, PushLine(w) PROVE Goal
  <2>1. Line(w) \in Lines
    BY <1>5, LineIsLine DEF PushLine
  <2>2. dropped' \in SUBSET Lines /\ UNCHANGED <<files, putting, item>>
    BY <1>1, <1>5, <2>1 DEF PushLine, Queue!Push, Queue!PushFull
  <2> QED
    BY <1>1, <2>2
<1>6. ASSUME NEW w \in Writers, PutLine(w) PROVE Goal
  <2>1. Line(w) \in Lines
    BY <1>6, LineIsLine DEF PutLine
  <2>2. files' \in Seq(Entry)
    BY <1>6, <2>1, PutAdds DEF PutLine
  <2> QED
    BY <1>1, <1>6, <2>2 DEF PutLine, qvars
<1>7. CASE LogThreadPuts
  <2>1. item[log_thread] \in Lines
    BY <1>1, <1>7 DEF LogThreadPuts
  <2>2. files' \in Seq(Entry)
    BY <1>7, <2>1, PutAdds DEF LogThreadPuts
  <2> QED
    BY <1>1, <1>7, <2>2 DEF LogThreadPuts
<1>8. CASE LogThreadPops
  <2>1. UNCHANGED <<files, dropped>>
    BY <1>8 DEF LogThreadPops
  <2>2. CASE Queue!Pop(log_thread) /\ putting' = TRUE
    BY <1>1, <2>1, <2>2, PopTakesHead DEF LogInv, TypeOK, RingInv
  <2>3. CASE Queue!PopWait(log_thread) /\ UNCHANGED putting
    BY <1>2, <2>1, <2>3 DEF Queue!PopWait
  <2> QED
    BY <1>8, <2>2, <2>3 DEF LogThreadPops
<1> QED
  BY <1>3, <1>4, <1>5, <1>6, <1>7, <1>8 DEF Next, WriterStep, LogThreadStep

LEMMA LogInvStep == LogInv /\ [Next]_vars => LogInv'
<1> SUFFICES ASSUME LogInv, [Next]_vars PROVE LogInv'
  OBVIOUS
<1>1. Queue!TypeOK' /\ Ring'
  BY StepOfQueue, QueueStepIsFifo DEF LogInv, TypeOK, RingInv
<1>2. files' \in Seq(Entry) /\ (putting' => item'[log_thread] \in Lines)
  BY LinesStep
<1>3. \A i \in DOMAIN files' : files'[i].line \in Lines /\ files'[i].file \in File
  BY <1>2, EntryAt
<1>4. putting' => item'[log_thread] # NULL
  BY <1>2, LogAssumption DEF Lines
<1> QED
  BY <1>1, <1>2, <1>3, <1>4, LinesStep, TypesStep DEF LogInv, TypeOK

(* Every variable keeps its type; the ring's indices stay within it, and   *)
(* the log thread puts only a line it popped.                              *)
THEOREM TypeCorrect == Spec => []TypeOK
<1>1. LogInv => TypeOK
  BY DEF LogInv
<1> QED
  BY <1>1, LogInvInit, LogInvStep, PTL DEF Spec

(* Whatever the writers and the log thread do, the ring is a bounded FIFO  *)
(* queue of any size (block_queue.h:157-206).                              *)
THEOREM FifoRefined == Spec => ImplementsFifo
<1>1. Init => Queue!Contents = <<>>
  BY RingInit DEF Init
<1>2. LogInv /\ [Next]_vars => [Queue!Fifo!Next]_<<Queue!Contents, item>>
  BY StepOfQueue, QueueStepIsFifo DEF LogInv, TypeOK, RingInv
<1> QED
  BY <1>1, <1>2, LogInvInit, LogInvStep, PTL
  DEF Spec, ImplementsFifo, Queue!ImplementsFifo, Queue!Fifo!Spec
-----------------------------------------------------------------------------
(* Each line once. *)

(* A line is in a place. *)
LEMMA InPlaces ==
    ASSUME NEW line, NEW p
    PROVE  p \in Places(line) <=>
              \/ \E i \in DOMAIN files : files[i].line = line /\ p = <<"file", i>>
              \/ \E i \in 1..m_size : Queue!Contents[i] = line /\ p = <<"queue", i>>
              \/ putting /\ item[log_thread] = line /\ p = <<"thread", 0>>
              \/ line \in dropped /\ p = <<"dropped", 0>>
  BY DEF Places

(* A line is in a place after a step. *)
LEMMA InPlacesNext ==
    ASSUME NEW line, NEW p
    PROVE  p \in Places(line)' <=>
              \/ \E i \in DOMAIN files' : files'[i].line = line /\ p = <<"file", i>>
              \/ \E i \in 1..m_size' : Queue!Contents'[i] = line /\ p = <<"queue", i>>
              \/ putting' /\ item'[log_thread] = line /\ p = <<"thread", 0>>
              \/ line \in dropped' /\ p = <<"dropped", 0>>
  BY DEF Places

(* Nothing moves. *)
LEMMA PlacesSame ==
    ASSUME UNCHANGED <<files, m_size, Queue!Contents, putting, item, dropped>>,
           NEW line
    PROVE  Places(line)' = Places(line)
  BY DEF Places

(* The queue as a sequence of lines. *)
LEMMA ContentsType ==
    LogInv => /\ m_size \in Nat /\ Queue!Contents \in Seq(Lines)
              /\ Len(Queue!Contents) = m_size
<1> SUFFICES ASSUME LogInv
             PROVE  /\ m_size \in Nat /\ Queue!Contents \in Seq(Lines)
                    /\ Len(Queue!Contents) = m_size
  OBVIOUS
<1>1. m_size \in Nat
  BY LogAssumption DEF LogInv, TypeOK, Queue!TypeOK
<1>2. Queue!Contents = [i \in 1..m_size |-> m_array[Slot(m_front, i)]]
  BY ContentsBySlot DEF LogInv, TypeOK
<1>3. \A i \in 1..m_size : m_array[Slot(m_front, i)] \in Lines
  BY DEF LogInv, Ring
<1> QED
  BY <1>1, <1>2, <1>3

(* push() puts a line at the end of the queue. *)
LEMMA PlacesPush ==
    ASSUME LogInv, NEW x \in Lines, Queue!Push(x),
           UNCHANGED <<files, putting, dropped>>, NEW line
    PROVE  Places(line)' =
             Places(line) \cup IF x = line THEN {<<"queue", m_size + 1>>} ELSE {}
<1>1. Queue!Contents' = Append(Queue!Contents, x) /\ m_size' = m_size + 1 /\ item' = item
  BY PushAppends DEF Queue!Push, LogInv, TypeOK, RingInv
<1>2. m_size \in Nat /\ Queue!Contents \in Seq(Lines) /\ Len(Queue!Contents) = m_size
  BY ContentsType
<1>3. /\ \A i \in 1..m_size : Queue!Contents'[i] = Queue!Contents[i]
      /\ Queue!Contents'[m_size + 1] = x
  BY <1>1, <1>2
<1>4. ASSUME NEW p
      PROVE  p \in Places(line)' <=>
               p \in Places(line) \/ (x = line /\ p = <<"queue", m_size + 1>>)
  BY <1>1, <1>2, <1>3, InPlaces, InPlacesNext
<1> QED
  BY <1>4

(* A line push() does not take is dropped. *)
LEMMA PlacesDrop ==
    ASSUME NEW x, dropped' = dropped \cup {x},
           UNCHANGED <<files, m_size, Queue!Contents, putting, item>>, NEW line
    PROVE  Places(line)' =
             Places(line) \cup IF x = line THEN {<<"dropped", 0>>} ELSE {}
<1>1. ASSUME NEW p
      PROVE  p \in Places(line)' <=>
               p \in Places(line) \/ (x = line /\ p = <<"dropped", 0>>)
  BY InPlaces, InPlacesNext
<1> QED
  BY <1>1

(* fputs() by a caller puts its line at the end of the files. *)
LEMMA PlacesPut ==
    ASSUME LogInv, NEW x \in Lines, Put(x, "caller"),
           UNCHANGED <<dropped, m_size, Queue!Contents, putting, item>>, NEW line
    PROVE  Places(line)' =
             Places(line) \cup IF x = line THEN {<<"file", Len(files) + 1>>} ELSE {}
<1> DEFINE e == [line |-> x, file |-> m_fp, by |-> "caller"]
<1>1. files' = Append(files, e) /\ e \in Entry /\ e.line = x
  BY DEF Put, LogInv, TypeOK, Entry
<1> HIDE DEF e
<1>2. /\ DOMAIN files = 1..Len(files) /\ Len(files) \in Nat
      /\ DOMAIN files' = 1..(Len(files) + 1)
      /\ \A i \in 1..Len(files) : files'[i] = files[i]
      /\ files'[Len(files) + 1] = e
  BY <1>1, EntryMore DEF LogInv
<1>3. ASSUME NEW p
      PROVE  p \in Places(line)' <=>
               p \in Places(line) \/ (x = line /\ p = <<"file", Len(files) + 1>>)
  BY <1>1, <1>2, InPlaces, InPlacesNext
<1> QED
  BY <1>3

(* Where a place of the queue is after pop(): the head is in the hand of   *)
(* the log thread, the rest has moved up.                                  *)
Up(p) == IF p = <<"queue", 1>> THEN <<"thread", 0>>
         ELSE IF p[1] = "queue" THEN <<"queue", p[2] - 1>> ELSE p

LEMMA PlacesPop ==
    ASSUME LogInv, ~putting, putting', Queue!Pop(log_thread),
           UNCHANGED <<files, dropped>>, NEW line
    PROVE  Places(line)' = {Up(p) : p \in Places(line)}
<1>1. /\ m_size > 0 /\ m_size' = m_size - 1
      /\ Queue!Contents' = Tail(Queue!Contents)
      /\ item'[log_thread] = Head(Queue!Contents)
  BY PopTakesHead DEF Queue!Pop, LogInv, TypeOK, RingInv, Queue!TypeOK
<1>2. m_size \in Nat /\ Queue!Contents \in Seq(Lines) /\ Len(Queue!Contents) = m_size
  BY ContentsType
<1>3. /\ \A i \in 1..m_size' : Queue!Contents'[i] = Queue!Contents[i + 1]
      /\ item'[log_thread] = Queue!Contents[1]
  BY <1>1, <1>2
<1>4. ASSUME NEW p \in Places(line) PROVE Up(p) \in Places(line)'
  <2>1. CASE \E i \in DOMAIN files : files[i].line = line /\ p = <<"file", i>>
    BY <2>1, InPlacesNext DEF Up
  <2>2. ASSUME NEW i \in 1..m_size, Queue!Contents[i] = line, p = <<"queue", i>>
        PROVE  Up(p) \in Places(line)'
    <3>1. CASE i = 1
      BY <1>3, <2>2, <3>1, InPlacesNext DEF Up
    <3>2. CASE i # 1
      <4>1. Up(p) = <<"queue", i - 1>> /\ i - 1 \in 1..m_size'
        BY <1>1, <1>2, <2>2, <3>2 DEF Up
      <4> QED
        BY <1>3, <2>2, <4>1, InPlacesNext
    <3> QED
      BY <3>1, <3>2
  <2>3. CASE line \in dropped /\ p = <<"dropped", 0>>
    BY <2>3, InPlacesNext DEF Up
  <2> QED
    BY <2>1, <2>2, <2>3, InPlaces
<1>5. ASSUME NEW q \in Places(line)' PROVE \E p \in Places(line) : q = Up(p)
  <2>1. CASE \E i \in DOMAIN files' : files'[i].line = line /\ q = <<"file", i>>
    <3>1. q \in Places(line) /\ Up(q) = q
      BY <2>1, InPlaces DEF Up
    <3> QED
      BY <3>1
  <2>2. ASSUME NEW i \in 1..m_size', Queue!Contents'[i] = line, q = <<"queue", i>>
        PROVE  \E p \in Places(line) : q = Up(p)
    <3>1. i + 1 \in 1..m_size /\ i + 1 # 1 /\ Queue!Contents[i + 1] = line
      BY <1>1, <1>2, <1>3, <2>2
    <3>2. <<"queue", i + 1>> \in Places(line) /\ q = Up(<<"queue", i + 1>>)
      BY <2>2, <3>1, InPlaces DEF Up
    <3> QED
      BY <3>2
  <2>3. CASE putting' /\ item'[log_thread] = line /\ q = <<"thread", 0>>
    <3>1. <<"queue", 1>> \in Places(line) /\ q = Up(<<"queue", 1>>)
      BY <1>1, <1>2, <1>3, <2>3, InPlaces DEF Up
    <3> QED
      BY <3>1
  <2>4. CASE line \in dropped' /\ q = <<"dropped", 0>>
    <3>1. q \in Places(line) /\ Up(q) = q
      BY <2>4, InPlaces DEF Up
    <3> QED
      BY <3>1
  <2> QED
    BY <2>1, <2>2, <2>3, <2>4, InPlacesNext
<1> QED
  BY <1>4, <1>5

(* Where a place is after the log thread's fputs(): its line is the last   *)
(* of the files.                                                           *)
Down(p) == IF p = <<"thread", 0>> THEN <<"file", Len(files) + 1>> ELSE p

LEMMA PlacesPutByThread ==
    ASSUME LogInv, LogThreadPuts, NEW line
    PROVE  Places(line)' = {Down(p) : p \in Places(line)}
<1> DEFINE x == item[log_thread]
           e == [line |-> x, file |-> m_fp, by |-> "log_thread"]
<1>1. /\ putting /\ ~putting' /\ files' = Append(files, e)
      /\ UNCHANGED <<m_size, Queue!Contents, item, dropped>>
  BY DEF LogThreadPuts, Put, qvars, Queue!Contents
<1>2. e \in Entry /\ e.line = x
  BY <1>1, LogAssumption DEF LogInv, TypeOK, Queue!TypeOK, Entry
<1> HIDE DEF e
<1>3. /\ DOMAIN files = 1..Len(files) /\ Len(files) \in Nat
      /\ DOMAIN files' = 1..(Len(files) + 1)
      /\ \A i \in 1..Len(files) : files'[i] = files[i]
      /\ files'[Len(files) + 1] = e
  BY <1>1, <1>2, EntryMore DEF LogInv
<1>4. ASSUME NEW p \in Places(line) PROVE Down(p) \in Places(line)'
  BY <1>1, <1>2, <1>3, InPlaces, InPlacesNext DEF Down
<1>5. ASSUME NEW q \in Places(line)' PROVE \E p \in Places(line) : q = Down(p)
  <2>1. CASE q = <<"file", Len(files) + 1>>
    <3>1. x = line
      BY <1>2, <1>3, <2>1, InPlacesNext
    <3>2. <<"thread", 0>> \in Places(line) /\ q = Down(<<"thread", 0>>)
      BY <1>1, <2>1, <3>1, InPlaces DEF Down
    <3> QED
      BY <3>2
  <2>2. CASE q # <<"file", Len(files) + 1>>
    <3>1. q \in Places(line) /\ Down(q) = q
      BY <1>1, <1>3, <2>2, InPlaces, InPlacesNext DEF Down
    <3> QED
      BY <3>1
  <2> QED
    BY <2>1, <2>2
<1> QED
  BY <1>4, <1>5

-----------------------------------------------------------------------------
(* The call that makes this line has returned. *)
Done(w, n) == n < calls[w] \/ (n = calls[w] /\ pc[w] = "idle")

(* EachLineOnce, for one line. *)
Once(w, n) ==
    IF Done(w, n) THEN \E p \in Places(<<w, n>>) : Places(<<w, n>>) = {p}
                  ELSE Places(<<w, n>>) = {}

(* EachLineOnce made inductive: only an asynchronous log pushes.           *)
OnceInv ==
    /\ LogInv
    /\ \A w \in Writers, n \in 1..MaxLines : Once(w, n)
    /\ dropped # {} => m_is_async
    /\ \A w \in Writers : pc[w] = "push" => m_is_async

LEMMA OnceInvInit == Init => OnceInv
<1> SUFFICES ASSUME Init PROVE OnceInv
  OBVIOUS
<1>1. LogInv
  BY LogInvInit
<1>2. ASSUME NEW w \in Writers, NEW n \in 1..MaxLines PROVE Once(w, n)
  <2>1. ~Done(w, n)
    BY LogAssumption DEF Init, Done
  <2>2. files = <<>> /\ m_size = 0 /\ ~putting /\ dropped = {}
    BY DEF Init, Queue!Init
  <2>3. Places(<<w, n>>) = {}
    BY <2>2, InPlaces
  <2> QED
    BY <2>1, <2>3 DEF Once
<1> QED
  BY <1>1, <1>2 DEF OnceInv, Init

(* A step that moves each line from its place to another. *)
LEMMA OnceMoved ==
    ASSUME NEW w, NEW n, Once(w, n), Done(w, n)' <=> Done(w, n),
           \/ Places(<<w, n>>)' = {Up(p) : p \in Places(<<w, n>>)}
           \/ Places(<<w, n>>)' = {Down(p) : p \in Places(<<w, n>>)}
    PROVE  Once(w, n)'
<1>1. CASE Done(w, n)
  <2>1. PICK p \in Places(<<w, n>>) : Places(<<w, n>>) = {p}
    BY <1>1 DEF Once
  <2>2. Places(<<w, n>>)' = {Up(p)} \/ Places(<<w, n>>)' = {Down(p)}
    BY <2>1
  <2> QED
    BY <1>1, <2>2 DEF Once
<1>2. CASE ~Done(w, n)
  BY <1>2 DEF Once
<1> QED
  BY <1>1, <1>2

(* A step that ends a call and puts its line somewhere. *)
LEMMA OnceAdded ==
    ASSUME OnceInv, NEW w \in Writers, pc[w] # "idle", Goto(w, "idle"),
           UNCHANGED calls, NEW q,
           \A line : Places(line)' =
              Places(line) \cup IF Line(w) = line THEN {q} ELSE {}
    PROVE  \A v \in Writers, n \in 1..MaxLines : Once(v, n)'
<1> SUFFICES ASSUME NEW v \in Writers, NEW n \in 1..MaxLines PROVE Once(v, n)'
  OBVIOUS
<1>1. /\ Once(v, n) /\ pc \in [Writers -> Pcs] /\ calls \in [Writers -> 0..MaxLines]
      /\ pc' = [pc EXCEPT ![w] = "idle"] /\ calls' = calls
  BY DEF OnceInv, LogInv, TypeOK, Goto
<1>2. CASE v = w /\ n = calls[w]
  <2>1. ~Done(v, n) /\ Done(v, n)' /\ Line(w) = <<v, n>>
    BY <1>1, <1>2 DEF Done, Line
  <2>2. Places(<<v, n>>)' = {q}
    BY <1>1, <2>1 DEF Once
  <2> QED
    BY <2>1, <2>2 DEF Once
<1>3. CASE ~(v = w /\ n = calls[w])
  <2>1. Line(w) # <<v, n>>
    BY <1>3 DEF Line
  <2>2. Done(v, n)' <=> Done(v, n)
    BY <1>1, <1>3 DEF Done
  <2>3. Places(<<v, n>>)' = Places(<<v, n>>)
    BY <2>1
  <2> QED
    BY <1>1, <2>2, <2>3 DEF Once
<1> QED
  BY <1>2, <1>3

LEMMA OnceInvStep == OnceInv /\ [Next]_vars => OnceInv'
<1> SUFFICES ASSUME OnceInv, [Next]_vars PROVE OnceInv'
  OBVIOUS
<1> DEFINE Goal == \A v \in Writers, n \in 1..MaxLines : Once(v, n)'
<1>1. /\ LogInv /\ LogInv'
      /\ pc \in [Writers -> Pcs] /\ calls \in [Writers -> 0..MaxLines]
      /\ \A v \in Writers, n \in 1..MaxLines : Once(v, n)
  BY LogInvStep DEF OnceInv, LogInv, TypeOK
<1>2. ASSUME UNCHANGED <<files, m_size, Queue!Contents, putting, item, dropped>>,
             \A v \in Writers, n \in 1..MaxLines : Done(v, n)' <=> Done(v, n)
      PROVE  Goal
  BY <1>1, <1>2, PlacesSame DEF Once
<1>3. ASSUME UNCHANGED <<files, qvars, putting, dropped>>,
             \A v \in Writers, n \in 1..MaxLines : Done(v, n)' <=> Done(v, n)
      PROVE  Goal
  BY <1>2, <1>3 DEF qvars, Queue!Contents
<1>4. Goal
  <2>1. CASE Midnight \/ UNCHANGED vars
    <3>1. UNCHANGED <<files, qvars, putting, dropped>> /\ UNCHANGED <<pc, calls>>
      BY <2>1 DEF Midnight, vars
    <3> QED
      BY <1>3, <3>1 DEF Done
  <2>2. ASSUME NEW w \in Writers,
               ReadTime(w) \/ Localtime(w) \/ CopyTime(w) \/ ChooseFile(w) \/ AskFull(w)
        PROVE  Goal
    <3>1. UNCHANGED <<files, qvars, putting, dropped>>
      BY <2>2 DEF ReadTime, Localtime, CopyTime, ChooseFile, AskFull
    <3>2. \A v \in Writers, n \in 1..MaxLines : Done(v, n)' <=> Done(v, n)
      BY <1>1, <2>2 DEF ReadTime, Localtime, CopyTime, ChooseFile, AskFull, Goto, Done
    <3> QED
      BY <1>3, <3>1, <3>2
  <2>3. ASSUME NEW w \in Writers, PushLine(w) PROVE Goal
    <3>1. pc[w] # "idle" /\ Goto(w, "idle") /\ UNCHANGED calls /\ Line(w) \in Lines
      BY <1>1, <2>3, LineIsLine DEF PushLine
    <3>2. CASE Queue!Push(Line(w)) /\ UNCHANGED dropped
      <4>1. UNCHANGED <<files, putting, dropped>>
        BY <2>3, <3>2 DEF PushLine
      <4>2. \A line : Places(line)' = Places(line)
               \cup IF Line(w) = line THEN {<<"queue", m_size + 1>>} ELSE {}
        BY <1>1, <3>1, <3>2, <4>1, PlacesPush
      <4> QED
        BY <3>1, <4>2, OnceAdded
    <3>3. CASE Queue!PushFull /\ dropped' = dropped \cup {Line(w)}
      <4>1. UNCHANGED <<files, m_size, Queue!Contents, putting, item>>
        BY <2>3, <3>3 DEF PushLine, Queue!PushFull, Queue!ring, Queue!Contents
      <4>2. \A line : Places(line)' = Places(line)
               \cup IF Line(w) = line THEN {<<"dropped", 0>>} ELSE {}
        BY <3>3, <4>1, PlacesDrop
      <4> QED
        BY <3>1, <4>2, OnceAdded
    <3> QED
      BY <2>3, <3>2, <3>3 DEF PushLine
  <2>4. ASSUME NEW w \in Writers, PutLine(w) PROVE Goal
    <3>1. pc[w] # "idle" /\ Goto(w, "idle") /\ UNCHANGED calls /\ Line(w) \in Lines
      BY <1>1, <2>4, LineIsLine DEF PutLine
    <3>2. Put(Line(w), "caller")
          /\ UNCHANGED <<dropped, m_size, Queue!Contents, putting, item>>
      BY <2>4 DEF PutLine, qvars, Queue!Contents
    <3>3. \A line : Places(line)' = Places(line)
             \cup IF Line(w) = line THEN {<<"file", Len(files) + 1>>} ELSE {}
      BY <1>1, <3>1, <3>2, PlacesPut
    <3> QED
      BY <3>1, <3>3, OnceAdded
  <2>5. CASE LogThreadPuts
    <3>1. \A v \in Writers, n \in 1..MaxLines : Done(v, n)' <=> Done(v, n)
      BY <2>5 DEF LogThreadPuts, Done
    <3>2. \A line : Places(line)' = {Down(p) : p \in Places(line)}
      BY <1>1, <2>5, PlacesPutByThread
    <3> QED
      BY <1>1, <3>1, <3>2, OnceMoved
  <2>6. CASE LogThreadPops
    <3>1. UNCHANGED <<files, dropped, pc, calls>> /\ ~putting
      BY <2>6 DEF LogThreadPops
    <3>2. \A v \in Writers, n \in 1..MaxLines : Done(v, n)' <=> Done(v, n)
      BY <3>1 DEF Done
    <3>3. CASE Queue!Pop(log_thread) /\ putting' = TRUE
      <4>1. \A line : Places(line)' = {Up(p) : p \in Places(line)}
        BY <1>1, <3>1, <3>3, PlacesPop
      <4> QED
        BY <1>1, <3>2, <4>1, OnceMoved
    <3>4. CASE Queue!PopWait(log_thread) /\ UNCHANGED putting
      <4>1. UNCHANGED <<files, m_size, Queue!Contents, putting, item, dropped>>
        BY <3>1, <3>4 DEF Queue!PopWait, Queue!ring, Queue!Contents
      <4> QED
        BY <1>2, <3>2, <4>1
    <3> QED
      BY <2>6, <3>3, <3>4 DEF LogThreadPops
  <2>7. CASE LogThreadWakes
    <3>1. UNCHANGED <<files, m_size, Queue!Contents, putting, item, dropped>>
      BY <2>7 DEF LogThreadWakes, Queue!SpuriousWakeup, Queue!ring, Queue!Contents
    <3>2. \A v \in Writers, n \in 1..MaxLines : Done(v, n)' <=> Done(v, n)
      BY <2>7 DEF LogThreadWakes, Done
    <3> QED
      BY <1>2, <3>1, <3>2
  <2> QED
    BY <2>1, <2>2, <2>3, <2>4, <2>5, <2>6, <2>7 DEF Next, WriterStep, LogThreadStep
<1>5. (dropped' # {} => m_is_async') /\ \A w \in Writers : pc'[w] = "push" => m_is_async'
  <2>1. UNCHANGED m_is_async
    BY DEF Next, WriterStep, LogThreadStep, Midnight, ReadTime, Localtime, CopyTime,
           ChooseFile, AskFull, PushLine, PutLine, LogThreadPops, LogThreadPuts,
           LogThreadWakes, vars
  <2>2. dropped' = dropped \/ \E w \in Writers : pc[w] = "push"
    BY DEF Next, WriterStep, LogThreadStep, Midnight, ReadTime, Localtime, CopyTime,
           ChooseFile, AskFull, PushLine, PutLine, LogThreadPops, LogThreadPuts,
           LogThreadWakes, vars
  <2>3. \A w \in Writers : pc'[w] = "push" => pc[w] = "push" \/ m_is_async
    BY <1>1 DEF Next, WriterStep, LogThreadStep, Midnight, ReadTime, Localtime,
           CopyTime, ChooseFile, AskFull, PushLine, PutLine, LogThreadPops,
           LogThreadPuts, LogThreadWakes, vars, Goto
  <2> QED
    BY <2>1, <2>2, <2>3 DEF OnceInv
<1> QED
  BY <1>1, <1>4, <1>5 DEF OnceInv

(* No line is written twice, and none is lost but one that push() found no *)
(* room for (log.cpp:178-188).                                             *)
THEOREM EachLineOnceHolds == Spec => []EachLineOnce
<1>1. OnceInv => EachLineOnce
  BY DEF OnceInv, Once, Done, EachLineOnce
<1> QED
  BY <1>1, OnceInvInit, OnceInvStep, PTL DEF Spec
-----------------------------------------------------------------------------
(* The order of the lines of one caller. *)

(* Line a is not a later line of b's caller. *)
Before(a, b) == a[1] = b[1] => a[2] < b[2]

(* OrderKept made inductive: the queued lines are in order, the line in    *)
(* the log thread's hand is before them, and what the log thread has       *)
(* written is before both.                                                 *)
Queued == \A i, j \in 1..m_size :
             i < j => Before(Queue!Contents[i], Queue!Contents[j])
InHand == putting => \A j \in 1..m_size : Before(item[log_thread], Queue!Contents[j])
Written ==
    \A i \in DOMAIN files : files[i].by = "log_thread" =>
        /\ putting => Before(files[i].line, item[log_thread])
        /\ \A j \in 1..m_size : Before(files[i].line, Queue!Contents[j])
OrderInv == OnceInv /\ Queued /\ InHand /\ Written /\ OrderKept

LEMMA OrderInvInit == Init => OrderInv
<1> SUFFICES ASSUME Init PROVE OrderInv
  OBVIOUS
<1>1. files = <<>> /\ m_size = 0 /\ ~putting
  BY DEF Init, Queue!Init
<1>2. OrderKept /\ Queued /\ InHand /\ Written
  BY <1>1 DEF OrderKept, Queued, InHand, Written
<1> QED
  BY <1>2, OnceInvInit DEF OrderInv

(* The line of a call in progress comes after every line of that caller    *)
(* that is anywhere.                                                       *)
LEMMA LineIsLast ==
    ASSUME OnceInv, NEW w \in Writers, pc[w] # "idle",
           NEW line \in Lines, NEW p \in Places(line)
    PROVE  Before(line, Line(w))
<1> SUFFICES ASSUME line[1] = w PROVE line[2] < calls[w]
  BY DEF Before, Line
<1>1. line = <<w, line[2]>> /\ line[2] \in 1..MaxLines
  BY DEF Lines
<1>2. Once(w, line[2]) /\ Places(<<w, line[2]>>) # {}
  BY <1>1 DEF OnceInv
<1> QED
  BY <1>2 DEF Once, Done

(* A step that leaves queue, hand and files alone. *)
LEMMA OrderUntouched ==
    ASSUME OrderInv, UNCHANGED <<files, m_size, Queue!Contents, item, putting>>
    PROVE  Queued' /\ InHand' /\ Written' /\ OrderKept'
  BY DEF OrderInv, Queued, InHand, Written, OrderKept

LEMMA OrderPush ==
    ASSUME OrderInv, NEW w \in Writers, pc[w] # "idle", Queue!Push(Line(w)),
           UNCHANGED <<files, putting>>
    PROVE  Queued' /\ InHand' /\ Written' /\ OrderKept'
<1> DEFINE x == Line(w)
<1>1. LogInv /\ OnceInv /\ x \in Lines
  BY LineIsLine DEF OrderInv, OnceInv
<1>2. /\ Queue!Contents' = Append(Queue!Contents, x) /\ m_size' = m_size + 1
      /\ item' = item
  BY <1>1, PushAppends DEF Queue!Push, LogInv, TypeOK, RingInv
<1>3. m_size \in Nat /\ Queue!Contents \in Seq(Lines) /\ Len(Queue!Contents) = m_size
  BY <1>1, ContentsType
<1>4. /\ \A i \in 1..m_size : Queue!Contents'[i] = Queue!Contents[i]
      /\ Queue!Contents'[m_size + 1] = x
  BY <1>1, <1>2, <1>3
<1>5. ASSUME NEW i \in 1..m_size PROVE Before(Queue!Contents[i], x)
  <2>1. Queue!Contents[i] \in Lines /\ <<"queue", i>> \in Places(Queue!Contents[i])
    BY <1>3, InPlaces
  <2> QED
    BY <1>1, <2>1, LineIsLast
<1>6. ASSUME putting PROVE Before(item[log_thread], x)
  <2>1. item[log_thread] \in Lines /\ <<"thread", 0>> \in Places(item[log_thread])
    BY <1>1, <1>6, InPlaces DEF LogInv, TypeOK, Queue!TypeOK
  <2> QED
    BY <1>1, <2>1, LineIsLast
<1>7. ASSUME NEW i \in DOMAIN files PROVE Before(files[i].line, x)
  <2>1. files[i].line \in Lines /\ <<"file", i>> \in Places(files[i].line)
    BY <1>1, <1>7, EntryAt, InPlaces DEF LogInv
  <2> QED
    BY <1>1, <2>1, LineIsLast
<1> HIDE DEF x
<1>8. Queued'
  BY <1>2, <1>3, <1>4, <1>5 DEF OrderInv, Queued
<1>9. InHand'
  BY <1>2, <1>3, <1>4, <1>6 DEF OrderInv, InHand
<1>10. Written' /\ OrderKept'
  BY <1>2, <1>3, <1>4, <1>7 DEF OrderInv, Written, OrderKept
<1> QED
  BY <1>8, <1>9, <1>10

LEMMA OrderPop ==
    ASSUME OrderInv, ~putting, Queue!Pop(log_thread), UNCHANGED files
    PROVE  Queued' /\ InHand' /\ Written' /\ OrderKept'
<1>1. LogInv
  BY DEF OrderInv, OnceInv
<1>2. /\ m_size > 0 /\ m_size' = m_size - 1
      /\ Queue!Contents' = Tail(Queue!Contents)
      /\ item'[log_thread] = Head(Queue!Contents)
  BY <1>1, PopTakesHead DEF Queue!Pop, LogInv, TypeOK, RingInv, Queue!TypeOK
<1>3. m_size \in Nat /\ Queue!Contents \in Seq(Lines) /\ Len(Queue!Contents) = m_size
  BY <1>1, ContentsType
<1>4. /\ \A i \in 1..m_size' : i + 1 \in 1..m_size /\ 1 < i + 1
                                 /\ Queue!Contents'[i] = Queue!Contents[i + 1]
      /\ item'[log_thread] = Queue!Contents[1] /\ 1 \in 1..m_size
  BY <1>2, <1>3
<1>5. Queued' /\ InHand'
  BY <1>2, <1>3, <1>4 DEF OrderInv, Queued, InHand
<1>6. Written' /\ OrderKept'
  BY <1>4 DEF OrderInv, Written, OrderKept
<1> QED
  BY <1>5, <1>6

(* A caller's own line is its last one, and the log thread's is after all  *)
(* that the log thread has written.                                        *)
LEMMA OrderPut ==
    ASSUME OrderInv, NEW x \in Lines, NEW by \in {"caller", "log_thread"}, Put(x, by),
           \A i \in DOMAIN files :
              files[i].by = "log_thread" \/ by = "caller" => Before(files[i].line, x)
    PROVE  OrderKept'
<1> DEFINE e == [line |-> x, file |-> m_fp, by |-> by]
<1>1. files' = Append(files, e) /\ e \in Entry /\ e.line = x /\ e.by = by
  BY DEF Put, OrderInv, OnceInv, LogInv, TypeOK, Entry
<1> HIDE DEF e
<1>2. /\ DOMAIN files = 1..Len(files) /\ Len(files) \in Nat
      /\ DOMAIN files' = 1..(Len(files) + 1)
      /\ \A i \in 1..Len(files) : files'[i] = files[i]
      /\ files'[Len(files) + 1] = e
  BY <1>1, EntryMore DEF OrderInv, OnceInv, LogInv
<1>3. \A i \in 1..Len(files) :
        files[i].by \in {"caller", "log_thread"} /\ files[i].line[2] \in Nat
  <2>1. files \in Seq(Entry)
    BY DEF OrderInv, OnceInv, LogInv
  <2>2. ASSUME NEW i \in 1..Len(files)
        PROVE  files[i].by \in {"caller", "log_thread"} /\ files[i].line[2] \in Nat
    <3>1. files[i] \in Entry
      BY <2>1
    <3> QED
      BY <3>1 DEF Entry, Lines
  <2> QED
    BY <2>2
<1>4. x[2] \in Nat
  BY DEF Lines
<1>5. ASSUME NEW i \in DOMAIN files', NEW j \in DOMAIN files', i < j,
             files'[i].line[1] = files'[j].line[1],
             files'[i].line[2] > files'[j].line[2]
      PROVE  files'[i].by = "caller" /\ files'[j].by = "log_thread"
  <2>1. i \in 1..Len(files)
    BY <1>2, <1>5
  <2>2. CASE j \in 1..Len(files)
    BY <1>2, <1>5, <2>1, <2>2 DEF OrderInv, OrderKept
  <2>3. CASE j = Len(files) + 1
    <3>1. ~Before(files[i].line, x)
      BY <1>1, <1>2, <1>3, <1>4, <1>5, <2>1, <2>3 DEF Before
    <3> QED
      BY <1>1, <1>2, <1>3, <2>1, <2>3, <3>1
  <2> QED
    BY <1>2, <2>2, <2>3
<1> QED
  BY <1>5 DEF OrderKept

LEMMA OrderPutByCaller ==
    ASSUME OrderInv, NEW w \in Writers, PutLine(w)
    PROVE  Queued' /\ InHand' /\ Written' /\ OrderKept'
<1> DEFINE x == Line(w)
<1>1. LogInv /\ OnceInv /\ x \in Lines /\ pc[w] # "idle" /\ Put(x, "caller")
      /\ UNCHANGED <<m_size, Queue!Contents, item, putting>>
  BY LineIsLine DEF OrderInv, OnceInv, PutLine, qvars, Queue!Contents
<1>2. ASSUME NEW i \in DOMAIN files PROVE Before(files[i].line, x)
  <2>1. files[i].line \in Lines /\ <<"file", i>> \in Places(files[i].line)
    BY <1>1, <1>2, EntryAt, InPlaces DEF LogInv
  <2> QED
    BY <1>1, <2>1, LineIsLast
<1> HIDE DEF x
<1>3. OrderKept'
  BY <1>1, <1>2, OrderPut
<1>4. \A i \in DOMAIN files' :
        files'[i].by = "log_thread" => i \in DOMAIN files /\ files'[i] = files[i]
  <2> DEFINE e == [line |-> x, file |-> m_fp, by |-> "caller"]
  <2>1. files' = Append(files, e) /\ e \in Entry /\ e.by = "caller"
    BY <1>1 DEF Put, LogInv, TypeOK, Entry
  <2> HIDE DEF e
  <2> QED
    BY <1>1, <2>1, EntryMore DEF LogInv
<1>5. Queued' /\ InHand' /\ Written'
  BY <1>1, <1>4 DEF OrderInv, Queued, InHand, Written
<1> QED
  BY <1>3, <1>5

LEMMA OrderPutByThread ==
    ASSUME OrderInv, LogThreadPuts
    PROVE  Queued' /\ InHand' /\ Written' /\ OrderKept'
<1> DEFINE x == item[log_thread]
<1>1. /\ LogInv /\ putting /\ ~putting' /\ Put(x, "log_thread")
      /\ UNCHANGED <<m_size, Queue!Contents, item>>
  BY DEF OrderInv, OnceInv, LogThreadPuts, qvars, Queue!Contents
<1>2. x \in Lines
  BY <1>1 DEF LogInv, TypeOK, Queue!TypeOK
<1>3. \A j \in 1..m_size : Before(x, Queue!Contents[j])
  BY <1>1 DEF OrderInv, InHand
<1>4. \A i \in DOMAIN files : files[i].by = "log_thread" => Before(files[i].line, x)
  BY <1>1 DEF OrderInv, Written
<1> HIDE DEF x
<1>5. OrderKept'
  BY <1>1, <1>2, <1>4, OrderPut
<1>6. \A i \in DOMAIN files' :
        (i \in DOMAIN files /\ files'[i] = files[i]) \/ files'[i].line = x
  <2> DEFINE e == [line |-> x, file |-> m_fp, by |-> "log_thread"]
  <2>1. files' = Append(files, e) /\ e \in Entry /\ e.line = x
    BY <1>1, <1>2 DEF Put, LogInv, TypeOK, Entry
  <2> HIDE DEF e
  <2> QED
    BY <1>1, <2>1, EntryMore DEF LogInv
<1>7. Queued' /\ InHand' /\ Written'
  BY <1>1, <1>3, <1>6 DEF OrderInv, Queued, InHand, Written
<1> QED
  BY <1>5, <1>7

LEMMA OrderInvStep == OrderInv /\ [Next]_vars => OrderInv'
<1> SUFFICES ASSUME OrderInv, [Next]_vars PROVE OrderInv'
  OBVIOUS
<1> DEFINE Goal == Queued' /\ InHand' /\ Written' /\ OrderKept'
<1>1. OnceInv'
  BY OnceInvStep DEF OrderInv
<1>2. ASSUME UNCHANGED <<files, qvars, putting>> PROVE Goal
  BY <1>2, OrderUntouched DEF qvars, Queue!Contents
<1>3. Goal
  <2>1. CASE Midnight \/ UNCHANGED vars
    BY <1>2, <2>1 DEF Midnight, vars
  <2>2. ASSUME NEW w \in Writers,
               ReadTime(w) \/ Localtime(w) \/ CopyTime(w) \/ ChooseFile(w) \/ AskFull(w)
        PROVE  Goal
    BY <1>2, <2>2 DEF ReadTime, Localtime, CopyTime, ChooseFile, AskFull
  <2>3. ASSUME NEW w \in Writers, PushLine(w) PROVE Goal
    <3>1. pc[w] # "idle" /\ UNCHANGED <<files, putting>>
      BY <2>3 DEF PushLine
    <3>2. CASE Queue!Push(Line(w))
      BY <3>1, <3>2, OrderPush
    <3>3. CASE Queue!PushFull
      <4>1. UNCHANGED <<m_size, Queue!Contents, item>>
        BY <3>3 DEF Queue!PushFull, Queue!ring, Queue!Contents
      <4> QED
        BY <3>1, <4>1, OrderUntouched
    <3> QED
      BY <2>3, <3>2, <3>3 DEF PushLine
  <2>4. ASSUME NEW w \in Writers, PutLine(w) PROVE Goal
    BY <2>4, OrderPutByCaller
  <2>5. CASE LogThreadPuts
    BY <2>5, OrderPutByThread
  <2>6. CASE LogThreadPops
    <3>1. ~putting /\ UNCHANGED files
      BY <2>6 DEF LogThreadPops
    <3>2. CASE Queue!Pop(log_thread)
      BY <3>1, <3>2, OrderPop
    <3>3. CASE Queue!PopWait(log_thread) /\ UNCHANGED putting
      <4>1. UNCHANGED <<m_size, Queue!Contents, item>>
        BY <3>3 DEF Queue!PopWait, Queue!ring, Queue!Contents
      <4> QED
        BY <3>1, <3>3, <4>1, OrderUntouched
    <3> QED
      BY <2>6, <3>2, <3>3 DEF LogThreadPops
  <2>7. CASE LogThreadWakes
    <3>1. UNCHANGED <<files, m_size, Queue!Contents, item, putting>>
      BY <2>7 DEF LogThreadWakes, Queue!SpuriousWakeup, Queue!ring, Queue!Contents
    <3> QED
      BY <3>1, OrderUntouched
  <2> QED
    BY <2>1, <2>2, <2>3, <2>4, <2>5, <2>6, <2>7 DEF Next, WriterStep, LogThreadStep
<1> QED
  BY <1>1, <1>3 DEF OrderInv

(* The lines of one caller are in the files in their order, but for a line *)
(* the caller wrote past its queued ones (log.cpp:178, 182-188).           *)
THEOREM OrderKeptHolds == Spec => []OrderKept
<1>1. OrderInv => OrderKept
  BY DEF OrderInv
<1> QED
  BY <1>1, OrderInvInit, OrderInvStep, PTL DEF Spec
=============================================================================
