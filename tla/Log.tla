-------------------------------- MODULE Log ---------------------------------
(***************************************************************************)
(* Log (log/log.cpp, log/log.h) over block_queue<string>: threads that     *)
(* call write_log(), the thread that empties the queue, and the clock      *)
(* beside them.                                                            *)
(*                                                                         *)
(* A call of write_log() is split where other threads can come between:    *)
(* the time is read, localtime() fills its static buffer, the buffer is    *)
(* copied, a first section under m_mutex changes the file, the line is     *)
(* made and full() asked, and the line is pushed or written.  The line is  *)
(* formatted in m_buf under m_mutex and is then the caller's own, so its   *)
(* text is the pair of caller and number of the call.  What fputs() has    *)
(* accepted counts as written: flush() changes nothing here.               *)
(***************************************************************************)
EXTENDS Integers, Sequences

CONSTANTS Writers,        \* threads that call write_log()
          log_thread,     \* the thread in flush_log_thread()
          MaxLines,       \* bound: calls of write_log() by one thread
          Days,           \* bound: the last day
          m_split_lines,  \* calls counted before the file is changed
          m_max_size,     \* capacity of the queue
          NULL

ASSUME LogAssumption ==
    /\ m_split_lines \in Nat \ {0} /\ m_max_size \in Nat \ {0}
    /\ MaxLines \in Nat /\ Days \in Nat \ {0}
    /\ NULL \notin Writers \X (1..MaxLines)

VARIABLES m_array, m_size, m_front, m_back, m_cond, cpc, item,  \* m_log_queue
          m_is_async,
          m_today, m_count,
          m_fp,      \* the open file: its day and the end of its name
          files,     \* everything written, in its order
          day,       \* the clock
          sys_tm,    \* localtime()'s static buffer
          pc,        \* where each writer is in write_log()
          t, my_tm,  \* the day each writer read, and the one it goes by
          burst,     \* history: the days calls have read since there was
                     \* last no call in progress
          calls,     \* calls each writer has begun
          putting,   \* the log thread is between pop() and fputs()
          dropped    \* lines push() did not take

Lines == Writers \X (1..MaxLines)

Queue == INSTANCE BlockQueue WITH Consumers <- {log_thread}, Items <- Lines

qvars == <<m_array, m_size, m_front, m_back, m_cond, cpc, item>>
filevars == <<m_today, m_count, m_fp>>
timevars == <<sys_tm, t, my_tm, burst>>
vars == <<qvars, m_is_async, filevars, files, day, timevars, pc, calls, putting,
          dropped>>

(* A name ends in file_name for the file of init(), in nothing for that of *)
(* a new day, and in a number for a split.                                 *)
FileName == -2
Nothing == -1
File == [day : 1..Days, suffix : {FileName, Nothing} \cup 0..(m_split_lines - 1)]

Line(w) == <<w, calls[w]>>

Goto(w, l) == pc' = [pc EXCEPT ![w] = l]

(* fputs() to m_fp, by a writer or by the log thread. *)
Put(line, by) == files' = Append(files, [line |-> line, file |-> m_fp, by |-> by])
-----------------------------------------------------------------------------
(* The constructor and init(), with a queue or without one. *)
Init ==
    /\ Queue!Init
    /\ m_is_async \in BOOLEAN
    /\ m_today = 1
    /\ m_count = 0
    /\ m_fp = [day |-> 1, suffix |-> FileName]
    /\ files = <<>>
    /\ day = 1
    /\ sys_tm = 1
    /\ pc = [w \in Writers |-> "idle"]
    /\ t = [w \in Writers |-> 1]
    /\ my_tm = [w \in Writers |-> 1]
    /\ burst = {}
    /\ calls = [w \in Writers |-> 0]
    /\ putting = FALSE
    /\ dropped = {}

Midnight ==
    /\ day < Days
    /\ day' = day + 1
    /\ UNCHANGED <<qvars, m_is_async, filevars, files, timevars, pc, calls,
                   putting, dropped>>

(* gettimeofday() *)
ReadTime(w) ==
    /\ pc[w] = "idle"
    /\ calls[w] < MaxLines
    /\ calls' = [calls EXCEPT ![w] = @ + 1]
    /\ t' = [t EXCEPT ![w] = day]
    /\ burst' = {day} \cup IF \A v \in Writers : pc[v] = "idle" THEN {} ELSE burst
    /\ Goto(w, "localtime")
    /\ UNCHANGED <<qvars, m_is_async, filevars, files, day, sys_tm, my_tm,
                   putting, dropped>>

(* localtime(&t): every caller gets the same buffer. *)
Localtime(w) ==
    /\ pc[w] = "localtime"
    /\ sys_tm' = t[w]
    /\ Goto(w, "copy")
    /\ UNCHANGED <<qvars, m_is_async, filevars, files, day, t, my_tm, burst,
                   calls, putting, dropped>>

(* my_tm = *sys_tm, which another thread may have filled since. *)
CopyTime(w) ==
    /\ pc[w] = "copy"
    /\ my_tm' = [my_tm EXCEPT ![w] = sys_tm]
    /\ Goto(w, "choose")
    /\ UNCHANGED <<qvars, m_is_async, filevars, files, day, sys_tm, t, burst,
                   calls, putting, dropped>>

(* The day is not m_today: a file of that day. *)
NewDay(today) ==
    /\ m_today' = today
    /\ m_count' = 0
    /\ m_fp' = [day |-> today, suffix |-> Nothing]

(* The split of one day: a suffix is added. *)
Split(today) ==
    /\ m_fp' = [day |-> today, suffix |-> m_count' % m_split_lines]
    /\ UNCHANGED m_today

(* Mutant: the two conditions of the file's change are taken together. *)
ChooseFileBoth(w) ==
    /\ pc[w] = "choose"
    /\ m_count' = m_count + 1
    /\ IF m_today # my_tm[w] /\ m_count' % m_split_lines = 0
         THEN m_today' = my_tm[w] /\ m_fp' = [day |-> my_tm[w], suffix |-> Nothing]
         ELSE UNCHANGED <<m_today, m_fp>>
    /\ Goto(w, "full")
    /\ UNCHANGED <<qvars, m_is_async, files, day, timevars, calls, putting,
                   dropped>>

(* The first section under m_mutex. *)
ChooseFile(w) ==
    /\ pc[w] = "choose"
    /\ \/ m_today # my_tm[w] /\ NewDay(my_tm[w])
       \/ /\ m_today = my_tm[w]
          /\ m_count' = m_count + 1
          /\ IF m_count' % m_split_lines = 0
               THEN Split(my_tm[w]) ELSE UNCHANGED <<m_today, m_fp>>
    /\ Goto(w, "full")
    /\ UNCHANGED <<qvars, m_is_async, files, day, timevars, calls, putting,
                   dropped>>

(* The line is made; m_is_async && !m_log_queue->full(). *)
AskFull(w) ==
    /\ pc[w] = "full"
    /\ Goto(w, IF m_is_async /\ ~Queue!Full THEN "push" ELSE "put")
    /\ UNCHANGED <<qvars, m_is_async, filevars, files, day, timevars, calls,
                   putting, dropped>>

(* m_log_queue->push(), whose result is dropped. *)
PushLine(w) ==
    /\ pc[w] = "push"
    /\ \/ Queue!Push(Line(w)) /\ UNCHANGED dropped
       \/ Queue!PushFull /\ dropped' = dropped \cup {Line(w)}
    /\ Goto(w, "idle")
    /\ UNCHANGED <<m_is_async, filevars, files, day, timevars, calls, putting>>

(* The second branch: the caller writes the line itself. *)
PutLine(w) ==
    /\ pc[w] = "put"
    /\ Put(Line(w), "caller")
    /\ Goto(w, "idle")
    /\ UNCHANGED <<qvars, m_is_async, filevars, day, timevars, calls, putting,
                   dropped>>

(* async_write_log(): m_log_queue->pop(). *)
LogThreadPops ==
    /\ m_is_async /\ ~putting
    /\ \/ Queue!Pop(log_thread) /\ putting' = TRUE
       \/ Queue!PopWait(log_thread) /\ UNCHANGED putting
    /\ UNCHANGED <<m_is_async, filevars, files, day, timevars, pc, calls, dropped>>

LogThreadWakes ==
    /\ Queue!SpuriousWakeup(log_thread)
    /\ UNCHANGED <<m_is_async, filevars, files, day, timevars, pc, calls, putting,
                   dropped>>

(* Mutant: the element is written a second time. *)
LogThreadRepeats ==
    /\ putting
    /\ Put(item[log_thread], "log_thread")
    /\ putting' \in BOOLEAN
    /\ UNCHANGED <<qvars, m_is_async, filevars, day, timevars, pc, calls, dropped>>

(* async_write_log(): fputs() to whatever file is open by now. *)
LogThreadPuts ==
    /\ putting
    /\ Put(item[log_thread], "log_thread")
    /\ putting' = FALSE
    /\ UNCHANGED <<qvars, m_is_async, filevars, day, timevars, pc, calls, dropped>>
-----------------------------------------------------------------------------
WriterStep(w) ==
    \/ ReadTime(w) \/ Localtime(w) \/ CopyTime(w)
    \/ ChooseFile(w) \/ AskFull(w)
    \/ PushLine(w) \/ PutLine(w)

LogThreadStep == LogThreadPops \/ LogThreadPuts

Next ==
    \/ Midnight
    \/ \E w \in Writers : WriterStep(w)
    \/ LogThreadStep
    \/ LogThreadWakes

Spec == Init /\ [][Next]_vars

(* The log thread loops for ever, and no thread is kept out of a free      *)
(* mutex for ever; writers and the clock owe nothing.                      *)
FairSpec == Spec /\ WF_vars(LogThreadStep)
-----------------------------------------------------------------------------
Pcs == {"idle", "localtime", "copy", "choose", "full", "push", "put"}

(* Type invariant; the log thread writes only what it has popped. *)
TypeOK ==
    /\ Queue!TypeOK
    /\ m_is_async \in BOOLEAN /\ putting \in BOOLEAN
    /\ m_today \in 1..Days /\ day \in 1..Days /\ sys_tm \in 1..Days
    /\ m_count \in Nat
    /\ m_fp \in File
    /\ \A i \in DOMAIN files : files[i].line \in Lines /\ files[i].file \in File
    /\ pc \in [Writers -> Pcs]
    /\ t \in [Writers -> 1..Days] /\ my_tm \in [Writers -> 1..Days]
    /\ burst \in SUBSET (1..Days)
    /\ calls \in [Writers -> 0..MaxLines]
    /\ dropped \in SUBSET Lines
    /\ putting => item[log_thread] # NULL

(* Under the log's calls the ring buffer with its three indices is a       *)
(* bounded FIFO queue: pop() returns what push() accepted, in its order,   *)
(* each line once.                                                         *)
ImplementsFifo == Queue!ImplementsFifo

(* The places a line is in: positions of the files, of the queue, the log  *)
(* thread's hand, the lines that were dropped.                             *)
Places(line) ==
    {<<"file", i>> : i \in {j \in DOMAIN files : files[j].line = line}}
      \cup {<<"queue", i>> : i \in {j \in 1..m_size : Queue!Contents[j] = line}}
      \cup {<<"thread", i>> : i \in {j \in {0} : putting /\ item[log_thread] = line}}
      \cup {<<"dropped", i>> : i \in {j \in {0} : line \in dropped}}

(* A line whose write_log() has returned is in one place, and the line of  *)
(* a call in progress in none: nothing is written twice, and nothing is    *)
(* lost but by a push() that meets a queue filled since full() was asked   *)
(* (log.cpp:178-180), which needs the asynchronous mode.                   *)
EachLineOnce ==
    /\ \A w \in Writers, n \in 1..MaxLines :
          LET done == n < calls[w] \/ (n = calls[w] /\ pc[w] = "idle")
          IN  IF done THEN \E p \in Places(<<w, n>>) : Places(<<w, n>>) = {p}
                      ELSE Places(<<w, n>>) = {}
    /\ dropped # {} => m_is_async

(* Lines of one caller keep their order in the files, but for a line the   *)
(* caller wrote itself, past earlier lines that were queued                *)
(* (log.cpp:178, 182-188).                                                 *)
OrderKept ==
    \A i, j \in DOMAIN files :
        /\ i < j
        /\ files[i].line[1] = files[j].line[1]
        /\ files[i].line[2] > files[j].line[2]
        => files[i].by = "caller" /\ files[j].by = "log_thread"

(* The open file is of m_today and never of a day to come.  Once a call    *)
(* has chosen the file, it is of the day the call read, until its line is  *)
(* handed on, though other threads fill localtime()'s buffer and change    *)
(* the file; except that a call that read another day, in the same burst   *)
(* of calls, may have changed it back (log.cpp:86-89, 118-140, 182-188).   *)
CurrentFile ==
    /\ m_fp.day = m_today /\ m_today <= day
    /\ \A w \in Writers :
         pc[w] \in {"full", "push", "put"} /\ burst = {t[w]} => m_fp.day = t[w]

(* What push() accepted gets into a file: the head of the queue and the    *)
(* line in the log thread's hand go on.                                    *)
Drained == \A line \in Lines :
    (\E i \in 1..m_size : Queue!Contents[i] = line)
      ~> \E i \in DOMAIN files : files[i].line = line
=============================================================================
