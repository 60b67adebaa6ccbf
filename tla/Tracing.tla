------------------------------ MODULE Tracing ------------------------------
(***************************************************************************)
(* The MPI tracer, as liballprof/template.c has it and the wrapper library *)
(* for Fortran, mpipf77log.c, is built from it, with a writer thread.      *)
(* (The wrapper for C, mpipclog.c, has the same buffers, threads and       *)
(* semaphores; but both calls of sync_tree and the two lines with their    *)
(* result are commented out there, :197-199 and :244-246, so that its      *)
(* ranks do not meet in the tracer and its file is one line shorter.)      *)
(* MPI_Init synchronises the clocks, starts the trace file and             *)
(* the writer; every other call appends a record to the current one of two *)
(* buffers; when that is nearly full the user thread asks the writer to    *)
(* swap the buffers and goes on as soon as they are swapped, while the     *)
(* writer still writes the old one to the file and clears it.              *)
(* MPI_Finalize synchronises again, logs the clock difference, lets the    *)
(* writer write what is left and end, and appends a last record itself.    *)
(*                                                                         *)
(* All ranks take part in the synchronisation; the buffers are those of    *)
(* one rank, since ranks share nothing else.  The lines of the file are    *)
(* numbered from 0, the header that MPI_Init writes; a line takes some of  *)
(* a buffer's units.                                                       *)
(***************************************************************************)
EXTENDS ClockSync

CONSTANTS Logged,               \* the rank whose buffers are followed
          MaxRecords,           \* size of the job -> calls logged between MPI_Init and MPI_Finalize
          BufSize,              \* units in a buffer
          Threshold,            \* units kept free for one more record
          MaxSize               \* units of the longest record

\* A record and the line of MPI_Finalize fit into what check() keeps free.
ASSUME TracingAssumption ==
    /\ Logged \in Nat /\ \A n \in Procs : MaxRecords[n] \in Nat
    /\ BufSize \in Nat /\ Threshold \in Nat
    /\ MaxSize \in Nat \ {0} /\ MaxSize + 1 <= Threshold /\ Threshold < BufSize

VARIABLES calls,                \* rank -> calls of MPI_Init and MPI_Finalize that synchronised
          user,                 \* what the rank's own thread does
          writer,               \* what its writer thread does
          buf, used,            \* buffer -> records in it, units they take
          curbuf,               \* the buffer to append to
          threadsem, usersem,   \* the semaphores
          exitflag,
          file,                 \* the trace file
          logged                \* the last line that was appended

bufferVars == <<buf, used, curbuf, logged>>
semVars == <<threadsem, usersem, exitflag>>
threadVars == <<user, writer, file>>
localVars == <<bufferVars, semVars, threadVars>>
vars == <<syncVars, calls, localVars>>

Other(b) == 3 - b
Header == 0
LastLine == MaxRecords[p] + 3      \* after MPI_Init, the calls and the clockdiff of mpi_finalize

AppendLine(size) ==
    /\ buf' = [buf EXCEPT ![curbuf] = Append(@, logged + 1)]
    /\ used' = [used EXCEPT ![curbuf] = @ + size]
    /\ logged' = logged + 1

Reset(b) ==
    /\ buf' = [buf EXCEPT ![b] = <<>>]
    /\ used' = [used EXCEPT ![b] = 0]

Fputs(b) == file' = file \o buf[b]

\* ------------------------------------------------------------ user thread
(* MPI_Init has logged its record, synchronises, and then starts the       *)
(* writer.                                                                 *)
Initialized(r) ==
    /\ calls[r] = 0 /\ Return(r)
    /\ calls' = [calls EXCEPT ![r] = 1]
    /\ IF r = Logged
       THEN user' = "run" /\ writer' = "wait" /\ file' = <<Header>>
       ELSE UNCHANGED <<user, writer, file>>
    /\ UNCHANGED <<bufferVars, semVars>>

(* check(): is there room for one more record?  (Wrong variant: only when   *)
(* nothing is left.)                                                       *)
Full == used[curbuf] >= BufSize
NearlyFull == used[curbuf] > BufSize - Threshold

LogRecord(size) ==
    /\ user = "run" /\ logged <= MaxRecords[p] /\ ~NearlyFull
    /\ AppendLine(size)
    /\ UNCHANGED <<syncVars, calls, curbuf, semVars, threadVars>>

WriteBuf ==
    /\ user = "run" /\ logged <= MaxRecords[p] /\ NearlyFull
    /\ threadsem' = threadsem + 1
    /\ user' = "swapping"
    /\ UNCHANGED <<syncVars, calls, bufferVars, usersem, exitflag, writer, file>>

Swapped(size) ==
    /\ user = "swapping" /\ usersem > 0
    /\ usersem' = usersem - 1
    /\ user' = "run"
    /\ AppendLine(size)
    /\ UNCHANGED <<syncVars, calls, curbuf, threadsem, exitflag, writer, file>>

(* Every rank calls MPI_Init, and MPI_Finalize when it has logged all.     *)
Synchronise(r) ==
    /\ calls[r] \in {0, 1}
    /\ calls[r] = 1 /\ r = Logged => user = "run" /\ logged > MaxRecords[p]
    /\ Enter(r)
    /\ UNCHANGED <<calls, localVars>>

(* mpi_finalize() after the synchronisation.                               *)
Finalize(r) ==
    /\ calls[r] = 1 /\ Return(r)
    /\ calls' = [calls EXCEPT ![r] = 2]
    /\ IF r = Logged
       THEN /\ AppendLine(1)
            /\ exitflag' = TRUE
            /\ threadsem' = threadsem + 1
            /\ user' = "ending"
       ELSE UNCHANGED <<buf, used, logged, exitflag, threadsem, user>>
    /\ UNCHANGED <<curbuf, usersem, writer, file>>

\* (Wrong variant: the buffer is cleared without waiting for the writer.)
FinalizedEarly ==
    /\ user = "ending"
    /\ Reset(curbuf)
    /\ user' = "closing"
    /\ UNCHANGED <<syncVars, calls, curbuf, logged, semVars, writer, file>>

Finalized ==
    /\ user = "ending" /\ usersem > 0
    /\ usersem' = usersem - 1
    /\ Reset(curbuf)
    /\ user' = "closing"
    /\ UNCHANGED <<syncVars, calls, curbuf, logged, threadsem, exitflag, writer, file>>

(* The end of MPI_Finalize's wrapper: its record, written by itself.       *)
(* (Wrong variant: it stays in the buffer.)                                *)
CloseUnwritten ==
    /\ user = "closing"
    /\ AppendLine(1)
    /\ user' = "closed"
    /\ UNCHANGED <<syncVars, calls, curbuf, semVars, writer, file>>

Close ==
    /\ user = "closing"
    /\ AppendLine(1)
    /\ file' = file \o buf'[curbuf]
    /\ user' = "closed"
    /\ UNCHANGED <<syncVars, calls, curbuf, semVars, writer>>

\* ---------------------------------------------------------- writer thread
Swap ==
    /\ writer = "wait" /\ threadsem > 0 /\ ~exitflag
    /\ threadsem' = threadsem - 1
    /\ curbuf' = Other(curbuf)
    /\ usersem' = usersem + 1
    /\ writer' = "write"
    /\ UNCHANGED <<syncVars, calls, buf, used, logged, exitflag, user, file>>

WriteOld ==
    /\ writer = "write"
    /\ Fputs(Other(curbuf))
    /\ writer' = "clear"
    /\ UNCHANGED <<syncVars, calls, bufferVars, semVars, user>>

ClearOld ==
    /\ writer = "clear"
    /\ Reset(Other(curbuf))
    /\ writer' = "wait"
    /\ UNCHANGED <<syncVars, calls, curbuf, logged, semVars, user, file>>

Exit ==
    /\ writer = "wait" /\ threadsem > 0 /\ exitflag
    /\ threadsem' = threadsem - 1
    /\ Fputs(curbuf)
    /\ usersem' = usersem + 1
    /\ writer' = "exited"
    /\ UNCHANGED <<syncVars, calls, bufferVars, exitflag, user>>

\* ---------------------------------------------------------- specification
Init ==
    /\ SyncInit /\ Logged \in Members
    /\ calls = [r \in Members |-> 0]
    /\ user = "init" /\ writer = "none"
    /\ buf = [b \in 1..2 |-> IF b = 1 THEN <<1>> ELSE <<>>]
    /\ used = [b \in 1..2 |-> IF b = 1 THEN 1 ELSE 0]
    /\ curbuf = 1 /\ logged = 1
    /\ threadsem = 0 /\ usersem = 0 /\ exitflag = FALSE
    /\ file = <<>>

SyncOnly(r) == SyncStep(r) /\ UNCHANGED <<calls, localVars>>

UserStep == \/ \E size \in 1..MaxSize : LogRecord(size) \/ Swapped(size)
            \/ WriteBuf \/ Finalized \/ Close
WriterStep == Swap \/ WriteOld \/ ClearOld \/ Exit
RankStep(r) == Synchronise(r) \/ SyncOnly(r) \/ Initialized(r) \/ Finalize(r)

Terminated == user = "closed" /\ (\A r \in Members : calls[r] = 2) /\ UNCHANGED vars

Next == UserStep \/ WriterStep \/ (\E r \in Members : RankStep(r)) \/ Terminated

\* Threads and processes are scheduled by the operating system, none of
\* them for ever not.
Fairness == /\ WF_vars(UserStep) /\ WF_vars(WriterStep)
            /\ \A r \in 0..7 : WF_vars(r \in Members /\ RankStep(r))

Spec == Init /\ [][Next]_vars /\ Fairness

\* -------------------------------------------------------------- properties
Lines(n) == [i \in 1..(n + 1) |-> i - 1]

\* What the writer, or MPI_Finalize, has still to write.
Pending == CASE writer = "write"  -> buf[Other(curbuf)] \o buf[curbuf]
             [] writer = "exited" -> <<>>
             [] OTHER             -> buf[curbuf]

(* Semaphores count 0 or 1, and no thread waits for a permit that was      *)
(* given for something else.                                               *)
SemaphoresBinary ==
    /\ threadsem \in {0, 1} /\ usersem \in {0, 1}
    /\ user = "run" => threadsem = 0 /\ usersem = 0

(* No buffer holds more than its size.                                     *)
BuffersHold == \A b \in 1..2 : used[b] \in 0..BufSize

(* The semaphores, the buffers, and at most two messages on their way from *)
(* one rank to another.                                                    *)
TypeOK ==
    /\ SemaphoresBinary /\ BuffersHold
    /\ \A pair \in DOMAIN net : Len(net[pair]) <= 2

(* The lines in the file, in the buffer that is being written and in the  *)
(* current one are, in this order, all that were logged, each of them once. *)
FileFaithful == user # "init" => file \o Pending = Lines(logged)

(* The tracer ends, with the whole trace in the file.                      *)
TraceComplete == <>(user = "closed" /\ file = Lines(LastLine))
=============================================================================
