-------------------------------- MODULE CdrWriter --------------------------------
(* StartFileCDR: one goroutine per task that receives finished CDR lines from an *)
(* unbuffered channel and writes them to the current file, recreating the file   *)
(* every two seconds.  A line is named by the call it records.                   *)
(*                                                                               *)
(* The channel has no buffer, so a send and its receive are one step: the        *)
(* sender's action conjoins Receive.  A creation that the system refuses for     *)
(* lack of permission stops the whole generator; any other failure leaves a nil  *)
(* file whose Name() panics.  Modules that use the writer EXTEND this one and    *)
(* conjoin its actions with their own UNCHANGED.                                 *)
EXTENDS Naturals

CONSTANTS Calls,       \* the calls whose CDRs may be written
          Tasks,       \* the tasks of the configuration, one writer each
          DiskFaults,  \* the failures the disk may show: a subset of Faults
          None         \* no call

Faults == {"permission", "other", "write"}

ASSUME DiskFaultsAssumption == DiskFaults \subseteq Faults
ASSUME NoneAssumption == None \notin Calls

VARIABLES wpc,      \* wpc[t]: where the writer of task t stands
          hold,     \* hold[t]: the line received and not yet written
          file,     \* file[c]: lines on disk for call c
          dropped,  \* calls whose line a failed WriteString lost
          gostop,   \* the flag the generating goroutines test
          ctxDone,  \* the context was cancelled
          running   \* the process is alive

writerVars == <<wpc, hold, file, dropped>>
processVars == <<gostop, ctxDone, running>>

WriterPcs == {"open", "select", "recv", "write", "dead"}

WriterTypeOK == /\ wpc \in [Tasks -> WriterPcs]
                /\ hold \in [Tasks -> Calls \cup {None}]
                /\ file \in [Calls -> Nat]
                /\ dropped \subseteq Calls
                /\ gostop \in BOOLEAN
                /\ ctxDone \in BOOLEAN
                /\ running \in BOOLEAN

WriterInit == /\ wpc = [t \in Tasks |-> "open"]
              /\ hold = [t \in Tasks |-> None]
              /\ file = [c \in Calls |-> 0]
              /\ dropped = {}
              /\ gostop = FALSE
              /\ ctxDone = FALSE
              /\ running = TRUE

-----------------------------------------------------------------------------
WriterAt(t, from, to) == /\ wpc[t] = from
                         /\ wpc' = [wpc EXCEPT ![t] = to]

(* os.Create refused for lack of permission: gostop = true, stop(), return.     *)
PermissionError(t, from) == /\ "permission" \in DiskFaults
                            /\ WriterAt(t, from, "dead")
                            /\ gostop' = TRUE
                            /\ ctxDone' = TRUE
                            /\ UNCHANGED running

(* os.Create failed otherwise: f is nil and f.Name() panics.                    *)
NilFilePanic(t, from) == /\ "other" \in DiskFaults
                         /\ wpc[t] = from
                         /\ running' = FALSE
                         /\ UNCHANGED <<wpc, gostop, ctxDone>>

CreateFile(t, from) == /\ \/ WriterAt(t, from, "select") /\ UNCHANGED processVars
                          \/ PermissionError(t, from)
                          \/ NilFilePanic(t, from)
                       /\ UNCHANGED <<hold, file, dropped>>

OpenFirst(t) == CreateFile(t, "open")

(* The heartbeat case of the select: the file is closed and created anew.       *)
Rotate(t) == CreateFile(t, "select")

(* The default case: the goroutine blocks in the receive until a line comes, and*)
(* a heartbeat that fires meanwhile waits.                                      *)
AwaitLine(t) == /\ WriterAt(t, "select", "recv")
                /\ UNCHANGED <<hold, file, dropped, gostop, ctxDone, running>>

(* The writer's half of a send on its channel.                                  *)
Receive(t, c) == /\ WriterAt(t, "recv", "write")
                 /\ hold' = [hold EXCEPT ![t] = c]
                 /\ UNCHANGED <<file, dropped>>

(* Mutant of WriteLine: the goroutine returns after a line.                     *)
WriteLineAndReturn(t) == /\ WriterAt(t, "write", "dead")
                         /\ hold' = [hold EXCEPT ![t] = None]
                         /\ file' = [file EXCEPT ![hold[t]] = @ + 1]
                         /\ UNCHANGED <<dropped, gostop, ctxDone, running>>

(* f.WriteString: the line reaches the file, or the error is logged and the     *)
(* line is gone.                                                                *)
WriteLine(t) == /\ WriterAt(t, "write", "select")
                /\ hold' = [hold EXCEPT ![t] = None]
                /\ \/ /\ file' = [file EXCEPT ![hold[t]] = @ + 1]
                      /\ UNCHANGED dropped
                   \/ /\ "write" \in DiskFaults
                      /\ dropped' = dropped \cup {hold[t]}
                      /\ UNCHANGED file
                /\ UNCHANGED processVars

(* What the goroutine does between two ticks of its two-second heartbeat.       *)
WriterProgress(t) == OpenFirst(t) \/ AwaitLine(t) \/ WriteLine(t)

WriterStep(t) == WriterProgress(t) \/ Rotate(t)
================================================================================
