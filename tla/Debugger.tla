------------------------------ MODULE Debugger ------------------------------
(***************************************************************************)
(* The command loop of the command line debugger (CLI/cli.cpp, debug_mode) *)
(* around one virtual machine.  Commands that only print ('h', 'l', 'm',   *)
(* 'i', 'a', 'o') change nothing; what they show are the operators of      *)
(* TheoVM.                                                                 *)
(***************************************************************************)
EXTENDS TheoVM

VARIABLE command    \* "s": a step whose execute() has to return first;
                    \* "q": the loop has been left; "none" otherwise

dvars == <<vars, command>>

AtPrompt == ~ executing /\ command = "none"

DebugInit == Init /\ command = "none"

\* The call of execute() made by 'e' or 's', one instruction at a time.
Running == executing /\ executeSingle /\ UNCHANGED command

CmdExecute == AtPrompt /\ execute /\ UNCHANGED command

\* 's': setSteppingMode(true), execute(), and once that has returned,
\* setSteppingMode(false).
CmdStep ==
  /\ AtPrompt
  /\ stepping_mode_enabled' = TRUE
  /\ executing' = TRUE
  /\ command' = "s"
  /\ UNCHANGED <<program, machine, code, enabled_breakpoints, halted_on>>

\* Mutant of StepDone: stepping mode is not switched off again.
StepDoneForgets ==
  /\ command = "s" /\ ~ executing
  /\ command' = "none"
  /\ UNCHANGED vars

StepDone ==
  /\ command = "s"
  /\ setSteppingMode(FALSE)
  /\ command' = "none"

CmdReset == AtPrompt /\ reset /\ UNCHANGED command

CmdBreak(bp, mode) == AtPrompt /\ setBreakPoint(bp, mode) /\ UNCHANGED command

CmdClear == AtPrompt /\ clearBreakpoints /\ UNCHANGED command

CmdQuit == AtPrompt /\ command' = "q" /\ UNCHANGED vars

DebugNext ==
  \/ Running
  \/ CmdExecute
  \/ CmdStep
  \/ StepDone
  \/ CmdReset
  \/ \E bp \in getAvailableBreakpoints, mode \in BOOLEAN : CmdBreak(bp, mode)
  \/ CmdClear
  \/ CmdQuit

DebugSpec == DebugInit /\ [][DebugNext]_dvars

\* The loops in execute() and in debug_mode go on by themselves.
FairDebugSpec ==
  /\ DebugSpec
  /\ WF_dvars(Running)
  /\ WF_dvars(StepDone)

-----------------------------------------------------------------------------

\* Whenever 'm' can be typed, no call is being set up: the activations shown
\* are complete, each with the return address EXEC gives it
\* (vm.cpp:163-165, 178-183, cli.cpp:96-107).
PromptSeesWholeActivations ==
  AtPrompt =>
    /\ Callee = NoFrame
    /\ \A k \in 2 .. Len(stack) : stack[k].ret_addr # -1

\* Stepping mode is on only while a step is running, so a breakpoint is the
\* only thing that stops the next 'e' (cli.cpp:108-112).
SteppingEndsWithItsStep == stepping_mode_enabled => command = "s"

\* One who goes on typing 'e' or 's' and does not reset or quit sees a
\* terminating program end, however breakpoints are set and removed on the
\* way: a breakpoint is left behind by the next command and never stops the
\* machine twice without an instruction in between (vm.cpp:91-104).
ReachesEnd ==
  /\ []<><<CmdExecute \/ CmdStep>>_dvars
  /\ <>[][~ CmdReset]_dvars
  => <>[] isDone

\* Every command gets back to the prompt, or the loop has been left, for
\* programs that terminate and fit into memory.
PromptReturns == []<>(AtPrompt \/ command = "q")

\* vm.hpp:60-63 of getCurrentBreak: "line number != -1 only if the VM is
\* currently halted on a breakpoint".  The debugger's 'l' prints it as the
\* breakpoint the program is held on (cli.cpp:90-95).
HeldOnBreakpoint ==
  AtPrompt /\ getCurrentBreak.line # -1 => halted_on = "break"
=============================================================================
