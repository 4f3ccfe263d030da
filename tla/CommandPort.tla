---------------------------- MODULE CommandPort ----------------------------
(***************************************************************************)
(* What the PC side of the fixture promises a PC that keeps its manners:   *)
(* a command is sent only when the one before it is settled, and each is   *)
(* run, once and in the order of issue, unless its frame was spoiled on    *)
(* the way.                                                                *)
(***************************************************************************)
EXTENDS Naturals, Sequences

CONSTANT MaxFrames      \* bound: how many commands the PC ever issues

VARIABLES issued,       \* how many commands the PC has begun to send
          spoiled,      \* the commands whose frames the fixture cannot take
          log           \* the commands run, in the order of running; 0 is junk

vars == << issued, spoiled, log >>

Init == issued = 0 /\ spoiled = {} /\ log = << >>

HasRun(c) == \E i \in DOMAIN log : log[i] = c

\* The PC begins a command; its frame may be spoiled from the start.
Issue ==
  /\ issued = 0 \/ issued \in spoiled \/ HasRun(issued)
  /\ issued < MaxFrames
  /\ issued' = issued + 1
  /\ spoiled' \in {spoiled, spoiled \union {issued + 1}}
  /\ UNCHANGED log

\* A command that has been run cannot be spoiled any more.
Spoil ==
  /\ issued > 0 /\ ~HasRun(issued)
  /\ spoiled' = spoiled \union {issued}
  /\ UNCHANGED << issued, log >>

\* The command under way is run, if it has not been.
Run ==
  /\ issued > 0 /\ ~HasRun(issued)
  /\ log' = Append(log, issued)
  /\ UNCHANGED << issued, spoiled >>

\* What is left of a spoiled frame may be taken for a command.
RunJunk ==
  /\ issued \in spoiled
  /\ log' = Append(log, 0)
  /\ UNCHANGED << issued, spoiled >>

Next == Issue \/ Spoil \/ Run \/ RunJunk

\* A command that is not spoiled is run in the end.
RunSound == issued \notin spoiled /\ Run

Spec == Init /\ [][Next]_vars /\ WF_vars(RunSound)
=============================================================================
