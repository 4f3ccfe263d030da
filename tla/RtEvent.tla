------------------------------ MODULE RtEvent ------------------------------
(***************************************************************************)
(* The event flags of RT-Thread (ipc.c), as the radio projects use them:   *)
(* every receive has RT_EVENT_FLAG_CLEAR, and threads wait first come,     *)
(* first served.  An event is a record: the flags that are set, the        *)
(* threads that are suspended, and what each thread received last.         *)
(***************************************************************************)
EXTENDS SequencesExt

CONSTANTS Flags, Threads

Wait == [thread: Threads, mask: SUBSET Flags, all: BOOLEAN]

Event == [set: SUBSET Flags, wait: Seq(Wait), got: [Threads -> SUBSET Flags]]

rt_event_init == [set |-> {}, wait |-> << >>, got |-> [t \in Threads |-> {}]]

Satisfied(set, mask, all) ==
  IF all THEN mask \subseteq set ELSE mask \cap set # {}

Suspended(e, t) == \E i \in 1 .. Len(e.wait) : e.wait[i].thread = t

\* One thread of the list: resumed with what it waited for, which is cleared
\* before the next one is looked at, or left where it is.
Visit(e, w) ==
  IF Satisfied(e.set, w.mask, w.all)
  THEN [e EXCEPT !.got[w.thread] = w.mask \cap e.set, !.set = @ \ w.mask]
  ELSE [e EXCEPT !.wait = Append(@, w)]

\* Mutant of rt_event_send: what was set before and not yet taken is forgotten.
SendOverwrites(e, flags) ==
  FoldLeft(Visit, [set |-> flags, wait |-> << >>, got |-> e.got], e.wait)

rt_event_send(e, flags) ==
  FoldLeft(Visit, [set |-> e.set \cup flags, wait |-> << >>, got |-> e.got], e.wait)

\* Take what is there, or be suspended.
rt_event_recv(e, t, mask, all) ==
  IF Satisfied(e.set, mask, all)
  THEN [e EXCEPT !.got[t] = mask \cap e.set, !.set = @ \ mask]
  ELSE [e EXCEPT !.got[t] = {},
                 !.wait = Append(@, [thread |-> t, mask |-> mask, all |-> all])]

\* The timer of a suspended thread takes it off the list; nothing is received.
rt_thread_timeout(e, t) ==
  LET place == CHOOSE i \in 1 .. Len(e.wait) : e.wait[i].thread = t
  IN  [e EXCEPT !.wait = RemoveAt(@, place)]
=============================================================================
