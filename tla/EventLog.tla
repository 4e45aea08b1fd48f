------------------------------- MODULE EventLog -----------------------------
(***************************************************************************)
(* What a trace promises of events: every location has a log to which      *)
(* events are appended, and who asks for some of the locations sees their  *)
(* events, each once, those of a location in the order of its log, and all *)
(* together in the order of their time stamps.                             *)
(***************************************************************************)
EXTENDS Naturals, Sequences

CONSTANTS
  Locations, Events, Clocks, Nothing,
  Rank(_),      (* the time stamp of an event                              *)
  Lost(_, _),   (* under the clock, the event is not shown                 *)
  Seen(_, _)    (* the event as it is shown under the clock                *)

VARIABLES
  log,          (* the events of each location                             *)
  clock,        (* the clock of the trace                                  *)
  from,         (* the locations that were asked for, at first Nothing     *)
  taken,        (* how many events of each location have been taken        *)
  shown         (* what was shown                                          *)

logVars == <<log, clock, from, taken, shown>>

LogInit ==
  /\ log = [l \in Locations |-> <<>>]
  /\ clock \in Clocks
  /\ from = Nothing
  /\ taken = [l \in Locations |-> 0]
  /\ shown = <<>>

AppendTo(l) ==
  /\ from = Nothing
  /\ log'[l] # log[l]
  /\ \E e \in Events : log' = [log EXCEPT ![l] = Append(@, e)]
  /\ UNCHANGED <<clock, from, taken, shown>>

SetClock(c) ==
  /\ from = Nothing
  /\ clock' = c
  /\ UNCHANGED <<log, from, taken, shown>>

Ask(S) ==
  /\ from = Nothing
  /\ from' = S
  /\ UNCHANGED <<log, clock, taken, shown>>

Head1(l) == log[l][taken[l] + 1]
HasMore(l) == taken[l] < Len(log[l])

Take(l) ==
  /\ from # Nothing
  /\ l \in from
  /\ HasMore(l)
  /\ \A k \in from : HasMore(k) => Rank(Head1(l)) <= Rank(Head1(k))
  /\ taken' = [taken EXCEPT ![l] = @ + 1]
  /\ shown' = IF Lost(clock, Head1(l)) THEN shown
              ELSE Append(shown, [location |-> l,
                                  event |-> Seen(clock, Head1(l))])
  /\ UNCHANGED <<log, clock, from>>

LogNext ==
  \/ \E l \in Locations : AppendTo(l)
  \/ \E c \in Clocks : SetClock(c)
  \/ \E S \in SUBSET Locations : Ask(S)
  \/ \E l \in Locations : Take(l)

LogSpec == LogInit /\ [][LogNext]_logVars
=============================================================================
