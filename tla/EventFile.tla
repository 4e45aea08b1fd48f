------------------------------ MODULE EventFile -----------------------------
(***************************************************************************)
(* The way of the events of a trace through a file.  A program makes       *)
(* events, writes them to the local writers of an archive, one for each    *)
(* location, and destroys the archive.  Then otf2::reader::reader reads    *)
(* the definitions, the locations to read are registered, and read_events  *)
(* turns the records of these into events again, one callback for each, in *)
(* the order of their time stamps.                                         *)
(*                                                                         *)
(* What an event holds, which members its record has, and what the         *)
(* callback makes of them is in the tables of EventClasses, EventRecords   *)
(* and EventCallbacks, which are constants here.                           *)
(*                                                                         *)
(* The OTF2 library, which is external, keeps the records of each location *)
(* as they were written, refuses those that are earlier than the one       *)
(* before, and hands those of all selected locations to the reader, the    *)
(* earliest first.                                                         *)
(***************************************************************************)
EXTENDS Naturals, Sequences, FiniteSets

CONSTANTS
  Classes,      (* of each type of event: its members, see EventClasses    *)
  Layouts,      (* of each type: the members in its record, EventRecords   *)
  Callbacks,    (* of each type: where its members come from               *)
  Registered,   (* the types for which the reader has set its callback     *)
  Definitions,  (* the definitions of the trace, each a kind and a ref     *)
  Locations,
  Initial,      (* the number of events each location was constructed with *)
  Attributes,   (* the attributes a program may add                        *)
  Times,        (* the points in time of events                            *)
  Clocks,       (* the clock properties a program may write                *)
  InitialClock, (* those of a writer to which none were written            *)
  Ticks,        (* writer::local::convert, of each point in time           *)
  Instant,      (* the conversion of the reader, of each clock and ticks   *)
  Convertible,  (* the clocks of which a conversion can be made            *)
  Often,        (* bound: the types of which a trace has several events    *)
  MaxEvents,    (* bound: the number of events of these types              *)
  Nothing

Types == DOMAIN Layouts
AllClocks == Clocks \cup {InitialClock}

ASSUME TimesAssumption ==
  /\ \A t \in Times : t \in Nat /\ Ticks[t] \in Nat
  /\ \A t, u \in Times : t <= u => Ticks[t] <= Ticks[u]
ASSUME ClocksAssumption ==
  \A c \in AllClocks :
    /\ c.start \in Nat
    /\ \A t \in Times : Instant[c][Ticks[t]] \in Nat
    /\ \A t, u \in Times :
         c.start <= Ticks[t] /\ Ticks[t] <= Ticks[u] =>
           Instant[c][Ticks[t]] <= Instant[c][Ticks[u]]
ASSUME InitialAssumption == Initial \in [Locations -> Nat]
ASSUME BoundAssumption == MaxEvents \in Nat
ASSUME NothingAssumption == \A S \in SUBSET Locations : S # Nothing

-----------------------------------------------------------------------------
(* Events and their records *)

Members(t) == DOMAIN Classes[t].members

(* The values a member may have, by what the class says of it: a plain     *)
(* value, a point in time, or one of the definitions.                      *)
Values(t, m) ==
  LET kinds == Classes[t].members[m]
  IN IF kinds = {} THEN {[kind |-> m, ref |-> 0]}
     ELSE IF kinds = {"time"} THEN [kind : {"time"}, ref : Times]
     ELSE {d \in Definitions : d.kind \in kinds}

(* Values that are no definitions can be told from those that are.         *)
ASSUME NamesAssumption ==
  /\ \A d \in Definitions :
       d = [kind |-> d.kind, ref |-> d.ref] /\ d.kind # "time"
  /\ \A t \in Types : \A m \in Members(t) :
       Classes[t].members[m] = {} =>
         m # "time" /\ [kind |-> m, ref |-> 0] \notin Definitions

Varying(t) == {m \in Members(t) : Classes[t].members[m] # {}}

(* The contents an event of the type may have                              *)
Contents(t) ==
  {[m \in Members(t) |-> IF m \in Varying(t) THEN f[m]
                         ELSE [kind |-> m, ref |-> 0]] :
     f \in {g \in [Varying(t) -> UNION {Values(t, m) : m \in Varying(t)}] :
              \A m \in Varying(t) : g[m] \in Values(t, m)}}

EventsOf(t) ==
  [type : {t}, time : Times, attributes : SUBSET Attributes,
   fields : Contents(t)]
Events == UNION {EventsOf(t) : t \in Types}

(* A wrong variant of Argument, of references that were never set.         *)
ArgumentUnset(v) ==
  CASE v.kind = "time" -> [kind |-> "ticks", ref |-> Ticks[v.ref]]
    [] v \in Definitions ->
         [kind |-> "reference", ref |-> Cardinality(Definitions)]
    [] OTHER -> v

(* What the writer hands to the library of a value: the reference of a     *)
(* definition, the ticks of a point in time.                               *)
Argument(v) ==
  CASE v.kind = "time" -> [kind |-> "ticks", ref |-> Ticks[v.ref]]
    [] v \in Definitions -> [kind |-> "reference", ref |-> v.ref]
    [] OTHER -> v

(* A wrong variant of RecordOf, without the attributes.                    *)
RecordOfBare(e) ==
  [type |-> e.type, ticks |-> Ticks[e.time], attributes |-> {},
   arguments |-> [i \in DOMAIN Layouts[e.type] |->
                    Argument(e.fields[Layouts[e.type][i]])]]

RecordOf(e) ==
  [type |-> e.type, ticks |-> Ticks[e.time], attributes |-> e.attributes,
   arguments |-> [i \in DOMAIN Layouts[e.type] |->
                    Argument(e.fields[Layouts[e.type][i]])]]

(* The kind that a callback takes the reference r for                      *)
KindOf(get, r) ==
  IF [kind |-> get[1], ref |-> r] \in Definitions THEN get[2] ELSE get[3]

IsLookup(get) == Len(get) = 3

(* What a callback makes of the arguments for one member                   *)
ValueOf(c, from, arguments) ==
  LET a == arguments[from.at]
  IN CASE from.get = <<>> -> a
       [] from.get = <<"ticks">> ->
            [kind |-> "time", ref |-> Instant[c][a.ref]]
       [] IsLookup(from.get) ->
            [kind |-> KindOf(from.get, a.ref), ref |-> a.ref]

EventOf(c, r) ==
  [type |-> r.type, time |-> Instant[c][r.ticks], attributes |-> r.attributes,
   fields |-> [m \in DOMAIN Callbacks[r.type] |->
                 ValueOf(c, Callbacks[r.type][m], r.arguments)]]

(* A definition that the callback looks up is not there.                   *)
Missing(r) ==
  \E m \in DOMAIN Callbacks[r.type] :
    LET from == Callbacks[r.type][m]
    IN /\ IsLookup(from.get)
       /\ ValueOf(InitialClock, from, r.arguments) \notin Definitions

(* A time stamp of the record is before the start of the clock.            *)
Early(c, r) ==
  \/ r.ticks < c.start
  \/ \E m \in DOMAIN Callbacks[r.type] :
       LET from == Callbacks[r.type][m]
       IN from.get = <<"ticks">> /\ r.arguments[from.at].ref < c.start

Failures(c, r) ==
  {f \in {"asserted", "threw"} :
     IF f = "asserted" THEN Early(c, r) ELSE Missing(r)}

(* No callback is called for the event: the reader sets none for the type, *)
(* which is so of comm_create, comm_destroy and the two types of           *)
(* non_blocking_collective; or the event is a metric, whose callback       *)
(* returns before the start of the clock.                                  *)
Lost(c, e) ==
  \/ e.type \notin Registered
  \/ e.type = "metric" /\ Ticks[e.time] < c.start

(* A wrong variant of Skipped, which leaves out all that is too early.     *)
SkippedEarly(c, r) == r.type \notin Registered \/ r.ticks < c.start

Skipped(c, r) ==
  \/ r.type \notin Registered
  \/ r.type = "metric" /\ r.ticks < c.start

-----------------------------------------------------------------------------
(* The callback takes the member m of an event of type t from the argument *)
(* that has it, and makes of it what the class says.  With a look-up, each *)
(* definition that may be meant is found under its kind.                   *)
Fits(t, m) ==
  LET from  == Callbacks[t][m]
      kinds == Classes[t].members[m]
  IN /\ from.at \in DOMAIN Layouts[t]
     /\ Layouts[t][from.at] = m
     /\ CASE kinds = {} -> from.get = <<>>
          [] kinds = {"time"} -> from.get = <<"ticks">>
          [] OTHER -> /\ IsLookup(from.get)
                      /\ \A d \in Values(t, m) :
                           KindOf(from.get, d.ref) = d.kind

(* The tables agree on the types that are read.                            *)
Faithful ==
  \A t \in Registered :
    /\ t \in Types
    /\ DOMAIN Callbacks[t] = Members(t)
    /\ \A m \in Members(t) : Fits(t, m)

-----------------------------------------------------------------------------
VARIABLES
  hand,         (* the event that the program has made, or Nothing         *)
  writer,       (* the local writer of each location: none; open; closed,  *)
                (* its event writer is; gone, it was destroyed             *)
  events,       (* the records of each location in the event files         *)
  counted,      (* events_ of each location                                *)
  stored,       (* the number of events in the definition that is stored   *)
  sent,         (* history: the events of which these are the records      *)
  clock,        (* clock_properties_ of the global writer                  *)
  phase,        (* write: the archive exists; closed: it was destroyed;    *)
                (* ready: the definitions are read; read: read_events      *)
                (* runs; done: events_done was called; unreadable, threw,  *)
                (* asserted, undefined: it has ended in another way        *)
  registered,   (* registered_locations_                                   *)
  taken,        (* how many records of each location have been read        *)
  got           (* what the callback was called with                       *)

writing == <<hand, writer, events, counted, sent, clock>>
reading == <<registered, taken, got>>
vars == <<hand, writer, events, counted, stored, sent, clock, phase,
          registered, taken, got>>

Init ==
  /\ hand = Nothing
  /\ writer = [l \in Locations |-> "none"]
  /\ events = [l \in Locations |-> <<>>]
  /\ counted = Initial
  /\ stored = [l \in Locations |-> 0]
  /\ sent = [l \in Locations |-> <<>>]
  /\ clock = InitialClock
  /\ phase = "write"
  /\ registered = {}
  /\ taken = [l \in Locations |-> 0]
  /\ got = <<>>

-----------------------------------------------------------------------------
(* The program and the writer *)

Written == {p \in Locations \X (1 .. MaxEvents) : p[2] <= Len(sent[p[1]])}

(* Bound: another event may be made, with a type that is not in Often only *)
(* as the only event of the trace.                                         *)
Room(t) ==
  /\ Cardinality(Written) < MaxEvents
  /\ Written # {} => t \in Often
  /\ \A p \in Written : sent[p[1]][p[2]].type \in Often

(* An event of the type is constructed.                                    *)
Construct(t) ==
  /\ phase = "write"
  /\ hand = Nothing
  /\ Room(t)
  /\ \E e \in EventsOf(t) : e.attributes = {} /\ hand' = e
  /\ UNCHANGED <<writer, events, counted, stored, sent, clock, phase, reading>>

(* Bound: one event of a trace has attributes.                             *)
AddAttribute(a) ==
  /\ phase = "write"
  /\ hand # Nothing
  /\ \A p \in Written : sent[p[1]][p[2]].attributes = {}
  /\ a \notin hand.attributes
  /\ hand' = [hand EXCEPT !.attributes = @ \cup {a}]
  /\ UNCHANGED <<writer, events, counted, stored, sent, clock, phase, reading>>

(* It is constructed again with a new timestamp; some of the classes       *)
(* forget the attributes.                                                  *)
Restamp(t) ==
  /\ phase = "write"
  /\ hand # Nothing
  /\ t # hand.time
  /\ hand' = [hand EXCEPT !.time = t,
                          !.attributes = IF Classes[hand.type].keeps THEN @
                                         ELSE {}]
  /\ UNCHANGED <<writer, events, counted, stored, sent, clock, phase, reading>>

(* The library takes the record of e as the next of l.                     *)
Accepts(l, e) ==
  /\ writer[l] \in {"none", "open"}
  /\ events[l] # <<>> => events[l][Len(events[l])].ticks <= Ticks[e.time]

(* get_local_writer makes a writer where there is none.                    *)
Opened(l) == [writer EXCEPT ![l] = IF @ = "none" THEN "open" ELSE @]

(* A wrong variant of Write, of a copy of the event without its attributes. *)
WriteBare(l) ==
  /\ phase = "write"
  /\ hand # Nothing
  /\ Accepts(l, hand)
  /\ events' = [events EXCEPT ![l] =
                  Append(@, [RecordOf(hand) EXCEPT !.attributes = {}])]
  /\ counted' = [counted EXCEPT ![l] = @ + 1]
  /\ sent' = [sent EXCEPT ![l] = Append(@, hand)]
  /\ writer' = Opened(l)
  /\ hand' = Nothing
  /\ UNCHANGED <<stored, clock, phase, reading>>

Write(l) ==
  /\ phase = "write"
  /\ hand # Nothing
  /\ Accepts(l, hand)
  /\ events' = [events EXCEPT ![l] = Append(@, RecordOf(hand))]
  /\ counted' = [counted EXCEPT ![l] = @ + 1]
  /\ sent' = [sent EXCEPT ![l] = Append(@, hand)]
  /\ writer' = Opened(l)
  /\ hand' = Nothing
  /\ UNCHANGED <<stored, clock, phase, reading>>

(* A wrong variant of Refuse, in which the event is counted before the     *)
(* result of the library is checked.                                       *)
RefuseCounted(l) ==
  /\ phase = "write"
  /\ hand # Nothing
  /\ writer[l] # "gone"
  /\ ~Accepts(l, hand)
  /\ counted' = [counted EXCEPT ![l] = @ + 1]
  /\ hand' = Nothing
  /\ UNCHANGED <<writer, events, stored, sent, clock, phase, reading>>

(* write throws, and the program lets go of the event.                     *)
Refuse(l) ==
  /\ phase = "write"
  /\ hand # Nothing
  /\ writer[l] # "gone"
  /\ ~Accepts(l, hand)
  /\ hand' = Nothing
  /\ UNCHANGED <<writer, events, counted, stored, sent, clock, phase, reading>>

CloseEventWriter(l) ==
  /\ phase = "write"
  /\ writer[l] = "open"
  /\ writer' = [writer EXCEPT ![l] = "closed"]
  /\ UNCHANGED <<hand, events, counted, stored, sent, clock, phase, reading>>

(* Archive::close_local_writer.  To get a writer of the location again is  *)
(* undefined, as its comment says.                                         *)
CloseLocalWriter(l) ==
  /\ phase = "write"
  /\ writer[l] \in {"open", "closed"}
  /\ writer' = [writer EXCEPT ![l] = "gone"]
  /\ UNCHANGED <<hand, events, counted, stored, sent, clock, phase, reading>>

(* global::write of clock properties                                       *)
WriteClock(c) ==
  /\ phase = "write"
  /\ clock' = c
  /\ UNCHANGED <<hand, writer, events, counted, stored, sent, phase, reading>>

(* ~Archive: the local writers first, then the global one, which stores    *)
(* the clock properties and the definitions.                               *)
Destroy ==
  /\ phase = "write"
  /\ phase' = "closed"
  /\ writer' = [l \in Locations |-> "gone"]
  /\ stored' = counted
  /\ hand' = Nothing
  /\ UNCHANGED <<events, counted, sent, clock, reading>>

-----------------------------------------------------------------------------
(* The reader *)

(* set_clock_properties, when the record of the clock is read, makes the   *)
(* conversion, which throws if it cannot represent the length of the       *)
(* trace.  The other definitions are those of DefinitionFile.              *)
ReadDefinitions ==
  /\ phase = "closed"
  /\ phase' = IF clock \in Convertible THEN "ready" ELSE "unreadable"
  /\ UNCHANGED <<writing, stored, reading>>

RegisterLocation(l) ==
  /\ phase = "ready"
  /\ l \notin registered
  /\ registered' = registered \cup {l}
  /\ UNCHANGED <<writing, stored, phase, taken, got>>

(* read_events, up to the first event                                      *)
ReadEvents ==
  /\ phase = "ready"
  /\ registered # {}
  /\ phase' = "read"
  /\ UNCHANGED <<writing, stored, reading>>

(* Without a location, it closes the evt_rdr that it has not assigned.     *)
ReadNothing ==
  /\ phase = "ready"
  /\ registered = {}
  /\ phase' = "undefined"
  /\ UNCHANGED <<writing, stored, reading>>

Remaining(l) == taken[l] < Len(events[l])
Upcoming(l) == events[l][taken[l] + 1]

(* A wrong variant of HandedOut, which reads the locations one by one.     *)
HandedOutUnordered ==
  {[location |-> l, record |-> Upcoming(l)] :
     l \in {l \in registered : Remaining(l)}}

(* What the library may hand out next: of the upcoming records one with    *)
(* the earliest time stamp                                                 *)
HandedOut ==
  {[location |-> l, record |-> Upcoming(l)] :
     l \in {l \in registered :
              /\ Remaining(l)
              /\ \A k \in registered :
                   Remaining(k) => Upcoming(l).ticks <= Upcoming(k).ticks}}

Advance(l) == taken' = [taken EXCEPT ![l] = @ + 1]

(* No callback is called for the record, or it returns at once.            *)
Skip(h) ==
  /\ phase = "read"
  /\ Skipped(clock, h.record)
  /\ Advance(h.location)
  /\ UNCHANGED <<writing, stored, phase, registered, got>>

(* A wrong variant of Show, with the conversion of the writer.             *)
ShowUnconverted(h) ==
  /\ phase = "read"
  /\ ~Skipped(clock, h.record)
  /\ Failures(clock, h.record) = {}
  /\ got' = Append(got, [location |-> h.location,
                         position |-> taken[h.location] + 1,
                         event |-> EventOf(InitialClock, h.record)])
  /\ Advance(h.location)
  /\ UNCHANGED <<writing, stored, phase, registered>>

Show(h) ==
  /\ phase = "read"
  /\ ~Skipped(clock, h.record)
  /\ Failures(clock, h.record) = {}
  /\ got' = Append(got, [location |-> h.location,
                         position |-> taken[h.location] + 1,
                         event |-> EventOf(clock, h.record)])
  /\ Advance(h.location)
  /\ UNCHANGED <<writing, stored, phase, registered>>

(* The assertion of the conversion fails, or the registry throws; if both  *)
(* would, one does: in which order arguments are evaluated is not          *)
(* specified.                                                              *)
Fail(h) ==
  /\ phase = "read"
  /\ ~Skipped(clock, h.record)
  /\ phase' \in Failures(clock, h.record)
  /\ UNCHANGED <<writing, stored, reading>>

EventsDone ==
  /\ phase = "read"
  /\ HandedOut = {}
  /\ phase' = "done"
  /\ UNCHANGED <<writing, stored, reading>>

-----------------------------------------------------------------------------
Program ==
  \/ \E t \in Types : Construct(t)
  \/ \E a \in Attributes : AddAttribute(a)
  \/ \E t \in Times : Restamp(t)
  \/ \E l \in Locations : Write(l) \/ Refuse(l)
  \/ \E l \in Locations : CloseEventWriter(l) \/ CloseLocalWriter(l)
  \/ \E c \in Clocks : WriteClock(c)
  \/ Destroy
  \/ ReadDefinitions
  \/ \E l \in Locations : RegisterLocation(l)
  \/ ReadEvents
  \/ ReadNothing

(* OTF2_Reader_ReadAllGlobalEvents                                         *)
ReadAll ==
  \/ \E h \in HandedOut : Skip(h) \/ Show(h) \/ Fail(h)
  \/ EventsDone

Next == Program \/ ReadAll

Spec == Init /\ [][Next]_vars

-----------------------------------------------------------------------------
(* What is in the files follows from what was sent, and no more of it is   *)
(* read than there is.                                                     *)
TypeOK ==
  /\ hand \in Events \cup {Nothing}
  /\ writer \in [Locations -> {"none", "open", "closed", "gone"}]
  /\ sent \in [Locations -> Seq(Events)]
  /\ events = [l \in Locations |-> [i \in 1 .. Len(sent[l]) |->
                                      RecordOf(sent[l][i])]]
  /\ counted \in [Locations -> Nat]
  /\ stored \in [Locations -> Nat]
  /\ clock \in AllClocks
  /\ phase \in {"write", "closed", "ready", "read", "done", "unreadable",
                "threw", "asserted", "undefined"}
  /\ registered \subseteq Locations
  /\ taken \in [Locations -> Nat]
  /\ \A l \in Locations : taken[l] <= Len(events[l])

(* The definition of a location is stored with one event more for each     *)
(* record in its file than the location was constructed with, although it  *)
(* is counted up elsewhere and events that were refused lie in between.    *)
CountsAreStored ==
  phase # "write" =>
    \A l \in Locations : stored[l] = Initial[l] + Len(events[l])

(* "If you read in this location and write it to another trace, you have   *)
(* to make sure, that you have also written all the events": then the      *)
(* definition has the number of the records in the file.                   *)
RewrittenCountIsTrue ==
  phase # "write" =>
    \A l \in Locations :
      Len(events[l]) = Initial[l] => stored[l] = Len(events[l])

(* The event as it should be shown: with its times as the clock has them.  *)
SeenValue(c, v) ==
  IF v.kind = "time" THEN [kind |-> "time", ref |-> Instant[c][Ticks[v.ref]]]
  ELSE v

Seen(c, e) ==
  [type |-> e.type, time |-> Instant[c][Ticks[e.time]],
   attributes |-> e.attributes,
   fields |-> [m \in DOMAIN e.fields |-> SeenValue(c, e.fields[m])]]

(* What the callback is called with is an event as it was written, with    *)
(* all it refers to, and each location shows its events in the order in    *)
(* which they were written, none twice.                                    *)
ReadAsWritten ==
  /\ \A i \in 1 .. Len(got) :
       /\ got[i].position \in 1 .. Len(sent[got[i].location])
       /\ got[i].event = Seen(clock, sent[got[i].location][got[i].position])
  /\ \A i, j \in 1 .. Len(got) :
       i < j /\ got[i].location = got[j].location =>
         got[i].position < got[j].position

(* The callback sees time advance, across all locations.                   *)
InTimeOrder ==
  \A i, j \in 1 .. Len(got) : i < j => got[i].event.time <= got[j].event.time

ShownAt(l, p) ==
  \E i \in 1 .. Len(got) : got[i].location = l /\ got[i].position = p

(* When events_done is called, every event of the registered locations has *)
(* been shown, but those of types without a callback and the metrics from  *)
(* before the start of the clock, see Lost.                                *)
NoneLost ==
  phase = "done" =>
    \A l \in registered : \A p \in 1 .. Len(sent[l]) :
      ~Lost(clock, sent[l][p]) => ShownAt(l, p)

(* read_events: "For each event the callback is called."                   *)
EveryEventShown ==
  phase = "done" =>
    \A l \in registered : \A p \in 1 .. Len(sent[l]) : ShownAt(l, p)

(* No look-up of a callback throws.                                        *)
EveryReferenceFound == phase # "threw"

Rank(e) == Ticks[e.time]

(* The files with their writer and reader are the logs of the trace.       *)
Log == INSTANCE EventLog WITH
  log <- sent,
  from <- IF phase \in {"write", "closed", "ready", "unreadable", "undefined"}
            THEN Nothing ELSE registered,
  shown <- [i \in 1 .. Len(got) |-> [location |-> got[i].location,
                                     event |-> got[i].event]],
  Clocks <- AllClocks
ImplementsLog == Log!LogSpec

(* After all definitions are read, definitions_done is called.             *)
DefinitionsAreRead == phase # "unreadable"

(* read_events does nothing undefined.                                     *)
EventReaderAssigned == phase # "undefined"
=============================================================================
