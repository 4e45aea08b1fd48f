--------------------------- MODULE EventFileProofs --------------------------
(***************************************************************************)
(* Theorems about EventFile, for all tables of events, records and         *)
(* callbacks, all clocks and conversions that do not turn time back, and   *)
(* any number of locations and events.                                     *)
(***************************************************************************)
EXTENDS EventFile, WellFoundedInduction, SequenceTheorems, TLAPS

-----------------------------------------------------------------------------
(* Events and records *)

LEMMA EventFact ==
  ASSUME NEW e \in Events
  PROVE  /\ e.type \in Types
         /\ e.time \in Times
         /\ e.fields \in Contents(e.type)
         /\ e \in EventsOf(e.type)
         /\ e = [type |-> e.type, time |-> e.time, attributes |-> e.attributes,
                 fields |-> e.fields]
<1>1. PICK t \in Types : e \in EventsOf(t)
  BY DEF Events
<1> QED
  BY <1>1 DEF EventsOf

LEMMA ContentsFact ==
  ASSUME NEW t \in Types, NEW f \in Contents(t)
  PROVE  /\ DOMAIN f = Members(t)
         /\ \A m \in Members(t) : f[m] \in Values(t, m)
<1>1. PICK g \in [Varying(t) -> UNION {Values(t, m) : m \in Varying(t)}] :
        /\ \A m \in Varying(t) : g[m] \in Values(t, m)
        /\ f = [m \in Members(t) |-> IF m \in Varying(t) THEN g[m]
                                     ELSE [kind |-> m, ref |-> 0]]
  BY DEF Contents
<1>2. ASSUME NEW m \in Members(t)
      PROVE  f[m] \in Values(t, m)
  <2>1. CASE m \in Varying(t)
    BY <1>1, <2>1
  <2>2. CASE m \notin Varying(t)
    BY <1>1, <2>2 DEF Varying, Values
  <2> QED
    BY <2>1, <2>2
<1> QED
  BY <1>1, <1>2

LEMMA RecordFact ==
  ASSUME NEW e
  PROVE  /\ RecordOf(e).type = e.type
         /\ RecordOf(e).ticks = Ticks[e.time]
         /\ RecordOf(e).attributes = e.attributes
         /\ RecordOf(e).arguments =
              [i \in DOMAIN Layouts[e.type] |->
                 Argument(e.fields[Layouts[e.type][i]])]
BY DEF RecordOf

LEMMA SkippedFact ==
  ASSUME NEW c, NEW e
  PROVE  Skipped(c, RecordOf(e)) <=> Lost(c, e)
BY RecordFact DEF Skipped, Lost

LEMMA ShownFact ==
  ASSUME NEW c, NEW r
  PROVE  EventOf(c, r).time = Instant[c][r.ticks]
BY DEF EventOf

(* Only what is not before the start of the clock is shown.                *)
LEMMA NotEarlyFact ==
  ASSUME NEW c \in AllClocks, NEW e \in Events, Failures(c, RecordOf(e)) = {}
  PROVE  c.start <= Ticks[e.time] /\ ~Missing(RecordOf(e))
<1>1. "asserted" \notin Failures(c, RecordOf(e)) /\ "threw" \notin Failures(c, RecordOf(e))
  OBVIOUS
<1>2. ~Early(c, RecordOf(e)) /\ ~Missing(RecordOf(e))
  BY <1>1 DEF Failures
<1>3. ~(Ticks[e.time] < c.start)
  BY <1>2, RecordFact DEF Early
<1>4. Ticks[e.time] \in Nat /\ c.start \in Nat
  BY EventFact, TimesAssumption, ClocksAssumption
<1> QED
  BY <1>2, <1>3, <1>4

(* The three ways to get a member exclude each other.                      *)
LEMMA LookupFact ==
  ASSUME NEW get, get \in {<<>>, <<"ticks">>}
  PROVE  ~IsLookup(get) /\ <<>> # <<"ticks">>
<1>1. Len(<<"ticks">>) = 1 /\ Len(<<>>) = 0
  OBVIOUS
<1>2. ASSUME get = <<>> PROVE Len(get) = 0
  BY <1>1, <1>2
<1>3. ASSUME get = <<"ticks">> PROVE Len(get) = 1
  BY <1>1, <1>3
<1> QED
  BY <1>1, <1>2, <1>3 DEF IsLookup

(* What a callback takes for a member is what the event had there.         *)
LEMMA ValueFact ==
  ASSUME Faithful, NEW c, NEW e \in Events, e.type \in Registered,
         NEW m \in Members(e.type)
  PROVE  /\ ValueOf(c, Callbacks[e.type][m], RecordOf(e).arguments) =
              SeenValue(c, e.fields[m])
         /\ IsLookup(Callbacks[e.type][m].get) =>
              SeenValue(c, e.fields[m]) \in Definitions
<1> DEFINE t == e.type
           from == Callbacks[t][m]
           kinds == Classes[t].members[m]
           v == e.fields[m]
<1>1. t \in Types /\ v \in Values(t, m) /\ Fits(t, m)
  BY EventFact, ContentsFact DEF Faithful
<1>2. from.at \in DOMAIN Layouts[t] /\ Layouts[t][from.at] = m
  BY <1>1 DEF Fits
<1>3. RecordOf(e).arguments[from.at] = Argument(v)
  <2>1. RecordOf(e).arguments =
          [i \in DOMAIN Layouts[t] |-> Argument(e.fields[Layouts[t][i]])]
    BY RecordFact
  <2> QED
    BY <1>2, <2>1
<1> HIDE DEF from, v
<1>5. CASE kinds = {}
  <2>1. v = [kind |-> m, ref |-> 0] /\ from.get = <<>>
    BY <1>1, <1>5 DEF Values, Fits, from
  <2>2. m # "time" /\ v \notin Definitions
    BY <1>1, <1>5, <2>1, NamesAssumption
  <2>3. Argument(v) = v
    BY <2>1, <2>2 DEF Argument
  <2>6. ~IsLookup(from.get) /\ from.get # <<"ticks">>
    BY <2>1, LookupFact
  <2>4. ValueOf(c, from, RecordOf(e).arguments) = Argument(v)
    BY <1>3, <2>1, <2>6 DEF ValueOf
  <2>5. SeenValue(c, v) = v
    BY <2>1, <2>2 DEF SeenValue
  <2> QED
    BY <2>3, <2>4, <2>5, <2>6 DEF from, v
<1>6. CASE kinds = {"time"}
  <2>1. v \in [kind : {"time"}, ref : Times] /\ from.get = <<"ticks">>
    BY <1>1, <1>6 DEF Values, Fits, from
  <2>2. Argument(v) = [kind |-> "ticks", ref |-> Ticks[v.ref]]
    <3>1. v.kind = "time" /\ v \notin Definitions
      BY <2>1, NamesAssumption
    <3> QED
      BY <3>1 DEF Argument
  <2>5. ~IsLookup(from.get) /\ from.get # <<>>
    BY <2>1, LookupFact
  <2>3. ValueOf(c, from, RecordOf(e).arguments) =
          [kind |-> "time", ref |-> Instant[c][Ticks[v.ref]]]
    BY <1>3, <2>1, <2>2, <2>5 DEF ValueOf
  <2>4. SeenValue(c, v) = [kind |-> "time", ref |-> Instant[c][Ticks[v.ref]]]
    BY <2>1 DEF SeenValue
  <2> QED
    BY <2>3, <2>4, <2>5 DEF from, v
<1>7. CASE kinds # {} /\ kinds # {"time"}
  <2>1. v \in Definitions /\ v \in Values(t, m)
    BY <1>1, <1>7 DEF Values
  <2>2. IsLookup(from.get) /\ KindOf(from.get, v.ref) = v.kind
    BY <1>1, <1>7, <2>1 DEF Fits, from
  <2>3. v = [kind |-> v.kind, ref |-> v.ref] /\ v.kind # "time"
    BY <2>1, NamesAssumption
  <2>4. Argument(v) = [kind |-> "reference", ref |-> v.ref]
    BY <2>1, <2>3 DEF Argument
  <2>5. from.get # <<>> /\ from.get # <<"ticks">>
    BY <2>2, LookupFact
  <2>6. ValueOf(c, from, RecordOf(e).arguments) =
          [kind |-> KindOf(from.get, v.ref), ref |-> v.ref]
    BY <1>3, <2>2, <2>4, <2>5 DEF ValueOf
  <2>7. SeenValue(c, v) = v
    BY <2>3 DEF SeenValue
  <2> QED
    BY <2>1, <2>2, <2>3, <2>6, <2>7 DEF from, v
<1> QED
  BY <1>5, <1>6, <1>7

(* A callback makes the event again, and misses no definition.             *)
LEMMA EventAgain ==
  ASSUME Faithful, NEW c, NEW e \in Events, e.type \in Registered
  PROVE  EventOf(c, RecordOf(e)) = Seen(c, e) /\ ~Missing(RecordOf(e))
<1>1. DOMAIN Callbacks[e.type] = Members(e.type) /\ DOMAIN e.fields = Members(e.type)
  BY EventFact, ContentsFact DEF Faithful
<1>2. [m \in DOMAIN Callbacks[e.type] |->
         ValueOf(c, Callbacks[e.type][m], RecordOf(e).arguments)] =
      [m \in DOMAIN e.fields |-> SeenValue(c, e.fields[m])]
  BY <1>1, ValueFact
<1>3. ASSUME NEW m \in DOMAIN Callbacks[e.type], IsLookup(Callbacks[e.type][m].get)
      PROVE  ValueOf(InitialClock, Callbacks[e.type][m], RecordOf(e).arguments) \in Definitions
  BY <1>1, <1>3, ValueFact
<1>4. ~Missing(RecordOf(e))
  BY <1>3, RecordFact DEF Missing
<1> QED
  BY <1>2, <1>4, RecordFact DEF EventOf, Seen

-----------------------------------------------------------------------------
(* The inductive invariant: the files and what was counted of them         *)

Before == {"write", "closed", "ready", "unreadable", "undefined"}

Stamp(l, p) == Ticks[sent[l][p].time]

Counted ==
  /\ counted = [l \in Locations |-> Initial[l] + Len(sent[l])]
  /\ phase # "write" => stored = counted

(* The library refuses what is earlier than the record before.             *)
Sorted ==
  \A l \in Locations : \A p, q \in 1 .. Len(sent[l]) :
    p <= q => Stamp(l, p) <= Stamp(l, q)

FileInv == TypeOK /\ Counted /\ Sorted

LEMMA AppendFact ==
  ASSUME NEW S, NEW s \in Seq(S), NEW e \in S
  PROVE  /\ Append(s, e) \in Seq(S)
         /\ Len(Append(s, e)) = Len(s) + 1
         /\ \A i \in 1 .. Len(s) : Append(s, e)[i] = s[i]
         /\ Append(s, e)[Len(s) + 1] = e
OBVIOUS

LEMMA MapAppend ==
  ASSUME NEW s \in Seq(Events), NEW e \in Events
  PROVE  Append([i \in 1 .. Len(s) |-> RecordOf(s[i])], RecordOf(e)) =
           [i \in 1 .. Len(Append(s, e)) |-> RecordOf(Append(s, e)[i])]
<1> DEFINE a == [i \in 1 .. Len(s) |-> RecordOf(s[i])]
           u == Append(s, e)
           b == [i \in 1 .. Len(u) |-> RecordOf(u[i])]
           R == {RecordOf(x) : x \in Events}
<1>1. Len(s) \in Nat /\ \A i \in 1 .. Len(s) : s[i] \in Events
  OBVIOUS
<1>2. a \in Seq(R) /\ Len(a) = Len(s) /\ RecordOf(e) \in R
  BY <1>1
<1>3. /\ Append(a, RecordOf(e)) \in Seq(R)
      /\ Len(Append(a, RecordOf(e))) = Len(s) + 1
      /\ \A i \in 1 .. Len(s) : Append(a, RecordOf(e))[i] = RecordOf(s[i])
      /\ Append(a, RecordOf(e))[Len(s) + 1] = RecordOf(e)
  <2> HIDE DEF a, R
  <2>1. \A i \in 1 .. Len(a) : Append(a, RecordOf(e))[i] = a[i]
    BY <1>2, AppendFact
  <2> QED
    BY <1>2, <2>1, AppendFact DEF a
<1>4. /\ Len(u) = Len(s) + 1
      /\ \A i \in 1 .. Len(s) : u[i] = s[i]
      /\ u[Len(s) + 1] = e
  BY AppendFact
<1> HIDE DEF a, u, R
<1>6. ASSUME NEW i \in 1 .. Len(s) + 1
      PROVE  Append(a, RecordOf(e))[i] = RecordOf(u[i])
  <2>1. i \in 1 .. Len(s) \/ i = Len(s) + 1
    BY <1>1
  <2> QED
    BY <2>1, <1>3, <1>4
<1>7. Append(a, RecordOf(e)) = [i \in 1 .. Len(s) + 1 |-> RecordOf(u[i])]
  <2> DEFINE w == Append(a, RecordOf(e))
  <2>1. w \in Seq(R)
    BY <1>3
  <2> HIDE DEF w
  <2>2. w = [i \in 1 .. Len(w) |-> w[i]]
    BY <2>1
  <2> QED
    BY <2>2, <1>3, <1>6 DEF w
<1> QED
  BY <1>4, <1>7 DEF a, u

LEMMA EventsFact ==
  ASSUME TypeOK, NEW l \in Locations
  PROVE  /\ sent[l] \in Seq(Events)
         /\ Len(sent[l]) \in Nat
         /\ Len(events[l]) = Len(sent[l])
         /\ \A p \in 1 .. Len(sent[l]) :
              /\ sent[l][p] \in Events
              /\ events[l][p] = RecordOf(sent[l][p])
              /\ events[l][p].ticks = Stamp(l, p)
              /\ Stamp(l, p) \in Nat
         /\ taken[l] \in Nat /\ taken[l] <= Len(sent[l])
<1>1. sent[l] \in Seq(Events)
  BY DEF TypeOK
<1>2. Len(sent[l]) \in Nat /\ \A p \in 1 .. Len(sent[l]) : sent[l][p] \in Events
  BY <1>1
<1>3. events[l] = [i \in 1 .. Len(sent[l]) |-> RecordOf(sent[l][i])]
  BY DEF TypeOK
<1>4. Len(events[l]) = Len(sent[l])
  BY <1>2, <1>3
<1>5. ASSUME NEW p \in 1 .. Len(sent[l])
      PROVE  /\ events[l][p] = RecordOf(sent[l][p])
             /\ events[l][p].ticks = Stamp(l, p)
             /\ Stamp(l, p) \in Nat
  BY <1>2, <1>3, RecordFact, EventFact, TimesAssumption DEF Stamp
<1>6. taken[l] \in Nat /\ taken[l] <= Len(events[l])
  BY DEF TypeOK
<1> QED
  BY <1>1, <1>2, <1>4, <1>5, <1>6

LEMMA InitFile ==
  Init => FileInv
<1> SUFFICES ASSUME Init PROVE FileInv
  OBVIOUS
<1> USE DEF Init
<1>1. sent \in [Locations -> Seq(Events)] /\ \A l \in Locations : Len(sent[l]) = 0
  OBVIOUS
<1>2. events = [l \in Locations |-> [i \in 1 .. Len(sent[l]) |-> RecordOf(sent[l][i])]]
  <2>1. \A l \in Locations : [i \in 1 .. Len(sent[l]) |-> RecordOf(sent[l][i])] = <<>>
    BY <1>1
  <2> QED
    BY <2>1
<1>3. \A l \in Locations : taken[l] <= Len(events[l])
  OBVIOUS
<1>4. TypeOK
  BY <1>1, <1>2, <1>3, InitialAssumption DEF TypeOK, AllClocks
<1>5. Counted
  BY <1>1, InitialAssumption DEF Counted
<1>6. Sorted
  BY <1>1 DEF Sorted
<1> QED
  BY <1>4, <1>5, <1>6 DEF FileInv

(* What does not write leaves the files as they are.                       *)
LEMMA SameFile ==
  ASSUME FileInv, UNCHANGED <<events, counted, sent>>,
         hand' \in Events \cup {Nothing},
         writer' \in [Locations -> {"none", "open", "closed", "gone"}],
         clock' \in AllClocks,
         phase' \in {"write", "closed", "ready", "read", "done", "unreadable",
                     "threw", "asserted", "undefined"},
         stored' \in {stored, counted},
         phase' # "write" => phase # "write" \/ stored' = counted,
         registered' \subseteq Locations,
         taken' \in [Locations -> Nat],
         \A l \in Locations : taken'[l] <= Len(events[l])
  PROVE  FileInv'
<1>1. TypeOK'
  BY DEF FileInv, TypeOK
<1>2. Counted' /\ Sorted'
  BY DEF FileInv, Counted, Sorted, Stamp
<1> QED
  BY <1>1, <1>2 DEF FileInv

LEMMA WriteFile ==
  ASSUME FileInv, NEW l \in Locations, Write(l)
  PROVE  FileInv'
<1> DEFINE n == Len(sent[l])
<1>1. hand \in Events /\ TypeOK /\ phase = "write"
  BY DEF Write, FileInv, TypeOK
<1>2. /\ sent[l] \in Seq(Events) /\ n \in Nat /\ Len(events[l]) = n
      /\ \A p \in 1 .. n : events[l][p].ticks = Stamp(l, p) /\ Stamp(l, p) \in Nat
  BY <1>1, EventsFact
<1>3. sent' = [sent EXCEPT ![l] = Append(sent[l], hand)]
  BY DEF Write
<1>4. /\ sent'[l] = Append(sent[l], hand)
      /\ \A k \in Locations \ {l} : sent'[k] = sent[k]
  BY <1>1, <1>3 DEF TypeOK
<1>5. /\ sent'[l] \in Seq(Events) /\ Len(sent'[l]) = n + 1
      /\ \A p \in 1 .. n : sent'[l][p] = sent[l][p]
      /\ sent'[l][n + 1] = hand
  BY <1>1, <1>2, <1>4, AppendFact
<1>6. sent' \in [Locations -> Seq(Events)]
  BY <1>1, <1>3, <1>4, <1>5 DEF TypeOK
<1>7. events' = [k \in Locations |-> [i \in 1 .. Len(sent'[k]) |-> RecordOf(sent'[k][i])]]
  <2>1. events' = [events EXCEPT ![l] = Append(events[l], RecordOf(hand))]
    BY DEF Write
  <2>2. events[l] = [i \in 1 .. n |-> RecordOf(sent[l][i])]
    BY <1>1 DEF TypeOK
  <2>3. Append(events[l], RecordOf(hand)) =
          [i \in 1 .. Len(sent'[l]) |-> RecordOf(sent'[l][i])]
    BY <1>1, <1>2, <1>4, <2>2, MapAppend
  <2>4. ASSUME NEW k \in Locations
        PROVE  events'[k] = [i \in 1 .. Len(sent'[k]) |-> RecordOf(sent'[k][i])]
    <3>1. CASE k = l
      BY <2>1, <2>3, <3>1, <1>1 DEF TypeOK
    <3>2. CASE k # l
      BY <2>1, <3>2, <1>1, <1>4 DEF TypeOK
    <3> QED
      BY <3>1, <3>2
  <2>5. events' = [k \in Locations |-> events'[k]]
    BY <2>1, <1>1 DEF TypeOK
  <2> QED
    BY <2>4, <2>5
<1>8. ASSUME NEW k \in Locations
      PROVE  taken'[k] <= Len(events'[k])
  <2>1. Len(events'[k]) = Len(sent'[k])
    BY <1>6, <1>7
  <2>2. taken'[k] \in Nat /\ taken'[k] <= Len(sent[k]) /\ Len(sent[k]) \in Nat
    BY <1>1, EventsFact DEF Write, reading
  <2>3. Len(sent'[k]) \in {Len(sent[k]), Len(sent[k]) + 1}
    BY <1>4, <1>5
  <2> QED
    BY <2>1, <2>2, <2>3
<1>9. counted' = [k \in Locations |-> Initial[k] + Len(sent'[k])]
  <2>1. counted = [k \in Locations |-> Initial[k] + Len(sent[k])]
    BY DEF FileInv, Counted
  <2>2. Initial[l] \in Nat /\ counted[l] + 1 = Initial[l] + Len(sent'[l])
    BY <2>1, <1>2, <1>5, InitialAssumption
  <2> QED
    BY <2>1, <2>2, <1>4 DEF Write
<1>10. TypeOK'
  <2>1. writer' \in [Locations -> {"none", "open", "closed", "gone"}]
    BY <1>1 DEF Write, Opened, TypeOK
  <2>2. counted' \in [Locations -> Nat]
    <3>1. \A k \in Locations : Initial[k] \in Nat /\ Len(sent'[k]) \in Nat
      BY <1>6, InitialAssumption
    <3> QED
      BY <1>9, <3>1
  <2> QED
    BY <1>1, <1>6, <1>7, <1>8, <2>1, <2>2 DEF TypeOK, Write, reading
<1>11. Sorted'
  <2>1. ASSUME n # 0
        PROVE  Stamp(l, n) <= Ticks[hand.time]
    <3>1. events[l] # <<>>
      BY <1>2, <2>1
    <3>2. events[l][n].ticks <= Ticks[hand.time]
      BY <1>2, <3>1 DEF Write, Accepts
    <3> QED
      BY <1>2, <2>1, <3>2
  <2>2. Ticks[hand.time] \in Nat
    BY <1>1, EventFact, TimesAssumption
  <2>3. ASSUME NEW p \in 1 .. n + 1, NEW q \in 1 .. n + 1, p <= q
        PROVE  Ticks[sent'[l][p].time] <= Ticks[sent'[l][q].time]
    <3>1. CASE q \in 1 .. n
      BY <3>1, <2>3, <1>2, <1>5, SMTT(30) DEF FileInv, Sorted, Stamp
    <3>2. CASE q = n + 1 /\ p \in 1 .. n
      <4>1. Stamp(l, p) <= Stamp(l, n) /\ n \in 1 .. n /\ n # 0
        BY <3>2, <1>2 DEF FileInv, Sorted
      <4>2. Stamp(l, p) \in Nat /\ Stamp(l, n) \in Nat
        BY <3>2, <4>1, <1>2
      <4>3. Stamp(l, p) <= Ticks[hand.time]
        BY <4>1, <4>2, <2>1, <2>2
      <4> QED
        BY <3>2, <4>3, <1>5 DEF Stamp
    <3>3. CASE q = n + 1 /\ p = n + 1
      BY <3>3, <2>2, <1>5
    <3> QED
      BY <3>1, <3>2, <3>3, <1>2
  <2>4. ASSUME NEW k \in Locations, NEW p \in 1 .. Len(sent'[k]),
               NEW q \in 1 .. Len(sent'[k]), p <= q
        PROVE  Ticks[sent'[k][p].time] <= Ticks[sent'[k][q].time]
    <3>1. CASE k = l
      BY <2>3, <2>4, <3>1, <1>5
    <3>2. CASE k # l
      BY <2>4, <3>2, <1>4 DEF FileInv, Sorted, Stamp
    <3> QED
      BY <3>1, <3>2
  <2> QED
    BY <2>4 DEF Sorted, Stamp
<1>12. Counted'
  BY <1>1, <1>9 DEF Counted, Write
<1> QED
  BY <1>10, <1>11, <1>12 DEF FileInv

LEMMA HandedOutFact ==
  ASSUME TypeOK, NEW h \in HandedOut
  PROVE  LET l == h.location
         IN /\ l \in registered
            /\ l \in Locations
            /\ taken[l] < Len(sent[l])
            /\ taken[l] + 1 \in 1 .. Len(sent[l])
            /\ sent[l][taken[l] + 1] \in Events
            /\ h.record = RecordOf(sent[l][taken[l] + 1])
            /\ \A k \in registered : taken[k] < Len(sent[k]) =>
                 Stamp(l, taken[l] + 1) <= Stamp(k, taken[k] + 1)
<1>1. PICK l \in registered :
        /\ h = [location |-> l, record |-> Upcoming(l)]
        /\ Remaining(l)
        /\ \A k \in registered :
             Remaining(k) => Upcoming(l).ticks <= Upcoming(k).ticks
  BY DEF HandedOut
<1>2. ASSUME NEW k \in registered, taken[k] < Len(sent[k])
      PROVE  /\ Remaining(k)
             /\ Upcoming(k) = RecordOf(sent[k][taken[k] + 1])
             /\ Upcoming(k).ticks = Stamp(k, taken[k] + 1)
  <2>1. k \in Locations
    BY DEF TypeOK
  <2>2. taken[k] + 1 \in 1 .. Len(sent[k])
    BY <1>2, <2>1, EventsFact
  <2> QED
    BY <1>2, <2>1, <2>2, EventsFact DEF Remaining, Upcoming
<1>3. l \in Locations /\ taken[l] < Len(sent[l])
  BY <1>1, EventsFact DEF TypeOK, Remaining
<1>4. taken[l] + 1 \in 1 .. Len(sent[l]) /\ sent[l][taken[l] + 1] \in Events
  BY <1>3, EventsFact
<1> QED
  BY <1>1, <1>2, <1>3, <1>4

(* A set of naturals that is not empty has a least element.                *)
LEMMA LeastElement ==
  ASSUME NEW S, S \subseteq Nat, S # {}
  PROVE  \E m \in S : \A n \in S : m <= n
<1>1. PICK m \in S : \A n \in S : <<n, m>> \notin OpToRel(<, Nat)
  BY NatLessThanWellFounded, WFMin
<1>2. \A n \in S : ~(n < m)
  BY <1>1 DEF OpToRel
<1> QED
  BY <1>2

(* When nothing is handed out, all is read: what is left has an earliest   *)
(* record.                                                                 *)
LEMMA AllRead ==
  ASSUME TypeOK, HandedOut = {}
  PROVE  \A l \in registered : taken[l] = Len(sent[l])
<1> SUFFICES ASSUME NEW l \in registered, taken[l] # Len(sent[l])
             PROVE  FALSE
  OBVIOUS
<1> DEFINE L == {k \in registered : Remaining(k)}
           S == {Upcoming(k).ticks : k \in L}
<1>1. \A k \in registered : k \in Locations
  BY DEF TypeOK
<1>2. l \in L
  BY <1>1, EventsFact DEF Remaining
<1>3. ASSUME NEW k \in L
      PROVE  Upcoming(k).ticks \in Nat
  <2>1. taken[k] + 1 \in 1 .. Len(sent[k])
    BY <1>1, EventsFact DEF Remaining
  <2> QED
    BY <2>1, <1>1, EventsFact DEF Upcoming
<1>4. S \subseteq Nat /\ S # {}
  BY <1>2, <1>3
<1>6. PICK x \in S : \A y \in S : x <= y
  <2> HIDE DEF S
  <2> QED
    BY <1>4, LeastElement
<1>7. PICK k \in L : x = Upcoming(k).ticks
  OBVIOUS
<1>8. \A j \in registered : Remaining(j) => Upcoming(k).ticks <= Upcoming(j).ticks
  BY <1>6, <1>7
<1>9. [location |-> k, record |-> Upcoming(k)] \in HandedOut
  BY <1>7, <1>8 DEF HandedOut
<1> QED
  BY <1>9

LEMMA AdvanceFact ==
  ASSUME TypeOK, NEW h \in HandedOut, Advance(h.location)
  PROVE  /\ taken' \in [Locations -> Nat]
         /\ taken'[h.location] = taken[h.location] + 1
         /\ \A k \in Locations \ {h.location} : taken'[k] = taken[k]
         /\ \A k \in Locations : taken'[k] <= Len(sent[k])
<1>1. h.location \in Locations /\ taken[h.location] + 1 \in 1 .. Len(sent[h.location])
  BY HandedOutFact
<1>2. taken \in [Locations -> Nat]
  BY DEF TypeOK
<1>3. taken' = [taken EXCEPT ![h.location] = taken[h.location] + 1]
  BY DEF Advance
<1>4. \A k \in Locations : taken[k] <= Len(sent[k])
  BY EventsFact
<1> QED
  BY <1>1, <1>2, <1>3, <1>4

LEMMA NextFile ==
  FileInv /\ [Next]_vars => FileInv'
<1> SUFFICES ASSUME FileInv, [Next]_vars PROVE FileInv'
  OBVIOUS
<1> USE DEF FileInv
<1>0. /\ hand \in Events \cup {Nothing}
      /\ writer \in [Locations -> {"none", "open", "closed", "gone"}]
      /\ clock \in AllClocks
      /\ phase \in {"write", "closed", "ready", "read", "done", "unreadable",
                    "threw", "asserted", "undefined"}
      /\ registered \subseteq Locations
      /\ taken \in [Locations -> Nat]
      /\ \A l \in Locations : taken[l] <= Len(events[l])
      /\ phase # "write" => stored = counted
  BY DEF TypeOK, Counted
<1> DEFINE Quiet == UNCHANGED <<writer, events, counted, stored, sent, clock, phase, reading>>
<1>1. ASSUME Quiet, hand' \in Events \cup {Nothing}
      PROVE  FileInv'
  BY <1>0, <1>1, SameFile DEF reading
<1>2. ASSUME NEW t \in Types, Construct(t)
      PROVE  FileInv'
  BY <1>1, <1>2 DEF Construct, Events
<1>3. ASSUME NEW a \in Attributes, AddAttribute(a)
      PROVE  FileInv'
  <2>1. hand \in Events /\ hand' = [hand EXCEPT !.attributes = hand.attributes \cup {a}]
    BY <1>0, <1>3 DEF AddAttribute
  <2>2. hand \in EventsOf(hand.type) /\ hand.type \in Types
    BY <2>1, EventFact
  <2>3. hand' \in EventsOf(hand.type)
    BY <2>1, <2>2 DEF EventsOf
  <2> QED
    BY <1>1, <1>3, <2>2, <2>3 DEF AddAttribute, Events
<1>4. ASSUME NEW t \in Times, Restamp(t)
      PROVE  FileInv'
  <2> DEFINE kept == IF Classes[hand.type].keeps THEN hand.attributes ELSE {}
  <2>1. /\ hand \in Events
        /\ hand' = [hand EXCEPT !.time = t, !.attributes = kept]
    BY <1>0, <1>4 DEF Restamp
  <2>2. hand \in EventsOf(hand.type) /\ hand.type \in Types
    BY <2>1, EventFact
  <2>3. hand.attributes \in SUBSET Attributes
    BY <2>2 DEF EventsOf
  <2>4. kept \in SUBSET Attributes
    BY <2>3
  <2>5. hand' \in EventsOf(hand.type)
    <3> HIDE DEF kept
    <3> QED
      BY <2>1, <2>2, <2>4 DEF EventsOf
  <2> QED
    BY <1>1, <1>4, <2>2, <2>5 DEF Restamp, Events
<1>5. ASSUME NEW l \in Locations, Refuse(l)
      PROVE  FileInv'
  BY <1>1, <1>5 DEF Refuse
<1>6. ASSUME NEW l \in Locations, CloseEventWriter(l) \/ CloseLocalWriter(l)
      PROVE  FileInv'
  <2>1. writer' \in [Locations -> {"none", "open", "closed", "gone"}]
    BY <1>0, <1>6 DEF CloseEventWriter, CloseLocalWriter
  <2>2. UNCHANGED <<hand, events, counted, stored, sent, clock, phase, reading>>
    BY <1>6 DEF CloseEventWriter, CloseLocalWriter
  <2> QED
    BY <1>0, <2>1, <2>2, SameFile DEF reading
<1>7. ASSUME NEW c \in Clocks, WriteClock(c)
      PROVE  FileInv'
  <2>1. clock' \in AllClocks
    BY <1>7 DEF WriteClock, AllClocks
  <2> QED
    BY <1>0, <1>7, <2>1, SameFile DEF WriteClock, reading
<1>8. CASE Destroy
  <2>1. writer' \in [Locations -> {"none", "open", "closed", "gone"}]
    BY <1>8 DEF Destroy
  <2> QED
    BY <1>0, <1>8, <2>1, SameFile DEF Destroy, reading
<1> DEFINE Still == UNCHANGED <<writing, stored>> /\ phase # "write" /\ phase' # "write"
<1>9. ASSUME Still,
             phase' \in {"ready", "read", "done", "unreadable", "threw",
                         "asserted", "undefined"},
             registered' \subseteq Locations, taken' \in [Locations -> Nat],
             \A l \in Locations : taken'[l] <= Len(events[l])
      PROVE  FileInv'
  <2>1. hand' = hand /\ writer' = writer /\ clock' = clock /\ stored' = stored
    BY <1>9 DEF writing
  <2>2. UNCHANGED <<events, counted, sent>>
    BY <1>9 DEF writing
  <2> QED
    BY <1>0, <1>9, <2>1, <2>2, SameFile
<1>10. CASE ReadDefinitions
  BY <1>0, <1>9, <1>10 DEF ReadDefinitions, reading
<1>11. ASSUME NEW l \in Locations, RegisterLocation(l)
       PROVE  FileInv'
  BY <1>0, <1>9, <1>11 DEF RegisterLocation
<1>12. CASE ReadEvents
  BY <1>0, <1>9, <1>12 DEF ReadEvents, reading
<1>13. CASE ReadNothing
  BY <1>0, <1>9, <1>13 DEF ReadNothing, reading
<1>14. ASSUME NEW h \in HandedOut, Skip(h) \/ Show(h)
       PROVE  FileInv'
  <2>1. Advance(h.location)
    BY <1>14 DEF Skip, Show
  <2>2. /\ taken' \in [Locations -> Nat]
        /\ \A l \in Locations : taken'[l] <= Len(events[l])
    BY <2>1, AdvanceFact, EventsFact
  <2>3. UNCHANGED <<writing, stored, phase, registered>> /\ phase = "read"
    BY <1>14 DEF Skip, Show
  <2> QED
    BY <1>0, <1>9, <2>2, <2>3
<1>15. ASSUME NEW h \in HandedOut, Fail(h)
       PROVE  FileInv'
  BY <1>0, <1>9, <1>15 DEF Fail, Failures, reading
<1>16. CASE EventsDone
  BY <1>0, <1>9, <1>16 DEF EventsDone, reading
<1>17. CASE UNCHANGED vars
  BY <1>0, <1>17, SameFile DEF vars
<1> HIDE DEF FileInv
<1>18. CASE Program
  BY <1>2, <1>3, <1>4, <1>5, <1>6, <1>7, <1>8, <1>10, <1>11, <1>12, <1>13,
     <1>18, WriteFile DEF Program
<1>19. CASE ReadAll
  BY <1>14, <1>15, <1>16, <1>19 DEF ReadAll
<1> QED
  BY <1>17, <1>18, <1>19 DEF Next

-----------------------------------------------------------------------------
(* The inductive invariant: what was shown                                 *)

Entries ==
  [location : Locations, position : Nat,
   event : {EventOf(c, RecordOf(e)) : c \in AllClocks, e \in Events}]

At(i) == Stamp(got[i].location, got[i].position)

(* Nothing is shown before read_events runs.                               *)
NotYet == phase \in Before => got = <<>> /\ \A l \in Locations : taken[l] = 0

(* The entry stands for a record that was read.                            *)
Shown(i) ==
  LET g == got[i]
      e == sent[g.location][g.position]
  IN /\ g.location \in registered
     /\ g.position \in 1 .. taken[g.location]
     /\ g.event = EventOf(clock, RecordOf(e))
     /\ clock.start <= Ticks[e.time]
     /\ e.type \in Registered

AllShown == got \in Seq(Entries) /\ \A i \in 1 .. Len(got) : Shown(i)

InTurn ==
  \A i, j \in 1 .. Len(got) :
    i < j /\ got[i].location = got[j].location =>
      got[i].position < got[j].position

(* What was shown is not later than what is left, nor than what was shown  *)
(* after it.                                                               *)
Ordered ==
  /\ \A i \in 1 .. Len(got) : \A l \in registered :
       taken[l] < Len(sent[l]) => At(i) <= Stamp(l, taken[l] + 1)
  /\ \A i, j \in 1 .. Len(got) : i < j => At(i) <= At(j)

Covered ==
  /\ \A l \in registered : \A p \in 1 .. taken[l] :
       ~Lost(clock, sent[l][p]) =>
         \E i \in 1 .. Len(got) : got[i].location = l /\ got[i].position = p
  /\ phase = "done" => \A l \in registered : taken[l] = Len(sent[l])

ReadInv == NotYet /\ AllShown /\ InTurn /\ Ordered /\ Covered

Inv == FileInv /\ ReadInv

(* Before read_events runs there is nothing to be said of what was shown.  *)
Idle ==
  TypeOK /\ got = <<>> /\ (\A l \in Locations : taken[l] = 0) /\ phase # "done"

LEMMA NothingShown ==
  Idle => ReadInv
<1> SUFFICES ASSUME Idle PROVE ReadInv
  OBVIOUS
<1> USE DEF Idle
<1>1. got \in Seq(Entries) /\ Len(got) = 0
  OBVIOUS
<1>2. \A l \in registered : taken[l] = 0
  BY DEF TypeOK
<1>3. AllShown /\ InTurn /\ Ordered
  BY <1>1 DEF AllShown, InTurn, Ordered
<1>4. Covered
  BY <1>2 DEF Covered
<1> QED
  BY <1>3, <1>4 DEF ReadInv, NotYet

LEMMA InitRead ==
  Init => ReadInv
<1> SUFFICES ASSUME Init PROVE ReadInv
  OBVIOUS
<1>1. TypeOK
  BY InitFile DEF FileInv
<1> QED
  BY <1>1, NothingShown DEF Init, Idle

(* What the program does while nothing is read.                            *)
LEMMA ProgramRead ==
  ASSUME Inv, Program
  PROVE  ReadInv'
<1>1. phase \in Before /\ phase' # "done" /\ got' = got /\ taken' = taken
  <2>1. ASSUME NEW t \in Types, Construct(t)
        PROVE  phase = "write" /\ phase' = phase /\ UNCHANGED reading
    BY <2>1 DEF Construct
  <2>2. ASSUME NEW a \in Attributes, AddAttribute(a)
        PROVE  phase = "write" /\ phase' = phase /\ UNCHANGED reading
    BY <2>2 DEF AddAttribute
  <2>3. ASSUME NEW t \in Times, Restamp(t)
        PROVE  phase = "write" /\ phase' = phase /\ UNCHANGED reading
    BY <2>3 DEF Restamp
  <2>4. ASSUME NEW l \in Locations,
               Write(l) \/ Refuse(l) \/ CloseEventWriter(l) \/ CloseLocalWriter(l)
        PROVE  phase = "write" /\ phase' = phase /\ UNCHANGED reading
    BY <2>4 DEF Write, Refuse, CloseEventWriter, CloseLocalWriter
  <2>5. ASSUME NEW c \in Clocks, WriteClock(c)
        PROVE  phase = "write" /\ phase' = phase /\ UNCHANGED reading
    BY <2>5 DEF WriteClock
  <2>6. CASE Destroy \/ ReadDefinitions \/ ReadEvents \/ ReadNothing
    BY <2>6 DEF Destroy, ReadDefinitions, ReadEvents, ReadNothing, reading, Before
  <2>7. ASSUME NEW l \in Locations, RegisterLocation(l)
        PROVE  phase = "ready" /\ phase' = phase /\ UNCHANGED <<taken, got>>
    BY <2>7 DEF RegisterLocation
  <2> QED
    BY <2>1, <2>2, <2>3, <2>4, <2>5, <2>6, <2>7 DEF Program, reading, Before
<1>2. got' = <<>> /\ \A l \in Locations : taken'[l] = 0
  BY <1>1 DEF Inv, ReadInv, NotYet
<1>3. TypeOK'
  BY NextFile DEF Inv, FileInv, Next
<1>4. Idle'
  BY <1>1, <1>2, <1>3 DEF Idle
<1> QED
  BY <1>4, NothingShown, PTL

(* A record of location l is read, of which nothing is shown, or which is  *)
(* shown as the last.                                                      *)
LEMMA TakeRead ==
  ASSUME Inv, phase = "read", phase' = "read",
         NEW h \in HandedOut, Advance(h.location),
         UNCHANGED <<sent, clock, registered>>,
         \/ got' = got /\ Lost(clock, sent[h.location][taken[h.location] + 1])
         \/ /\ got' = Append(got, [location |-> h.location,
                                   position |-> taken[h.location] + 1,
                                   event |-> EventOf(clock, h.record)])
            /\ clock.start <= Ticks[sent[h.location][taken[h.location] + 1].time]
            /\ sent[h.location][taken[h.location] + 1].type \in Registered
  PROVE  ReadInv'
<1> DEFINE l == h.location
           n == taken[l] + 1
           g == [location |-> l, position |-> n, event |-> EventOf(clock, h.record)]
           e == sent[l][n]
<1>1. TypeOK /\ FileInv /\ ReadInv /\ clock \in AllClocks /\ registered \subseteq Locations
  BY DEF Inv, FileInv, TypeOK
<1>2. /\ l \in registered /\ l \in Locations
      /\ n \in 1 .. Len(sent[l]) /\ e \in Events /\ h.record = RecordOf(e)
      /\ \A k \in registered : taken[k] < Len(sent[k]) =>
           Stamp(l, n) <= Stamp(k, taken[k] + 1)
      /\ taken[l] < Len(sent[l])
  BY <1>1, HandedOutFact
<1>3. /\ taken'[l] = n
      /\ \A k \in Locations \ {l} : taken'[k] = taken[k]
  BY <1>1, AdvanceFact
<1>4. \A k \in Locations : taken[k] \in Nat /\ Len(sent[k]) \in Nat
  BY <1>1, EventsFact
<1>5. got \in Seq(Entries) /\ Len(got) \in Nat
  BY <1>1 DEF ReadInv, AllShown
<1>6. g \in Entries
  BY <1>1, <1>2, <1>4 DEF Entries
<1> HIDE DEF l, n, g, e
(* The new list is the old one, maybe with g at its end.                   *)
<1>7. /\ got' \in Seq(Entries)
      /\ Len(got') \in {Len(got), Len(got) + 1}
      /\ \A i \in 1 .. Len(got) : got'[i] = got[i]
      /\ Len(got') = Len(got) + 1 =>
           /\ got'[Len(got) + 1] = g
           /\ clock.start <= Ticks[e.time]
           /\ e.type \in Registered
      /\ Len(got') = Len(got) => Lost(clock, e)
  <2>1. CASE got' = got /\ Lost(clock, e)
    BY <2>1, <1>5
  <2>2. CASE /\ got' = Append(got, g)
             /\ clock.start <= Ticks[e.time]
             /\ e.type \in Registered
    BY <2>2, <1>5, <1>6, AppendFact
  <2> QED
    BY <2>1, <2>2 DEF l, n, g, e
<1>8. \A i \in 1 .. Len(got') : i \in 1 .. Len(got) \/ (i = Len(got) + 1 /\ Len(got') = i)
  BY <1>5, <1>7
<1>9. g.location = l /\ g.position = n /\ g.event = EventOf(clock, RecordOf(e))
  BY <1>2 DEF g
<1>10. \A i \in 1 .. Len(got) : Shown(i)
  BY <1>1 DEF ReadInv, AllShown
<1>11. AllShown'
  <2>1. ASSUME NEW i \in 1 .. Len(got')
        PROVE  Shown(i)'
    <3>1. CASE i \in 1 .. Len(got)
      <4>1. Shown(i) /\ got'[i] = got[i]
        BY <1>10, <1>7, <3>1
      <4>2. got[i].location \in Locations
        BY <4>1, <1>1 DEF Shown
      <4>3. 1 .. taken[got[i].location] \subseteq 1 .. taken'[got[i].location]
        BY <4>2, <1>3, <1>4 DEF n
      <4> QED
        BY <4>1, <4>3 DEF Shown
    <3>2. CASE i = Len(got) + 1 /\ Len(got') = i
      <4>1. got'[i] = g /\ clock.start <= Ticks[e.time] /\ e.type \in Registered
        BY <1>7, <3>2, <1>5
      <4>2. n \in 1 .. taken'[l]
        BY <1>2, <1>3
      <4> QED
        BY <4>1, <4>2, <1>2, <1>9 DEF Shown, e
    <3> QED
      BY <2>1, <3>1, <3>2, <1>8
  <2> QED
    BY <2>1, <1>7 DEF AllShown
<1>12. InTurn'
  <2>1. ASSUME NEW i \in 1 .. Len(got'), NEW j \in 1 .. Len(got'), i < j,
               got'[i].location = got'[j].location
        PROVE  got'[i].position < got'[j].position
    <3>1. i \in 1 .. Len(got)
      BY <2>1, <1>5, <1>7
    <3>2. CASE j \in 1 .. Len(got)
      BY <2>1, <3>1, <3>2, <1>1, <1>7 DEF ReadInv, InTurn
    <3>3. CASE j = Len(got) + 1 /\ Len(got') = j
      <4>1. got'[j] = g /\ got'[i] = got[i] /\ Shown(i)
        BY <1>5, <1>7, <1>10, <3>1, <3>3
      <4>2. got[i].location = l /\ got[i].position \in 1 .. taken[l]
        BY <4>1, <2>1, <1>9 DEF Shown
      <4> QED
        BY <4>1, <4>2, <1>2, <1>4, <1>9 DEF n
    <3> QED
      BY <3>2, <3>3, <1>8
  <2> QED
    BY <2>1 DEF InTurn
<1>13. ASSUME NEW k \in registered, taken'[k] < Len(sent[k])
       PROVE  /\ Stamp(l, n) <= Stamp(k, taken'[k] + 1)
              /\ Stamp(l, n) \in Nat /\ Stamp(k, taken'[k] + 1) \in Nat
  <2>1. k \in Locations /\ taken'[k] \in Nat /\ taken'[k] + 1 \in 1 .. Len(sent[k])
    BY <1>1, <1>2, <1>3, <1>4, <1>13
  <2>2. Stamp(l, n) \in Nat /\ Stamp(k, taken'[k] + 1) \in Nat
    BY <2>1, <1>1, <1>2, EventsFact
  <2>3. CASE k = l
    BY <2>1, <2>2, <2>3, <1>1, <1>2, <1>3 DEF FileInv, Sorted
  <2>4. CASE k # l
    BY <2>1, <2>2, <2>4, <1>2, <1>3, <1>13
  <2> QED
    BY <2>2, <2>3, <2>4
<1>14. ASSUME NEW i \in 1 .. Len(got)
       PROVE  /\ At(i)' = At(i) /\ At(i) \in Nat
              /\ At(i) <= Stamp(l, n) /\ Stamp(l, n) \in Nat
  <2>1. Shown(i) /\ got'[i] = got[i]
    BY <1>7, <1>10
  <2>2. /\ got[i].location \in Locations
        /\ got[i].position \in 1 .. Len(sent[got[i].location])
    BY <2>1, <1>1, <1>4, EventsFact DEF Shown
  <2>3. At(i) \in Nat /\ Stamp(l, n) \in Nat
    BY <2>2, <1>1, <1>2, EventsFact DEF At
  <2>4. At(i) <= Stamp(l, n)
    BY <1>1, <1>2 DEF ReadInv, Ordered, n
  <2> QED
    BY <2>1, <2>3, <2>4 DEF At, Stamp
<1>15. ASSUME NEW i, i = Len(got) + 1, Len(got') = i
       PROVE  At(i)' = Stamp(l, n) /\ Stamp(l, n) \in Nat
  <2>1. got'[i] = g
    BY <1>7, <1>15, <1>5
  <2> QED
    BY <2>1, <1>1, <1>2, <1>9, EventsFact DEF At, Stamp
<1>16. Ordered'
  <2>1. ASSUME NEW i \in 1 .. Len(got'), NEW k \in registered,
               taken'[k] < Len(sent[k])
        PROVE  At(i)' <= Stamp(k, taken'[k] + 1)
    <3>1. CASE i \in 1 .. Len(got)
      <4>1. At(i)' = At(i) /\ At(i) \in Nat /\ At(i) <= Stamp(l, n)
        BY <3>1, <1>14
      <4>2. /\ Stamp(l, n) <= Stamp(k, taken'[k] + 1)
            /\ Stamp(l, n) \in Nat /\ Stamp(k, taken'[k] + 1) \in Nat
        BY <1>13, <2>1
      <4> QED
        BY <4>1, <4>2
    <3>2. CASE i = Len(got) + 1 /\ Len(got') = i
      BY <1>13, <1>15, <2>1, <3>2
    <3> QED
      BY <3>1, <3>2, <1>8
  <2>2. ASSUME NEW i \in 1 .. Len(got'), NEW j \in 1 .. Len(got'), i < j
        PROVE  At(i)' <= At(j)'
    <3>1. i \in 1 .. Len(got)
      BY <2>2, <1>5, <1>7
    <3>2. CASE j \in 1 .. Len(got)
      BY <2>2, <3>1, <3>2, <1>1, <1>14 DEF ReadInv, Ordered
    <3>3. CASE j = Len(got) + 1 /\ Len(got') = j
      BY <3>1, <3>3, <1>14, <1>15
    <3> QED
      BY <3>2, <3>3, <1>8
  <2> QED
    BY <2>1, <2>2 DEF Ordered, Stamp
<1>17. Covered'
  <2>1. ASSUME NEW k \in registered, NEW p \in 1 .. taken'[k],
               ~Lost(clock, sent[k][p])
        PROVE  \E i \in 1 .. Len(got') : got'[i].location = k /\ got'[i].position = p
    <3>1. CASE p \in 1 .. taken[k]
      <4>1. PICK i \in 1 .. Len(got) : got[i].location = k /\ got[i].position = p
        BY <2>1, <3>1, <1>1 DEF ReadInv, Covered
      <4>2. i \in 1 .. Len(got') /\ got'[i] = got[i]
        BY <1>5, <1>7
      <4> QED
        BY <4>1, <4>2
    <3>2. CASE p \notin 1 .. taken[k]
      <4>1. k = l /\ p = n
        BY <3>2, <1>1, <1>3, <1>4 DEF n
      <4>2. Len(got') = Len(got) + 1
        BY <2>1, <4>1, <1>7 DEF e
      <4> QED
        BY <4>1, <4>2, <1>5, <1>7, <1>9
    <3> QED
      BY <3>1, <3>2
  <2> QED
    BY <2>1 DEF Covered, Lost
<1>18. NotYet'
  BY DEF NotYet, Before
<1> QED
  BY <1>11, <1>12, <1>16, <1>17, <1>18 DEF ReadInv

THEOREM InductiveInvariant ==
  Spec => []Inv
<1>1. Init => Inv
  BY InitFile, InitRead DEF Inv
<1>2. Inv /\ [Next]_vars => Inv'
  <2> SUFFICES ASSUME Inv, [Next]_vars PROVE ReadInv'
    BY NextFile DEF Inv
  <2>0. TypeOK /\ ReadInv
    BY DEF Inv, FileInv
  <2>1. CASE Program
    BY <2>1, ProgramRead
  <2>2. ASSUME NEW h \in HandedOut, Skip(h)
        PROVE  ReadInv'
    <3>1. h.record = RecordOf(sent[h.location][taken[h.location] + 1])
      BY <2>0, HandedOutFact
    <3>2. Lost(clock, sent[h.location][taken[h.location] + 1])
      BY <2>2, <3>1, SkippedFact DEF Skip
    <3> QED
      BY <2>2, <3>2, TakeRead DEF Skip, writing
  <2>3. ASSUME NEW h \in HandedOut, Show(h)
        PROVE  ReadInv'
    <3> DEFINE e == sent[h.location][taken[h.location] + 1]
    <3>1. h.record = RecordOf(e) /\ e \in Events /\ clock \in AllClocks
      BY <2>0, HandedOutFact DEF TypeOK
    <3>2. clock.start <= Ticks[e.time]
      <4> HIDE DEF e
      <4> QED
        BY <2>3, <3>1, NotEarlyFact DEF Show
    <3>3. e.type \in Registered
      BY <2>3, <3>1, RecordFact DEF Show, Skipped
    <3> QED
      BY <2>3, <3>2, <3>3, TakeRead DEF Show, writing
  <2>4. CASE UNCHANGED <<sent, clock, reading>> /\ phase' \notin Before /\ phase' # "done"
    BY <2>0, <2>4 DEF ReadInv, NotYet, AllShown, Shown, InTurn, Ordered, Covered,
                      At, Stamp, reading, Lost
  <2>5. ASSUME NEW h \in HandedOut, Fail(h)
        PROVE  ReadInv'
    BY <2>4, <2>5 DEF Fail, Failures, writing, Before
  <2>6. CASE EventsDone
    <3>1. \A l \in registered : taken[l] = Len(sent[l])
      BY <2>0, <2>6, AllRead DEF EventsDone
    <3> QED
      BY <2>0, <2>6, <3>1, SMTT(30) DEF ReadInv, NotYet, AllShown, Shown, InTurn, Ordered,
           Covered, At, Stamp, reading, writing, Lost, EventsDone, Before
  <2>7. CASE UNCHANGED vars
    BY <2>0, <2>7 DEF ReadInv, NotYet, AllShown, Shown, InTurn, Ordered, Covered,
                      At, Stamp, vars, Lost
  <2> QED
    BY <2>1, <2>2, <2>3, <2>5, <2>6, <2>7 DEF Next, ReadAll
<1> QED
  BY <1>1, <1>2, PTL DEF Spec

-----------------------------------------------------------------------------
(* The properties *)

(* What is in the files follows from what was sent, and no more of it is   *)
(* read than there is.                                                     *)
THEOREM TypeCorrect ==
  Spec => []TypeOK
<1>1. Inv => TypeOK
  BY DEF Inv, FileInv
<1> QED
  BY <1>1, InductiveInvariant, PTL

(* Each definition of a location is stored with one event more for each of *)
(* its records than the location was constructed with.                     *)
THEOREM Counts ==
  Spec => []CountsAreStored
<1>1. Inv => CountsAreStored
  <2> SUFFICES ASSUME Inv, phase # "write", NEW l \in Locations
               PROVE  stored[l] = Initial[l] + Len(events[l])
    BY DEF CountsAreStored
  <2>1. stored[l] = Initial[l] + Len(sent[l])
    BY DEF Inv, FileInv, Counted
  <2> QED
    BY <2>1, EventsFact DEF Inv, FileInv
<1> QED
  BY <1>1, InductiveInvariant, PTL

LEMMA ShownEvent ==
  ASSUME Inv, NEW i \in 1 .. Len(got)
  PROVE  LET g == got[i]
             e == sent[g.location][g.position]
         IN /\ g.location \in Locations
            /\ g.position \in 1 .. Len(sent[g.location])
            /\ e \in Events
            /\ e.type \in Registered
            /\ g.event = EventOf(clock, RecordOf(e))
            /\ clock.start <= Ticks[e.time]
            /\ At(i) = Ticks[e.time]
<1>1. TypeOK /\ Shown(i) /\ got[i].location \in Locations
  BY DEF Inv, FileInv, TypeOK, ReadInv, AllShown, Shown
<1>2. got[i].position \in 1 .. Len(sent[got[i].location])
  BY <1>1, EventsFact DEF Shown
<1> QED
  BY <1>1, <1>2, EventsFact DEF Shown, At, Stamp

LEMMA ShownTime ==
  ASSUME Inv, NEW i \in 1 .. Len(got)
  PROVE  \E t \in Times : /\ At(i) = Ticks[t] /\ clock.start <= Ticks[t]
                          /\ got[i].event.time = Instant[clock][Ticks[t]]
<1> DEFINE e == sent[got[i].location][got[i].position]
<1>1. /\ e \in Events /\ At(i) = Ticks[e.time] /\ clock.start <= Ticks[e.time]
      /\ got[i].event = EventOf(clock, RecordOf(e))
  BY ShownEvent
<1> HIDE DEF e
<1>2. e.time \in Times
  BY <1>1, EventFact
<1>3. got[i].event.time = Instant[clock][RecordOf(e).ticks]
  BY <1>1, ShownFact
<1>4. RecordOf(e).ticks = Ticks[e.time]
  BY RecordFact
<1> QED
  BY <1>1, <1>2, <1>3, <1>4

(* The callback sees time advance, whatever the clock.                     *)
THEOREM TimeAdvances ==
  Spec => []InTimeOrder
<1>1. Inv => InTimeOrder
  <2> SUFFICES ASSUME Inv, NEW i \in 1 .. Len(got), NEW j \in 1 .. Len(got), i < j
               PROVE  got[i].event.time <= got[j].event.time
    BY DEF InTimeOrder
  <2>1. At(i) <= At(j)
    BY DEF Inv, ReadInv, Ordered
  <2>2. PICK t \in Times : /\ At(i) = Ticks[t] /\ clock.start <= Ticks[t]
                           /\ got[i].event.time = Instant[clock][Ticks[t]]
    BY ShownTime
  <2>3. PICK u \in Times : /\ At(j) = Ticks[u] /\ clock.start <= Ticks[u]
                           /\ got[j].event.time = Instant[clock][Ticks[u]]
    BY ShownTime
  <2>4. clock \in AllClocks
    BY DEF Inv, FileInv, TypeOK
  <2> QED
    BY <2>1, <2>2, <2>3, <2>4, ClocksAssumption
<1> QED
  BY <1>1, InductiveInvariant, PTL

(* When events_done is called, no event is missing that has a callback and *)
(* is not a metric from before the start of the clock.                     *)
THEOREM Complete ==
  Spec => []NoneLost
<1>1. Inv => NoneLost
  BY DEF Inv, ReadInv, Covered, NoneLost, ShownAt
<1> QED
  BY <1>1, InductiveInvariant, PTL

(* If the tables of the writer and the reader agree, what the callback is  *)
(* called with is what was written.                                        *)
THEOREM AsWritten ==
  ASSUME Faithful
  PROVE  Spec => []ReadAsWritten
<1>1. Inv => ReadAsWritten
  <2> SUFFICES ASSUME Inv PROVE ReadAsWritten
    OBVIOUS
  <2>1. ASSUME NEW i \in 1 .. Len(got)
        PROVE  /\ got[i].position \in 1 .. Len(sent[got[i].location])
               /\ got[i].event = Seen(clock, sent[got[i].location][got[i].position])
    BY ShownEvent, EventAgain
  <2> QED
    BY <2>1 DEF ReadAsWritten, Inv, ReadInv, InTurn
<1> QED
  BY <1>1, InductiveInvariant, PTL

(* If they agree, no callback misses a definition.                         *)
THEOREM NothingMissing ==
  ASSUME Faithful
  PROVE  Spec => []EveryReferenceFound
<1>1. Init => EveryReferenceFound
  BY DEF Init, EveryReferenceFound
<1>2. Inv /\ EveryReferenceFound /\ [Next]_vars => EveryReferenceFound'
  <2> SUFFICES ASSUME Inv, EveryReferenceFound, [Next]_vars
               PROVE  EveryReferenceFound'
    OBVIOUS
  <2>1. ASSUME NEW h \in HandedOut, Fail(h)
        PROVE  phase' # "threw"
    <3> DEFINE e == sent[h.location][taken[h.location] + 1]
    <3>1. h.record = RecordOf(e) /\ e \in Events
      BY HandedOutFact DEF Inv, FileInv
    <3> HIDE DEF e
    <3>2. e.type \in Registered
      BY <2>1, <3>1, RecordFact DEF Fail, Skipped
    <3>3. ~Missing(h.record)
      BY <3>1, <3>2, EventAgain
    <3> QED
      BY <2>1, <3>3 DEF Fail, Failures
  <2>2. CASE Program
    BY <2>2 DEF EveryReferenceFound, Program, Construct, AddAttribute, Restamp,
         Write, Refuse, CloseEventWriter, CloseLocalWriter, WriteClock, Destroy,
         ReadDefinitions, RegisterLocation, ReadEvents, ReadNothing
  <2>3. CASE (\E h \in HandedOut : Skip(h) \/ Show(h)) \/ EventsDone
    BY <2>3 DEF EveryReferenceFound, Skip, Show, EventsDone
  <2>4. CASE UNCHANGED vars
    BY <2>4 DEF EveryReferenceFound, vars
  <2> QED
    BY <2>1, <2>2, <2>3, <2>4 DEF Next, ReadAll, EveryReferenceFound
<1> QED
  BY <1>1, <1>2, InductiveInvariant, PTL DEF Spec

-----------------------------------------------------------------------------
(* The refinement *)

LEMMA ProgramLog ==
  ASSUME Inv, Program
  PROVE  [Log!LogNext]_(Log!logVars)
<1>1. ASSUME UNCHANGED <<sent, clock, taken, got>>, phase \in Before, phase' \in Before
      PROVE  UNCHANGED Log!logVars
  BY <1>1 DEF Log!logVars, Before
<1>2. ASSUME NEW l \in Locations, Write(l)
      PROVE  Log!AppendTo(l)
  <2>1. hand \in Events /\ sent \in [Locations -> Seq(Events)]
    BY <1>2 DEF Write, Inv, FileInv, TypeOK
  <2>2. sent' = [sent EXCEPT ![l] = Append(sent[l], hand)]
    BY <1>2 DEF Write
  <2>3. sent'[l] = Append(sent[l], hand) /\ sent[l] \in Seq(Events)
    BY <2>1, <2>2
  <2>4. sent'[l] # sent[l]
    BY <2>1, <2>3, AppendFact
  <2> QED
    BY <1>2, <2>1, <2>2, <2>4 DEF Write, Log!AppendTo, reading
<1>3. ASSUME NEW c \in Clocks, WriteClock(c)
      PROVE  Log!SetClock(c) /\ c \in AllClocks
  BY <1>3 DEF WriteClock, Log!SetClock, AllClocks, reading
<1>4. CASE ReadEvents
  <2>1. Log!Ask(registered) /\ registered \in SUBSET Locations
    BY <1>4 DEF ReadEvents, Log!Ask, writing, reading, Inv, FileInv, TypeOK
  <2> QED
    BY <2>1 DEF Log!LogNext
<1>5. ASSUME NEW t \in Types, Construct(t)
      PROVE  UNCHANGED Log!logVars
  BY <1>1, <1>5 DEF Construct, reading, Before
<1>6. ASSUME NEW a \in Attributes, AddAttribute(a)
      PROVE  UNCHANGED Log!logVars
  BY <1>1, <1>6 DEF AddAttribute, reading, Before
<1>7. ASSUME NEW t \in Times, Restamp(t)
      PROVE  UNCHANGED Log!logVars
  BY <1>1, <1>7 DEF Restamp, reading, Before
<1>8. ASSUME NEW l \in Locations,
             \/ Refuse(l) \/ CloseEventWriter(l) \/ CloseLocalWriter(l)
             \/ RegisterLocation(l)
      PROVE  UNCHANGED Log!logVars
  BY <1>1, <1>8 DEF Refuse, CloseEventWriter, CloseLocalWriter, RegisterLocation,
                    reading, writing, Before
<1>9. CASE Destroy \/ ReadDefinitions \/ ReadNothing
  BY <1>1, <1>9 DEF Destroy, ReadDefinitions, ReadNothing, reading, writing, Before
<1> QED
  BY <1>2, <1>3, <1>4, <1>5, <1>6, <1>7, <1>8, <1>9 DEF Program, Log!LogNext

LEMMA ShownAppend ==
  ASSUME NEW s \in Seq(Entries), NEW g \in Entries
  PROVE  [i \in 1 .. Len(Append(s, g)) |->
            [location |-> Append(s, g)[i].location, event |-> Append(s, g)[i].event]] =
         Append([i \in 1 .. Len(s) |->
                   [location |-> s[i].location, event |-> s[i].event]],
                [location |-> g.location, event |-> g.event])
BY AppendFact

LEMMA ReadLog ==
  ASSUME Faithful, Inv, ReadAll
  PROVE  [Log!LogNext]_(Log!logVars)
<1>1. /\ TypeOK /\ got \in Seq(Entries) /\ clock \in AllClocks
      /\ registered \subseteq Locations
  BY DEF Inv, FileInv, TypeOK, ReadInv, AllShown
<1>2. ASSUME NEW h \in HandedOut, Skip(h) \/ Show(h)
      PROVE  Log!LogNext
  <2> DEFINE l == h.location
             n == taken[l] + 1
             e == sent[l][n]
  <2>1. /\ l \in registered /\ l \in Locations
        /\ taken[l] < Len(sent[l])
        /\ e \in Events /\ h.record = RecordOf(e)
        /\ \A k \in registered : taken[k] < Len(sent[k]) =>
             Stamp(l, n) <= Stamp(k, taken[k] + 1)
    BY <1>1, HandedOutFact
  <2>2. registered # Nothing
    BY <1>1, NothingAssumption
  <2>3. /\ phase = "read" /\ phase' = "read"
        /\ UNCHANGED <<sent, clock, registered>> /\ Advance(l)
    BY <1>2 DEF Skip, Show, writing
  <2>4. Skipped(clock, h.record) <=> Lost(clock, e)
    <3> HIDE DEF e
    <3> QED
      BY <2>1, SkippedFact
  <2>5. CASE Lost(clock, e)
    <3>1. got' = got
      BY <2>4, <2>5, <1>2 DEF Skip, Show
    <3>2. Log!Take(l)
      BY <2>1, <2>2, <2>3, <2>5, <3>1
         DEF Log!Take, Log!Head1, Log!HasMore, Advance, Rank, Stamp
    <3> QED
      BY <3>2, <2>1 DEF Log!LogNext
  <2>6. CASE ~Lost(clock, e)
    <3> DEFINE g == [location |-> l, position |-> n,
                     event |-> EventOf(clock, h.record)]
    <3>1. got' = Append(got, g)
      BY <2>4, <2>6, <1>2 DEF Skip, Show
    <3>2. g.event = Seen(clock, e)
      <4>1. e.type \in Registered
        BY <2>6 DEF Lost
      <4> HIDE DEF e
      <4> QED
        BY <2>1, <4>1, EventAgain
    <3>3. g \in Entries
      <4> HIDE DEF e
      <4>1. n \in Nat
        BY <1>1, <2>1, EventsFact
      <4> QED
        BY <1>1, <2>1, <4>1 DEF Entries
    <3>4. [i \in 1 .. Len(got') |->
             [location |-> got'[i].location, event |-> got'[i].event]] =
          Append([i \in 1 .. Len(got) |->
                    [location |-> got[i].location, event |-> got[i].event]],
                 [location |-> l, event |-> Seen(clock, e)])
      <4> HIDE DEF e
      <4>1. g.location = l
        OBVIOUS
      <4> HIDE DEF g
      <4> QED
        BY <1>1, <3>1, <3>2, <3>3, <4>1, ShownAppend
    <3>5. Log!Take(l)
      BY <2>1, <2>2, <2>3, <2>6, <3>4
         DEF Log!Take, Log!Head1, Log!HasMore, Advance, Rank, Stamp
    <3> QED
      BY <3>5, <2>1 DEF Log!LogNext
  <2> QED
    BY <2>5, <2>6
<1>3. ASSUME NEW h \in HandedOut, Fail(h)
      PROVE  UNCHANGED Log!logVars
  BY <1>3 DEF Fail, Failures, Log!logVars, writing, reading
<1>4. CASE EventsDone
  BY <1>4 DEF EventsDone, Log!logVars, writing, reading
<1> QED
  BY <1>2, <1>3, <1>4 DEF ReadAll

(* If the tables agree, the archive and the reader are no more than the    *)
(* logs of the locations, read in the order of time.                       *)
THEOREM Refinement ==
  ASSUME Faithful
  PROVE  Spec => ImplementsLog
<1>1. Init => Log!LogInit
  BY DEF Init, Log!LogInit, AllClocks
<1>2. Inv /\ [Next]_vars => [Log!LogNext]_(Log!logVars)
  <2>1. CASE UNCHANGED vars
    BY <2>1 DEF vars, Log!logVars
  <2> QED
    BY <2>1, ProgramLog, ReadLog DEF Next
<1> QED
  BY <1>1, <1>2, InductiveInvariant, PTL DEF Spec, ImplementsLog, Log!LogSpec
=============================================================================
