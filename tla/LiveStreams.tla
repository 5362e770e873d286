------------------------------ MODULE LiveStreams ------------------------------
(* Live streams: the bus, the bars of a market feed, and the changes a server announces.

   The sections share no state: each has its own Init, Next and Spec. *)
EXTENDS Integers, Sequences, FiniteSets

--------------------------------------------------------------------------------
(* StreamBus and WebSocketStreamAdapter.  publish awaits one subscriber after another
   while it iterates the table of topics, and others may subscribe, unsubscribe and
   publish in between.  A subscriber's list is an object: subscribe appends to it,
   unsubscribe puts another in its place.  *)

CONSTANTS
    Publishers,   \* tasks that publish; Listener is one of them
    Listener,     \* the task that runs listen
    Subscribers,
    Topics,       \* topics of messages
    Patterns,     \* topics subscribed to
    Matching,     \* pairs of a pattern and a topic it matches
    MaxHistory,
    MaxMessages,  \* messages published
    MaxBusChanges, \* subscriptions made and given up, connections and their ends
    None

VARIABLES
    table,    \* the topics in the order they came, each with its list object
    lists,    \* the list objects made so far
    history,  \* the messages kept: sequence number and topic
    number,   \* _sequence
    pub,      \* each task's publish
    link,     \* the listener's connection: closed, open or ended; its flag
    got,      \* by subscriber, the messages it was given: number, task, pattern
    changes

busVars == <<table, lists, history, number, pub, link, got, changes>>

Quiet == [at |-> "no", message |-> None, size |-> 0, key |-> 0, list |-> 0, next |-> 0,
          members |-> {}, all |-> {}]

BusTypeOK ==
    /\ number \in 0..MaxMessages
    /\ Len(history) <= MaxHistory
    /\ link \in [state : {"none", "open", "ended"}, flag : BOOLEAN]

BusInit ==
    /\ table = <<>> /\ lists = <<>> /\ history = <<>> /\ number = 0
    /\ pub = [p \in Publishers |-> Quiet]
    /\ link = [state |-> "none", flag |-> FALSE]
    /\ got = [s \in Subscribers |-> <<>>] /\ changes = 0

--------------------------------------------------------------------------------
(* The table *)

Key(pattern) == {k \in DOMAIN table : table[k].pattern = pattern}
ListOf(pattern) == UNION {{lists[table[k].list][n] : n \in DOMAIN lists[table[k].list]} :
                              k \in Key(pattern)}
BusSubscribed == {<<pattern, s>> \in Patterns \X Subscribers : s \in ListOf(pattern)}

\* What each publish under way could still see: kept for the properties only.
Watched(new) ==
    [p \in Publishers |-> [pub[p] EXCEPT !.members = @ \cap new, !.all = @ \cup new]]

Subscribe(pattern, s) ==
    /\ changes < MaxBusChanges /\ changes' = changes + 1
    /\ IF Key(pattern) = {}
       THEN /\ lists' = Append(lists, <<s>>)
            /\ table' = Append(table, [pattern |-> pattern, list |-> Len(lists) + 1])
       ELSE /\ \E k \in Key(pattern) : lists' = [lists EXCEPT ![table[k].list] = Append(@, s)]
            /\ UNCHANGED table
    /\ pub' = Watched(BusSubscribed \cup {<<pattern, s>>})
    /\ UNCHANGED <<history, number, link, got>>

\* Fault: the subscriber is taken out of the list itself.
FromList(pattern, s) ==
    \E k \in Key(pattern) :
        /\ lists' = [lists EXCEPT ![table[k].list] = SelectSeq(@, LAMBDA x : x # s)]
        /\ UNCHANGED table
Remove(pattern, s) ==
    \E k \in Key(pattern) :
        /\ lists' = Append(lists, SelectSeq(lists[table[k].list], LAMBDA x : x # s))
        /\ table' = [table EXCEPT ![k].list = Len(lists) + 1]

Unsubscribe(pattern, s) ==
    /\ changes < MaxBusChanges /\ changes' = changes + 1
    /\ Remove(pattern, s)
    /\ pub' = Watched(BusSubscribed \ {<<pattern, s>>})
    /\ UNCHANGED <<history, number, link, got>>

--------------------------------------------------------------------------------
(* publish *)

Kept(messages) == SubSeq(messages, Len(messages) - MaxHistory + 1, Len(messages))

BusPublish(p, topic) ==
    /\ pub[p].at # "yes" /\ number < MaxMessages
    /\ p = Listener => link.state = "open"
    /\ number' = number + 1
    /\ LET message == [number |-> number + 1, topic |-> topic]
           longer == Append(history, message)
       IN  /\ history' = IF Len(longer) > MaxHistory THEN Kept(longer) ELSE longer
           /\ pub' = [pub EXCEPT ![p] =
                [at |-> "yes", message |-> message, size |-> Len(table), key |-> 0, list |-> 0,
                 next |-> 0, members |-> BusSubscribed, all |-> BusSubscribed]]
    /\ UNCHANGED <<table, lists, link, got, changes>>

\* The next subscriber of the list: given the message, or its error is reported.
Deliver(p) ==
    /\ pub[p].at = "yes" /\ pub[p].list # 0
    /\ pub[p].next < Len(lists[pub[p].list])
    /\ LET s == lists[pub[p].list][pub[p].next + 1]
           item == [number |-> pub[p].message.number, by |-> p,
                    pattern |-> table[pub[p].key].pattern]
       IN  got' = [got EXCEPT ![s] = Append(@, item)]
    /\ pub' = [pub EXCEPT ![p].next = @ + 1]
    /\ UNCHANGED <<table, lists, history, number, link, changes>>

ListDone(p) == pub[p].list # 0 => pub[p].next >= Len(lists[pub[p].list])

\* The listener's connection after an exception in its loop.
Dropped(p) == IF p = Listener THEN [state |-> "ended", flag |-> FALSE] ELSE link

Grown(p) == Len(table) # pub[p].size

\* The next topic of the table.  One that came since makes the iterator raise.
NextTopic(p) ==
    /\ pub[p].at = "yes" /\ ListDone(p)
    /\ IF Grown(p)
       THEN /\ pub' = [pub EXCEPT ![p].at = "failed"] /\ link' = Dropped(p)
       ELSE /\ UNCHANGED link
            /\ LET k == pub[p].key + 1
               IN  pub' = [pub EXCEPT ![p] =
                     IF k > Len(table) THEN [@ EXCEPT !.at = "done"]
                     ELSE [@ EXCEPT !.key = k, !.next = 0, !.list =
                            IF <<table[k].pattern, pub[p].message.topic>> \in Matching
                            THEN table[k].list ELSE 0]]
    /\ UNCHANGED <<table, lists, history, number, got, changes>>

--------------------------------------------------------------------------------
(* WebSocketStreamAdapter: its frames that are messages are published by Listener *)

Connect ==
    /\ link.state # "open" /\ pub[Listener].at # "yes"
    /\ changes < MaxBusChanges /\ changes' = changes + 1
    /\ link' = [state |-> "open", flag |-> TRUE]
    /\ UNCHANGED <<table, lists, history, number, pub, got>>

\* JSON that is no message, or an error of the connection, ends listen; a connection
\* that its peer closes ends it too, and the flag stays.
EndListen ==
    /\ link.state = "open" /\ pub[Listener].at # "yes"
    /\ changes < MaxBusChanges /\ changes' = changes + 1
    /\ \E flag \in BOOLEAN : link' = [state |-> "ended", flag |-> flag]
    /\ UNCHANGED <<table, lists, history, number, pub, got>>

BusNext ==
    \/ \E pattern \in Patterns, s \in Subscribers :
         Subscribe(pattern, s) \/ Unsubscribe(pattern, s)
    \/ \E p \in Publishers :
         (\E topic \in Topics : BusPublish(p, topic)) \/ Deliver(p) \/ NextTopic(p)
    \/ Connect \/ EndListen

BusSpec == BusInit /\ [][BusNext]_busVars

--------------------------------------------------------------------------------
(* Properties *)

Received(p, pattern, s) ==
    \E n \in DOMAIN got[s] :
        /\ got[s][n].number = pub[p].message.number /\ got[s][n].pattern = pattern

\* A publish that returned has given its message to every subscriber that was
\* subscribed to a matching topic throughout, whatever subscribed or left meanwhile.
PublishReaches ==
    \A p \in Publishers : pub[p].at = "done" =>
        \A <<pattern, s>> \in pub[p].members :
            <<pattern, pub[p].message.topic>> \in Matching => Received(p, pattern, s)

\* Nobody is given a message under a topic it was not subscribed to while the message
\* was being published, or one of a topic that its own does not match.
OnlySubscribed ==
    \A p \in Publishers, s \in Subscribers : \A n \in DOMAIN got[s] :
        pub[p].message # None /\ got[s][n].number = pub[p].message.number =>
            /\ <<got[s][n].pattern, s>> \in pub[p].all
            /\ <<got[s][n].pattern, pub[p].message.topic>> \in Matching

\* The messages of one publisher reach a subscriber in the order they were published,
\* and the history has the last messages in order.
PublisherInOrder ==
    /\ \A s \in Subscribers : \A m, n \in DOMAIN got[s] :
         m < n /\ got[s][m].by = got[s][n].by => got[s][m].number <= got[s][n].number
    /\ \A n \in DOMAIN history : history[n].number = number - Len(history) + n
    /\ Len(history) = IF number < MaxHistory THEN number ELSE MaxHistory

--------------------------------------------------------------------------------
(* MarketFeedBus for one symbol: every tick is published to its topic, added to the bar
   of each bar size that is subscribed, a bar that is full is published, and the price
   alerts that the tick crosses are fired.  Publications overlap at their awaits (a
   delivery on the bus); between two awaits a publication runs alone.               *)

CONSTANTS
    Tasks,        \* callers of publish_tick
    Prices,       \* prices of a tick
    Sizes,        \* bar sizes, in ticks of the clock
    MaxTicks, MaxTime,
    Alerts        \* [price, above]: alerts that are added when the bus is made

VARIABLES
    now,
    count,        \* total_ticks
    aggs,         \* sequence of [size, start, bar, closed]: in the order they were subscribed
    alerts,       \* alert |-> how often it fired
    task,         \* what each caller is at
    running,      \* the task between two awaits, or None
    log           \* ghost: the ticks, in the order they were published: [price, done]

marketVars == <<now, count, aggs, alerts, task, running, log>>

Idle == [at |-> "idle"]

\* A bar with its ticks: open, high, low and close are kept as the code computes them,
\* ticks and times are ghosts.
NoBar == [open |-> 0, high |-> 0, low |-> None, close |-> 0, ticks |-> << >>, times |-> << >>]

Greater(a, b) == IF a > b THEN a ELSE b
Lesser(a, b) == IF a < b THEN a ELSE b
MarketSubscribed == {aggs[i].size : i \in DOMAIN aggs}

MarketInit ==
    /\ now = 0 /\ count = 0 /\ aggs = << >> /\ alerts = [a \in Alerts |-> 0]
    /\ task = [t \in Tasks |-> Idle] /\ running = None /\ log = << >>

MarketTypeOK ==
    /\ now \in 0..MaxTime /\ count \in 0..MaxTicks /\ count = Len(log)
    /\ running \in Tasks \cup {None} /\ MarketSubscribed \subseteq Sizes
    /\ \A a \in Alerts : alerts[a] \in Nat

--------------------------------------------------------------------------------
(* LiveBar.update, TickAggregator.on_tick *)

\* Fault: the low starts at zero, as the high does.
LowFromZero(bar, p) == Lesser(IF bar.low = None THEN 0 ELSE bar.low, p)
Low(bar, p) == IF bar.low = None THEN p ELSE Lesser(bar.low, p)

Updated(bar, p, n) ==
    [open |-> IF bar.ticks = << >> THEN p ELSE bar.open,
     high |-> Greater(bar.high, p), low |-> Low(bar, p), close |-> p,
     ticks |-> Append(bar.ticks, n), times |-> Append(bar.times, now)]

\* Fault: the next bar keeps the start of the one before it.
KeepStart(agg) == agg.start
Restart(agg) == now

Full(agg) == agg.start # None /\ agg.bar.ticks # << >> /\ now - agg.start >= agg.size

\* Fault: the tick that closes a bar belongs to it, and to the next one.
Both(agg, p, n) ==
    [agg EXCEPT !.start = Restart(agg), !.closed = Append(@, Updated(agg.bar, p, n)),
                !.bar = Updated(NoBar, p, n)]
Closed(agg, p, n) ==
    [agg EXCEPT !.start = Restart(agg), !.closed = Append(@, agg.bar),
                !.bar = Updated(NoBar, p, n)]

OnTick(agg, p, n) ==
    IF Full(agg) THEN Closed(agg, p, n)
    ELSE [agg EXCEPT !.start = IF @ = None THEN now ELSE @, !.bar = Updated(@, p, n)]

--------------------------------------------------------------------------------
(* publish_tick *)

\* The caller counts its tick and awaits the subscribers of the topic.
MarketPublish(t) ==
    /\ running = None /\ task[t] = Idle /\ count < MaxTicks
    /\ \E p \in Prices :
         /\ count' = count + 1
         /\ log' = Append(log, [price |-> p, done |-> FALSE])
         /\ task' = [task EXCEPT ![t] = [at |-> "bus", price |-> p, tick |-> count + 1,
                                         held |-> 0, next |-> 1]]
    /\ UNCHANGED <<now, aggs, alerts, running>>

\* The topic's subscribers have it: the loop over the bar sizes begins.
Delivered(t) ==
    /\ running = None /\ task[t].at = "bus"
    /\ running' = t
    /\ task' = [task EXCEPT ![t].at = "bars", ![t].held = Len(aggs)]
    /\ UNCHANGED <<now, count, aggs, alerts, log>>

\* One bar size: a bar that is full is published, and that is an await.
Bars(t) ==
    /\ running = t /\ task[t].at = "bars" /\ task[t].next <= Len(aggs)
    /\ LET i == task[t].next
       IN  /\ aggs' = [aggs EXCEPT ![i] = OnTick(@, task[t].price, task[t].tick)]
           /\ running' = IF Full(aggs[i]) THEN None ELSE t
           /\ task' = [task EXCEPT ![t].next = i + 1,
                                   ![t].at = IF Full(aggs[i]) THEN "barbus" ELSE "bars"]
    /\ UNCHANGED <<now, count, alerts, log>>

\* The bar's subscribers have it.  Another bar size that was subscribed meanwhile ends
\* the loop with an error: the rest of the bars and the alerts do not see the tick.
Resume(t) ==
    /\ running = None /\ task[t].at = "barbus"
    /\ IF Len(aggs) = task[t].held
       THEN running' = t /\ task' = [task EXCEPT ![t].at = "bars"]
       ELSE running' = None /\ task' = [task EXCEPT ![t] = Idle]
    /\ UNCHANGED <<now, count, aggs, alerts, log>>

Crossed(a, p) == IF a.above THEN p >= a.price ELSE p <= a.price

\* Fault: an alert stays armed.
StaysArmed(a, p) == Crossed(a, p)
Fires(a, p) == alerts[a] = 0 /\ Crossed(a, p)

\* _fire_alerts, and the call returns.
FireAlerts(t) ==
    /\ running = t /\ task[t].at = "bars" /\ task[t].next > Len(aggs)
    /\ alerts' = [a \in Alerts |-> IF Fires(a, task[t].price) THEN alerts[a] + 1 ELSE alerts[a]]
    /\ log' = [log EXCEPT ![task[t].tick].done = TRUE]
    /\ task' = [task EXCEPT ![t] = Idle]
    /\ running' = None
    /\ UNCHANGED <<now, count, aggs>>

--------------------------------------------------------------------------------
(* subscribe_bars, and the clock *)

\* Fault: a size that is subscribed again starts a new bar.
Again(s) == Append(SelectSeq(aggs, LAMBDA a : a.size # s),
                   [size |-> s, start |-> None, bar |-> NoBar, closed |-> << >>,
                    since |-> count])
WithSize(s) ==
    IF s \in MarketSubscribed THEN aggs
    ELSE Append(aggs, [size |-> s, start |-> None, bar |-> NoBar, closed |-> << >>,
                       since |-> count])

SubscribeBars ==
    /\ running = None
    /\ \E s \in Sizes : aggs' = WithSize(s)
    /\ UNCHANGED <<now, count, alerts, task, running, log>>

Tick ==
    /\ running = None /\ now < MaxTime
    /\ now' = now + 1
    /\ UNCHANGED <<count, aggs, alerts, task, running, log>>

MarketNext ==
    \/ \E t \in Tasks : MarketPublish(t) \/ Delivered(t) \/ Bars(t) \/ Resume(t) \/ FireAlerts(t)
              \/ SubscribeBars \/ Tick

MarketSpec == MarketInit /\ [][MarketNext]_marketVars

--------------------------------------------------------------------------------
AllBars(agg) == Append(agg.closed, agg.bar)
Seen(agg) ==
    UNION {{b.ticks[i] : i \in DOMAIN b.ticks} : b \in {AllBars(agg)[i] : i \in DOMAIN AllBars(agg)}}
PricesOf(bar) == {log[n].price : n \in {bar.ticks[i] : i \in DOMAIN bar.ticks}}

(* A bar says what its ticks say: the first and the last price, the lowest, and the
   highest when one of them is not below zero; its ticks came within its size, and it
   was open for as long.                                                            *)
BarsAreTicks ==
    \A i \in DOMAIN aggs : \A k \in DOMAIN AllBars(aggs[i]) :
      LET bar == AllBars(aggs[i])[k]
          last == Len(bar.ticks)
      IN  bar.ticks # << >> =>
            /\ bar.open = log[bar.ticks[1]].price /\ bar.close = log[bar.ticks[last]].price
            /\ \A p \in PricesOf(bar) : bar.low <= p /\ p <= bar.high
            /\ bar.low \in PricesOf(bar) /\ bar.high \in PricesOf(bar) \cup {0}
            /\ bar.times[last] - bar.times[1] < aggs[i].size
            /\ k > 1 => bar.times[1] - AllBars(aggs[i])[k - 1].times[1] >= aggs[i].size

(* A tick whose publication returned is once in the bars of every size that was subscribed
   when it was published, however the publications overlapped; an alert fires once, and
   is not pending when a tick that crosses it was published.                        *)
TicksAreKept ==
    /\ \A i \in DOMAIN aggs : \A n \in DOMAIN log :
         /\ log[n].done /\ n > aggs[i].since => n \in Seen(aggs[i])
         /\ \A j, k \in DOMAIN AllBars(aggs[i]) :
              LET a == AllBars(aggs[i])[j].ticks
                  b == AllBars(aggs[i])[k].ticks
              IN  \A x \in DOMAIN a, y \in DOMAIN b : a[x] = b[y] => j = k /\ x = y
    /\ \A a \in Alerts :
         /\ alerts[a] <= 1
         /\ (\E n \in DOMAIN log : log[n].done /\ Crossed(a, log[n].price)) => alerts[a] = 1

--------------------------------------------------------------------------------
(* The changes that a server announces to a session: listen streams, of which watch opens
   a new one before it closes the one it replaces, and the feed that coalesces what they
   deliver until the worker takes it.                                               *)

CONSTANTS
    Watches,       \* sequence of the sets of resources that are watched, one after another
    Resources,
    MaxListenChanges

VARIABLES
    streams,       \* open listen streams: id |-> [uris, flight]
    listening,     \* _listen: the id of the session's stream, or None
    previous,      \* the stream that a watch replaces, or None
    opened,        \* how many times the server answered a watch
    phase,         \* of watch: "none", "opening" or "opened"
    pending,       \* the feed's pending changes: [uri, n, after]
    taken,         \* ghost: changes that next_changes handed over
    announced      \* ghost: changes the server announced while the session listened

listenVars == <<streams, listening, previous, opened, phase, pending, taken, announced>>

ListenInit ==
    /\ streams = << >> /\ listening = None /\ previous = None /\ opened = 0
    /\ phase = "none" /\ pending = {} /\ taken = {} /\ announced = {}

ListenTypeOK ==
    /\ opened \in 0..Len(Watches) /\ phase \in {"none", "opening", "opened"}
    /\ DOMAIN streams \subseteq 1..opened
    /\ pending \cup taken \subseteq announced

--------------------------------------------------------------------------------
(* watch, forward_listen_events *)

Without(id) == [i \in DOMAIN streams \ {id} |-> streams[i]]

\* Fault: the earlier stream is closed first.
ClosedFirst == Without(listening)
StillOpen == streams

Watch ==
    /\ phase = "none" /\ opened < Len(Watches)
    /\ phase' = "opening" /\ previous' = listening /\ streams' = StillOpen
    /\ UNCHANGED <<listening, opened, pending, taken, announced>>

\* The server acknowledges the new stream.
Acknowledge ==
    /\ phase = "opening" /\ phase' = "opened"
    /\ opened' = opened + 1 /\ listening' = opened + 1
    /\ streams' = [i \in DOMAIN streams \cup {opened + 1} |->
                     IF i \in DOMAIN streams THEN streams[i]
                     ELSE [uris |-> Watches[opened + 1], flight |-> {}]]
    /\ UNCHANGED <<previous, pending, taken, announced>>

\* _enter_listen: the server does not serve the stream; the session has none from here
\* on, not even the one it had.
Decline ==
    /\ phase = "opening" /\ phase' = "opened"
    /\ opened' = opened + 1 /\ listening' = None
    /\ UNCHANGED <<streams, previous, pending, taken, announced>>

\* previous.cancel(): what is under way on it is gone.
Replaced ==
    /\ phase = "opened" /\ phase' = "none"
    /\ streams' = Without(previous) /\ previous' = None
    /\ UNCHANGED <<listening, opened, pending, taken, announced>>

--------------------------------------------------------------------------------
(* The server, external, and the feed *)

Change(u) ==
    /\ Cardinality(announced) < MaxListenChanges
    /\ listening # None /\ u \in Watches[listening]
    /\ LET c == [uri |-> u, n |-> Cardinality(announced), after |-> opened]
       IN  /\ announced' = announced \cup {c}
           /\ streams' = [i \in DOMAIN streams |->
                            IF u \in streams[i].uris
                            THEN [streams[i] EXCEPT !.flight = @ \cup {c}]
                            ELSE streams[i]]
    /\ UNCHANGED <<listening, previous, opened, phase, pending, taken>>

\* on_message: a notification, of a server with or without listen streams.
Notify(u) ==
    /\ Cardinality(announced) < MaxListenChanges
    /\ LET c == [uri |-> u, n |-> Cardinality(announced), after |-> opened]
       IN  announced' = announced \cup {c} /\ pending' = pending \cup {c}
    /\ UNCHANGED <<streams, listening, previous, opened, phase, taken>>

\* _pump, ChangeFeed.add
Pump ==
    /\ \E i \in DOMAIN streams : \E c \in streams[i].flight :
         /\ pending' = pending \cup {c}
         /\ streams' = [streams EXCEPT ![i].flight = @ \ {c}]
    /\ UNCHANGED <<listening, previous, opened, phase, taken, announced>>

\* Fault: one change is handed over, and all are cleared.
OneChange == {CHOOSE c \in pending : TRUE}
EveryChange == pending

\* next_changes: all that is pending, once the signal is set.
NextChanges ==
    /\ pending # {} /\ taken' = taken \cup EveryChange /\ pending' = {}
    /\ UNCHANGED <<streams, listening, previous, opened, phase, announced>>

ListenNext ==
    \/ Watch \/ Acknowledge \/ Decline \/ Replaced
    \/ (\E u \in Resources : Change(u) \/ Notify(u)) \/ Pump \/ NextChanges

ListenSpec == ListenInit /\ [][ListenNext]_listenVars

--------------------------------------------------------------------------------
Held == pending \cup taken \cup UNION {streams[i].flight : i \in DOMAIN streams}

(* A change of a watched resource that was announced since the server answered the last
   watch is pending, handed over or under way: not lost while a stream is replaced, nor
   with the one that was (watch, _pump, next_changes).                              *)
ChangesAreHeld == \A c \in announced : c.after = opened /\ listening # None => c \in Held
================================================================================
