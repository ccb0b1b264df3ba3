---------------------------- MODULE MCChannels ----------------------------
(***************************************************************************)
(* Values for the parts of Channels.                                       *)
(***************************************************************************)
EXTENDS Channels

CONSTANTS c1, c2, c3

\* Two connections of one user and one of another in a room; the second message
\* is posted in another process.
ThreeConns == {c1, c2, c3}
ThreeMessages == 1..3
SecondElsewhere == [x \in Conns \cup Messages |-> IF x = 2 THEN "b" ELSE "a"]
OneRoom == [x \in Conns \cup Messages |-> "room"]
TwoOfOneUser == [c \in Conns |-> IF c = c3 THEN "k2" ELSE "k1"]

\* Two rows that make the same alert, and two of another, one without access.
Forming == [ticker |-> "b", final |-> "forming", priority |-> "medium", conviction |-> "moderate",
            operational |-> "READY", audit |-> "APPROVED", reason |-> 1, switched |-> FALSE, ready |-> TRUE,
            noTradeNow |-> FALSE, access |-> TRUE]
Confirmed == [Forming EXCEPT !.ticker = "a", !.final = "confirmed", !.priority = "high", !.conviction = "high"]
AlertSignals == {Confirmed, [Confirmed EXCEPT !.reason = 2], Forming, [Forming EXCEPT !.access = FALSE]}

\* Stories that differ in one thing each, and a chain of retellings.
Story == [id |-> "", story |-> "s1", title |-> TRUE, summary |-> TRUE, signature |-> 1, source |-> "x", age |-> 1,
          labels |-> {}, bull |-> 0, bear |-> 0, uncertain |-> FALSE, question |-> FALSE, noise |-> FALSE,
          match |-> "text", ticker |-> TRUE, related |-> FALSE, entities |-> 2, long |-> TRUE, detailed |-> TRUE,
          sector |-> TRUE, keyword |-> FALSE, other |-> FALSE, theme |-> "", letters |-> 1, words |-> {1, 2}]
Stories ==
    {Story, [Story EXCEPT !.signature = 2, !.age = 3],
     [Story EXCEPT !.signature = 3, !.story = "s2", !.letters = 2, !.words = {2, 3}, !.labels = {"resultado"},
                   !.age = 2, !.source = "y"],
     [Story EXCEPT !.signature = 5, !.story = "s4", !.letters = 4, !.words = {4}, !.match = "none",
                   !.ticker = FALSE, !.age = 30],
     [Story EXCEPT !.signature = 6, !.story = "s5", !.id = "n", !.letters = 5, !.words = {5}, !.match = "none",
                   !.ticker = FALSE, !.uncertain = TRUE, !.noise = TRUE, !.bull = 1, !.bear = 1, !.labels = {"macro"}],
     [Story EXCEPT !.signature = 7, !.age = -1, !.other = TRUE, !.match = "related", !.letters = 6,
                   !.words = {6}, !.story = "s6"],
     [Story EXCEPT !.signature = 8, !.title = FALSE]}
First == [Story EXCEPT !.uncertain = TRUE]
Second == [Story EXCEPT !.story = "s2", !.letters = 2, !.words = {1, 2, 3, 4}]
Third == [Story EXCEPT !.story = "s3", !.letters = 3, !.words = {3, 4}]
Retold ==
    {[First EXCEPT !.id = "1", !.age = 10, !.question = TRUE],
     [Second EXCEPT !.id = "2", !.signature = 2, !.age = 11, !.uncertain = TRUE],
     [Third EXCEPT !.id = "3", !.signature = 3, !.age = 12, !.question = TRUE],
     [First EXCEPT !.id = "4", !.signature = 4, !.age = 13, !.question = TRUE],
     [Second EXCEPT !.id = "5", !.signature = 5, !.age = 14],
     [First EXCEPT !.id = "6", !.signature = 6, !.age = 15, !.related = TRUE, !.uncertain = FALSE]}
StoryDeliveries == SeqOf(Stories, 3) \cup {SetToSeq(S) : S \in SUBSET Retold}

\* Entries and exits of one symbol at several prices and times.
Row(action, price, time) ==
    [symbol |-> "petr", action |-> action, price |-> price, time |-> time, stale |-> FALSE, fault |-> "none",
     leans |-> "UNKNOWN"]
Snapshot(rows) == [rows |-> rows, stale |-> FALSE, closes |-> FALSE, on |-> TRUE]
BookSnapshots ==
    {Snapshot(<<Row("BUY", 5, t)>>) : t \in {1, 4, 5}} \cup
    {Snapshot(<<Row("SHORT", 6, 2)>>), Snapshot(<<Row("EXIT", 6, 4)>>), Snapshot(<<Row("COVER", 4, 3)>>),
     Snapshot(<<Row("HOLD", 4, 2)>>), [Snapshot(<<Row("SELL", 6, 3)>>) EXCEPT !.closes = TRUE],
     Snapshot(<<Row("BUY", 5, 1), Row("HEDGE", 5, 1), [Row("SHORT", 5, 1) EXCEPT !.symbol = "vale"]>>),
     Snapshot(<<[Row("BUY", 5, 2) EXCEPT !.fault = "data_quality"]>>),
     Snapshot(<<[Row("BUY", 5, 2) EXCEPT !.fault = "master_direction_conflict"]>>),
     [Snapshot(<<Row("BUY", 5, 2)>>) EXCEPT !.stale = TRUE],
     [Snapshot(<<Row("SELL", 5, 3)>>) EXCEPT !.on = FALSE],
     Snapshot(<<Row("CLOSE", 5, 4), Row("BUY", 5, 4)>>)}

Alert(key, found, seenAt) == [key |-> key, found |-> found, seen |-> seenAt]
AlertBatches ==
    {<<>>, <<Alert("k1", 1, 1)>>, <<Alert("k1", 2, 2), Alert("k2", 0, 2)>>, <<Alert("k2", 1, 2)>>,
     <<Alert("k3", 1, 1), Alert("k1", 2, 3)>>}

RequestAndWorker == [c \in {"r", "w"} |-> IF c = "r" THEN "p" ELSE "q"]

\* A promotion for one account only.
OneUse == [k \in Promos |-> 1]
===========================================================================
