------------------------------- MODULE NewsFeed -------------------------------
(***************************************************************************)
(* From the raw stories of the provider to the cards of a feed             *)
(* (build_symbol_news_with_report in app/services/news_service.py), and    *)
(* from the cards in the cache to the news of a page                       *)
(* (app/services/public_news_service.py).  A raw story is a record of what *)
(* the code finds in its texts; scores are in hundredths of a point.       *)
(***************************************************************************)
EXTENDS Integers, FiniteSets, Sequences, SequencesExt

CONSTANTS
    Deliveries,  \* sequences of raw stories a provider may deliver
    Limit,       \* cards of a feed
    Ticker, Category

VARIABLES
    raws,  \* what the provider delivered, in its order
    feed,  \* the cards that went into the cache
    page   \* the news of a page
vars == <<raws, feed, page>>

None == [kind |-> "none"]

Raws == UNION {ToSet(d) : d \in Deliveries}
Stories == {r.story : r \in Raws}
Words == UNION {r.words : r \in Raws}

\* What _classify_labels finds by the words of a text, in its order.
Labels == <<"resultado", "M&A", "regulacao", "guidance", "macro", "fato relevante">>

Capped(x) == IF x < 0 THEN 0 ELSE IF x > 10000 THEN 10000 ELSE x
Least(a, b) == IF a < b THEN a ELSE b

---------------------------------------------------------------------------
(* About the ticker                                                          *)

\* _ticker_directness: by a name in the text, or by the tickers the provider relates.
Directness(r) ==
    CASE r.match = "text"    -> 10000
      [] r.match = "related" -> 8800
      [] r.match = "alias"   -> 8000
      [] r.match = "none"    -> 4000
Direct(r) == r.match # "none"

\* _ambiguity_analysis
Ambiguity(r) ==
    Capped((IF r.uncertain THEN 2200 ELSE 0) + (IF r.question THEN 1000 ELSE 0)
           + (IF r.bull > 0 /\ r.bear > 0 THEN 2800 ELSE 0)
           + (IF "macro" \in r.labels /\ ~Direct(r) THEN 1400 ELSE 0)
           + (IF ~Direct(r) THEN 1400 ELSE 0)
           + (IF r.noise THEN 1200 ELSE 0))

\* _impact_from_keywords: the heavier hints.  An ambiguous headline about
\* something else has no direction.
Impact(r) ==
    IF Ambiguity(r) >= 5500 /\ ~Direct(r) THEN "neutral"
    ELSE IF r.bull > r.bear THEN "bullish"
    ELSE IF r.bear > r.bull THEN "bearish" ELSE "neutral"

---------------------------------------------------------------------------
(* Scores                                                                    *)

\* _confidence_score; a story without a source is taken for one of Yahoo Finance.
Confidence(r) ==
    Capped(3000 + (IF r.ticker THEN 2000 ELSE 0) + (IF r.related THEN 1000 ELSE 0)
           + Least(2000, Cardinality(r.labels) * 600)
           + (IF r.entities >= 2 THEN 1000 ELSE 0) + 500 + (IF r.long THEN 500 ELSE 0))

\* The first three of the labels, in the order they are looked for, by their weight.
Leading(labels) ==
    {Labels[n] : n \in {n \in DOMAIN Labels : Labels[n] \in labels /\ Cardinality({m \in 1..n - 1 : Labels[m] \in labels}) < 3}}
Heavy(labels, those) == Cardinality(Leading(labels) \cap those)
Weight(labels) ==
    2000 * Heavy(labels, {"resultado", "M&A"}) + 1800 * Heavy(labels, {"guidance", "regulacao"})
    + 1600 * Heavy(labels, {"fato relevante"}) + 1400 * Heavy(labels, {"macro"})

\* _relevance_score
Relevance(r) ==
    LET base == 1000 + Weight(r.labels)
                + (IF r.match = "text" THEN 1800 ELSE 0) + (IF r.sector THEN 800 ELSE 0) + (IF r.detailed THEN 500 ELSE 0)
    IN Capped((base * 60 + Confidence(r) * 40) \div 100)

\* _adjust_quality_scores: directness raises and ambiguity lowers both scores, and
\* more sources of one story raise them.
Adjusted(score, r, direct, ambiguous, perStory, atMost, stories) ==
    Capped(score + ((Directness(r) - 5000) * direct) \div 100 - (Ambiguity(r) * ambiguous) \div 100
           + IF stories >= 2 THEN Least(atMost, (stories - 1) * perStory) ELSE 0)
Confident(score, r, stories) == Adjusted(score, r, 22, 18, 300, 1000, stories)
Relevant(score, r, stories) == Adjusted(score, r, 16, 24, 200, 800, stories)

Unknown == -1

\* _recency_score: eight points an hour, and forty without a time.
Recency(r) == IF r.age = Unknown THEN 4000 ELSE Capped(IF 10000 - r.age * 800 < 2000 THEN 2000 ELSE 10000 - r.age * 800)

Ranking(r, relevance, confidence) == (38 * Recency(r) + 42 * relevance + 20 * confidence) \div 100

\* _should_keep_item
Useful(r, relevance) ==
    IF r.labels # {} THEN ~(Ambiguity(r) >= 7000 /\ ~Direct(r))
    ELSE /\ ~(Ambiguity(r) >= 6000 /\ ~Direct(r))
         /\ relevance >= 5500 \/ r.keyword \/ relevance >= 3500

---------------------------------------------------------------------------
(* A card of the feed                                                        *)

\* The tone of _build_editorial_final: it tells its doubts first.
Tone(r, sources) ==
    IF Ambiguity(r) >= 4500 THEN "mixed"
    ELSE IF Cardinality(sources) >= 2 THEN "confirmed"
    ELSE IF ~Direct(r) THEN "sector" ELSE "plain"

\* The advice of _build_trader_takeaway, by the first of these that fits; the
\* English one knows neither batteries nor movers.
Advice(r) ==
    IF Ambiguity(r) >= 4500 THEN "context"
    ELSE IF "M&A" \in r.labels THEN "event"
    ELSE IF r.theme \in {"dividend", "battery", "mover"} THEN r.theme
    ELSE IF r.labels \cap {"resultado", "guidance"} # {} THEN "reaction"
    ELSE IF "regulacao" \in r.labels THEN "risk"
    ELSE IF "macro" \in r.labels /\ ~Direct(r) THEN "sector first"
    ELSE Impact(r)

\* _normalize_raw_item; a story without a title is no card.  Its ticker is the
\* ticker it was asked for.
Card(r, ticker) ==
    LET c == Confident(Confidence(r), r, 1)
        v == Relevant(Relevance(r), r, 1)
    IN [raw |-> r, id |-> IF r.id # "" THEN r.id ELSE r.story, story |-> r.story, ticker |-> ticker, age |-> r.age,
        impact |-> Impact(r), useful |-> Useful(r, v), confidence |-> c, relevance |-> v,
        ranking |-> Ranking(r, v, c), stories |-> 1, sources |-> {r.source}, tone |-> Tone(r, {r.source}), advice |-> Advice(r)]

---------------------------------------------------------------------------
\* The elements of s at the indices in I, in their order.
Nth(I, k) == CHOOSE i \in I : Cardinality({j \in I : j < i}) = k - 1
Picked(s, I) == [k \in 1..Cardinality(I) |-> s[Nth(I, k)]]

\* Sorted by their keys, tuples of numbers, the greatest first; equals keep their order.
Above(a, b) == \E k \in DOMAIN a : a[k] > b[k] /\ \A m \in 1..k - 1 : a[m] = b[m]
Before(keys, i, j) == Above(keys[i], keys[j]) \/ (keys[i] = keys[j] /\ i < j)
Ranked(s, keys) ==
    [k \in DOMAIN s |-> s[CHOOSE i \in DOMAIN s : Cardinality({j \in DOMAIN s : Before(keys, j, i)}) = k - 1]]

\* The first of those that have the same key.
FirstOf(s, keys) == Picked(s, {i \in DOMAIN s : \A j \in 1..i - 1 : keys[j] # keys[i]})
Upto(s, n) == [k \in 1..Least(n, Len(s)) |-> s[k]]

---------------------------------------------------------------------------
(* _cluster_news                                                             *)

\* Two headlines are alike: by their letters, or by seven tenths of their words.
Alike(a, b) ==
    \/ a.letters = b.letters
    \/ /\ a.words # {} /\ b.words # {}
       /\ 10 * Cardinality(a.words \cap b.words) >= 7 * Least(Cardinality(a.words), Cardinality(b.words))

NoClusters == [list |-> <<>>, byStory |-> [s \in Stories |-> 0], byWord |-> [w \in Words |-> <<>>]]

Same(card, canon) == card.story = canon.story \/ Alike(card.raw, canon.raw)

Smallest(S) == CHOOSE m \in S : \A n \in S : m <= n

\* The first cluster that shares a word and is the same: by the words in their
\* order, and by when it took the word.
Hits(s, card, w) == {k \in DOMAIN s.byWord[w] : Same(card, s.list[s.byWord[w][k]].canon)}
ByWords(s, card) ==
    LET shared == {w \in card.raw.words : Hits(s, card, w) # {}}
        w == Smallest(shared)
    IN IF shared = {} THEN 0 ELSE s.byWord[w][Smallest(Hits(s, card, w))]

\* The cluster of a card, 0 if there is none: the one that had the story last, then
\* those that share a word.  (Mutant: ByWords, that looks by the words only.)
Found(s, card) ==
    LET last == s.byStory[card.story]
    IN IF last # 0 /\ Same(card, s.list[last].canon) THEN last ELSE ByWords(s, card)

Indexed(s, list, card, i, words) ==
    [list |-> list, byStory |-> [s.byStory EXCEPT ![card.story] = i],
     byWord |-> [w \in Words |-> IF w \in words THEN Append(s.byWord[w], i) ELSE s.byWord[w]]]

Alone(card, words) == [canon |-> card, cards |-> <<card>>, words |-> words]

\* The card with the higher rank speaks for the story.
Joined(cluster, card) ==
    [canon |-> IF card.ranking > cluster.canon.ranking THEN card ELSE cluster.canon,
     cards |-> Append(cluster.cards, card), words |-> cluster.words \cup card.raw.words]

\* A card that is not useful is clustered with none.
Clustered(s, card) ==
    LET i == Found(s, card) IN
    IF ~card.useful THEN [s EXCEPT !.list = Append(@, Alone(card, {}))]
    ELSE IF i = 0 THEN Indexed(s, Append(s.list, Alone(card, card.raw.words)), card, Len(s.list) + 1, card.raw.words)
    ELSE Indexed(s, [s.list EXCEPT ![i] = Joined(@, card)], card, i, card.raw.words \ s.list[i].words)

\* The scores of a cluster are those of its card, adjusted once more.
Spoken(cluster) ==
    LET c == cluster.canon
        n == Len(cluster.cards)
        confidence == Confident(c.confidence, c.raw, n)
        relevance == Relevant(c.relevance, c.raw, n)
        sources == UNION {x.sources : x \in ToSet(cluster.cards)}
    IN [c EXCEPT !.stories = n, !.sources = sources, !.tone = Tone(c.raw, sources),
                 !.confidence = confidence, !.relevance = relevance, !.ranking = Ranking(c.raw, relevance, confidence)]

---------------------------------------------------------------------------
(* build_symbol_news_with_report                                             *)

\* _prepare_raw_items: no copies, and nothing without a text.
Prepared(rs) ==
    LET told == Picked(rs, {i \in DOMAIN rs : rs[i].title \/ rs[i].summary})
    IN FirstOf(told, [i \in DOMAIN told |-> told[i].signature])

Time(card) == IF card.age = Unknown THEN -1 ELSE 1000 - card.age
ByTime(cards) == Ranked(cards, [i \in DOMAIN cards |-> <<Time(cards[i]), cards[i].ranking>>])

Cards(rs) ==
    LET prepared == Prepared(rs)
        titled == Picked(prepared, {i \in DOMAIN prepared : prepared[i].title})
    IN ByTime([i \in DOMAIN titled |-> Card(titled[i], Ticker)])

Clusters(cards) ==
    LET upTo[n \in 0..Len(cards)] == IF n = 0 THEN NoClusters ELSE Clustered(upTo[n - 1], cards[n])
    IN upTo[Len(cards)].list

\* _priority_key.  It looks for "regulacao", which is not how the label is spelt.
Editorials == {"resultado", "guidance", "fato relevante", "M&A"}
Priority(c) ==
    <<IF c.useful THEN 1 ELSE 0, IF Direct(c.raw) THEN 1 ELSE 0,
      (IF c.raw.labels \cap Editorials # {} THEN 2 ELSE 0) - (IF "macro" \in c.raw.labels /\ ~Direct(c.raw) THEN 1 ELSE 0),
      c.relevance, c.confidence, c.ranking, Time(c)>>

\* What makes the cut is ranked by its value, the feed by its time.
Feed(rs) ==
    LET clusters == Clusters(Cards(rs))
        spoken == [i \in DOMAIN clusters |-> Spoken(clusters[i])]
        ranked == Ranked(spoken, [i \in DOMAIN spoken |-> Priority(spoken[i])])
    IN ByTime(Upto(FirstOf(ranked, [i \in DOMAIN ranked |-> ranked[i].id]), Limit))

\* build_news_intelligence_report: how much the feed is to be doubted.
Alert(cards) ==
    LET average == FoldLeft(LAMBDA n, c : n + c.confidence, 0, cards) \div Len(cards)
        repeated == Cardinality({c.story : c \in ToSet(cards)}) < Len(cards)
        doubtful == Len(SelectSeq(cards, LAMBDA c : Ambiguity(c.raw) >= 4500))
    IN IF cards = <<>> THEN "low"
       ELSE IF 2 * doubtful >= Len(cards) \/ average < 4500 THEN "high"
       ELSE IF average < 6000 \/ repeated THEN "medium" ELSE "low"

---------------------------------------------------------------------------
(* The page                                                                  *)

\* _item_belongs_to_symbol: a title that names another symbol and not this one
\* disowns it; the ticker the card was filed under, a related ticker or its own
\* words make it this symbol's.
Belongs(card) ==
    /\ ~(card.raw.other /\ card.raw.match # "text")
    /\ \/ card.ticker = Ticker
       \/ card.raw.match \in {"related", "text"}

\* _dedupe_news_items, after _enrich_public_news_item has told today from before.
PageCards(cards) ==
    LET own == Picked(cards, {i \in DOMAIN cards : Belongs(cards[i])})
        ranked == Ranked(own, [i \in DOMAIN own |-> <<Time(own[i])>>])
    IN Upto(FirstOf(ranked, [i \in DOMAIN ranked |-> ranked[i].story]), Limit)
Today(card, later) == card.age # Unknown /\ card.age + later < 12

\* _build_news_state and the data_status of build_public_news_payload.
DataStatus(cards, cache, later, requested) ==
    CASE cards # <<>> /\ \A i \in DOMAIN cards : ~Today(cards[i], later) -> "HISTORICAL"
      [] cards # <<>> /\ \E i \in DOMAIN cards : Today(cards[i], later) ->
             IF cache.status = "stale_fallback" THEN "STALE" ELSE "READY"
      [] cards = <<>> /\ cache.error -> "PROVIDER_ERROR"
      [] cards = <<>> /\ ~cache.error /\ Category = "Crypto" /\ cache.provider = "empty_response" -> "UNSUPPORTED"
      [] OTHER -> IF requested THEN "REFRESHING" ELSE "EMPTY"

Caches == [status : {"ok", "stale_fallback"}, provider : {"ok", "empty_response"}, error : {FALSE}]
          \cup [status : {"empty"}, provider : {"provider_error"}, error : {TRUE}]

---------------------------------------------------------------------------
Init == raws \in Deliveries /\ feed = None /\ page = None

Build ==
    /\ feed = None
    /\ \E cards \in {Feed(raws)} : feed' = [kind |-> "feed", cards |-> cards, alert |-> IF cards = <<>> THEN "low" ELSE Alert(cards)]
    /\ UNCHANGED <<raws, page>>

\* The page is served some hours later, from what the cache then says of itself.
Serve ==
    /\ feed # None /\ page = None
    /\ \E cards \in {PageCards(feed.cards)}, cache \in Caches, later \in {0, 24}, requested \in BOOLEAN :
           page' = [kind |-> "page", cards |-> cards, status |-> DataStatus(cards, cache, later, requested)]
    /\ UNCHANGED <<raws, feed>>

Next == Build \/ Serve
Spec == Init /\ [][Next]_vars

---------------------------------------------------------------------------
\* No two useful cards of a feed tell the same story, in whatever order its
\* sources came and whichever of them speaks for it (_cluster_news).
OneCardPerStory ==
    feed # None => \A i, j \in DOMAIN feed.cards :
        i # j /\ feed.cards[i].useful /\ feed.cards[j].useful => feed.cards[i].story # feed.cards[j].story

\* A page shows a story only if its text or the provider relates it to the symbol:
\* what is generic in the provider's feed is not news of the symbol
\* (_item_belongs_to_symbol).  The code does not keep it.
OnlyItsOwnNews == page # None => \A i \in DOMAIN page.cards : Direct(page.cards[i].raw)
===============================================================================
